---------------------------- MODULE MCCollector ----------------------------
(***************************************************************************)
(* Small instances of Collector for TLC.                                   *)
(***************************************************************************)
EXTENDS Collector, TLC

CONSTANTS
    time, vm, plugin, core,   \* collectors
    z1, gz, r1, r2, s1, s2

Common == (time :> "common")

CoreAndPlugins == (core :> "vm") @@ (plugin :> "common")

Common2 == (time :> "common") @@ (vm :> "vm")

\* Connections are alike.
RequestSymmetry == Permutations(Requests)
=============================================================================
