----------------------------- MODULE MCPlugins -----------------------------
(***************************************************************************)
(* Small instances of PluginCollector for TLC.                             *)
(***************************************************************************)
EXTENDS PluginCollector, TLC

CONSTANTS disk1, mail, z1, r1, r2

\* Two plugins, one restricted to other zones.
Both == <<[name |-> disk1, ttl |-> 1, vms |-> Zones],
          [name |-> mail, ttl |-> 1, vms |-> {}]>>

\* The first alone, with another TTL: plugin.json edited and a plugin removed.
One == <<[name |-> disk1, ttl |-> 2, vms |-> Zones]>>

JustBoth == {Both}

BothOrOne == {Both, One}
=============================================================================
