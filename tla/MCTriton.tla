------------------------------ MODULE MCTriton ------------------------------
(***************************************************************************)
(* Small instances of TritonMetadata for TLC.                              *)
(***************************************************************************)
EXTENDS TritonMetadata, TLC

CONSTANTS imgapi, moray, web, blank, r1, r2, p1, p2

\* The requests and the ports are alike.
MetadataSymmetry == Permutations(Requests) \cup Permutations(Ports)
=============================================================================
