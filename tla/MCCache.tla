------------------------------ MODULE MCCache ------------------------------
(***************************************************************************)
(* Small instances of Cache for TLC.                                       *)
(***************************************************************************)
EXTENDS Cache, TLC

CONSTANTS k1, k2, k3, v1, v2

\* Each key always has the same TTL, as the built-in collectors' keys do: two
\* share the short one, so that a bucket has an order, and one has the other.
OneTTLEach == (k1 :> {1}) @@ (k2 :> {1}) @@ (k3 :> {2})

\* Two keys always have the same TTL; the third one's changes between
\* insertions, as a plugin's does when its plugin.json is edited (the ttl
\* option of plugin.js).
TTLChangesInOne == (k1 :> {1}) @@ (k2 :> {1}) @@ (k3 :> {1, 2})
=============================================================================
