------------------------------ MODULE TtlStore ------------------------------
(***************************************************************************)
(* What lib/cache.js promises its callers: a key/value store in which an   *)
(* entry can be looked up from the moment it is put until its time to live *)
(* has passed, and then no more.  There is no sweep, no order of keys and  *)
(* no storage here: the entries are exactly the live ones.  Cache.tla is   *)
(* shown to implement this module.                                         *)
(***************************************************************************)
EXTENDS Integers, Functions

CONSTANTS
    Keys,         \* the cache keys callers use
    Values,       \* the values callers store
    TTLs,         \* the times to live callers ask for
    NotFound,     \* what a lookup answers when the key has no live entry
    NoReply,      \* no lookup has been answered since the last other call
    MaxNow        \* bound on the clock

VARIABLES live,   \* a function from the keys that have a live entry to it
          clock,
          reply

storeVars == <<live, clock, reply>>

StoreInit ==
    /\ live = [k \in {} |-> NoReply]
    /\ clock = 0
    /\ reply = NoReply

\* An entry put now is live for ttl ticks, whatever was there before.
Put(k, v, ttl) ==
    /\ live' = [x \in DOMAIN live \cup {k} |->
                  IF x = k THEN [value |-> v, until |-> clock + ttl]
                           ELSE live[x]]
    /\ reply' = NoReply
    /\ UNCHANGED clock

\* A lookup answers with the value last put for the key if that is still live.
Lookup(k) ==
    /\ reply' = IF k \in DOMAIN live THEN live[k].value ELSE NotFound
    /\ UNCHANGED <<live, clock>>

Forget(k) ==
    /\ live' = Restrict(live, DOMAIN live \ {k})
    /\ reply' = NoReply
    /\ UNCHANGED clock

\* Time passes, and exactly the entries whose time has come stop being live.
Advance ==
    /\ clock < MaxNow
    /\ clock' = clock + 1
    /\ live' = Restrict(live, {k \in DOMAIN live : live[k].until > clock'})
    /\ UNCHANGED reply

\* A wall clock may be set back.  What was live stays so, and some of what was
\* not any more is again: the store need not have forgotten it.
SetBack ==
    /\ clock > 0
    /\ clock' = clock - 1
    /\ live = Restrict(live', DOMAIN live)
    /\ DOMAIN live \subseteq DOMAIN live'
    /\ UNCHANGED reply

\* The agent's process ends and its memory with it.
Lose ==
    /\ live' = [k \in {} |-> NoReply]
    /\ reply' = NoReply
    /\ UNCHANGED clock

StoreNext ==
    \/ \E k \in Keys, v \in Values, ttl \in TTLs : Put(k, v, ttl)
    \/ \E k \in Keys : Lookup(k) \/ Forget(k)
    \/ Advance
    \/ SetBack
    \/ Lose

StoreSpec == StoreInit /\ [][StoreNext]_storeVars
=============================================================================
