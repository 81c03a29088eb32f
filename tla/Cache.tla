------------------------------- MODULE Cache -------------------------------
(***************************************************************************)
(* lib/cache.js: the in-memory cache every collected metric string and     *)
(* every piece of Triton metadata go through.  Entries live in             *)
(* `items'; for each TTL in use, `recentlyUsedKeys' keeps the keys stored  *)
(* with that TTL in order of insertion, so that the periodic sweep can     *)
(* stop at the first key that has not expired.                             *)
(*                                                                         *)
(* The program is single-threaded, so each public method is one action.    *)
(* The sweep is one synchronous run of the event loop too; it is cut into  *)
(* one step per bucket so that it can be reasoned about without recursion, *)
(* and every other action waits until it is over.                          *)
(*                                                                         *)
(* A definition marked "slip" is no part of the specification: it is the   *)
(* definition after it with a plausible programming mistake, and shows     *)
(* that a property would notice the mistake (PROJECT.json, "mutants").     *)
(***************************************************************************)
EXTENDS Integers, Sequences, Functions

CONSTANTS
    Keys,              \* cache keys: "<zone>/<collector>", "gz/ntp", ...
    Values,            \* what is stored: metric strings, objects
    TTLs,              \* times to live in use, in ticks of the clock
    TTLOf,             \* TTLOf[k]: the TTLs key k may be stored with
    Removable,         \* keys remove() is called for; {} in the agent itself
    ClockMayStepBack,  \* whether Date.now(), a wall clock, may go backwards
    MaxNow,            \* bound on the clock
    NotFound,          \* the answer (error ENOTFOUND) of a failed get
    NoReply            \* no get has been answered since the last other call

ASSUME CacheAssumption ==
    /\ TTLs \subseteq Nat \ {0}
    /\ TTLOf \in [Keys -> SUBSET TTLs]
    /\ Removable \subseteq Keys
    /\ ClockMayStepBack \in BOOLEAN
    /\ MaxNow \in Nat
    /\ NotFound \notin Values
    /\ NoReply \notin Values

VARIABLES
    items,             \* self._items: the keys held, each with its entry
    recentlyUsedKeys,  \* self._recentlyUsedKeys: TTL -> array of keys
    now,               \* Date.now()
    clockRan,          \* now has gone backwards since the process started
    sweep,             \* the local variables of _sweep while it runs
    reply              \* what the last call of get handed to its callback

vars == <<items, recentlyUsedKeys, now, clockRan, sweep, reply>>

Entry == [value : Values, TTL : TTLs, date : 0..MaxNow]

\* "threw": an uncaught TypeError has left the sweep and ends the process.
Phase == {"idle", "scan", "confirm", "threw"}

NotSweeping == [phase |-> "idle", listed |-> {}, todo |-> {}, deleteTo |-> 0]

Empty == [x \in {} |-> NoReply]

Init ==
    /\ items = Empty
    /\ recentlyUsedKeys = Empty
    /\ now = 0
    /\ clockRan = "forward"
    /\ sweep = NotSweeping
    /\ reply = NoReply

-----------------------------------------------------------------------------

Expired(item) == item.date + item.TTL <= now

Held(k) == k \in DOMAIN items

HeldExpired(k) == Held(k) /\ Expired(items[k])

HeldLive(k) == Held(k) /\ ~Expired(items[k])

Bucket(ttl) ==
    IF ttl \in DOMAIN recentlyUsedKeys THEN recentlyUsedKeys[ttl] ELSE <<>>

NotTakenOut(keys, k) == keys                                       \* slip

Distinct(keys) == \A i, j \in 1..Len(keys) : keys[i] = keys[j] => i = j

\* The indexOf/splice loops of insert and remove take every occurrence of the
\* key out.  NoDuplicates is an invariant, so there is at most one.
Without(keys, k) ==
    IF k \notin Range(keys) THEN keys
    ELSE LET i == CHOOSE j \in DOMAIN keys : keys[j] = k
         IN  SubSeq(keys, 1, i - 1) \o SubSeq(keys, i + 1, Len(keys))

FileAtFront(keys, k) == <<k>> \o Without(keys, k)                    \* slip
FileUnlessThere(keys, k) ==                                          \* slip
    IF k \in Range(keys) THEN keys ELSE Append(keys, k)

\* A key that is inserted goes to the end, wherever it was.
File(keys, k) == Append(Without(keys, k), k)

\* The splice at the end of the inner loop.
SpliceOneMore(keys, n) == SubSeq(keys, n + 2, Len(keys))             \* slip
Splice(keys, n) == SubSeq(keys, n + 1, Len(keys))

EntryUntil(v, ttl) == [value |-> v, TTL |-> ttl, date |-> now + ttl] \* slip
NewEntry(v, ttl) == [value |-> v, TTL |-> ttl, date |-> now]

Idle == sweep.phase = "idle"

-----------------------------------------------------------------------------

Insert(k, v, ttl) ==
    /\ Idle
    /\ items' = [x \in DOMAIN items \cup {k} |->
                   IF x = k THEN NewEntry(v, ttl) ELSE items[x]]
    /\ recentlyUsedKeys' =
         [t \in DOMAIN recentlyUsedKeys \cup {ttl} |->
            IF t = ttl THEN File(Bucket(ttl), k) ELSE recentlyUsedKeys[t]]
    /\ reply' = NoReply
    /\ UNCHANGED <<now, clockRan, sweep>>

AnswerIfHeld(k) == IF Held(k) THEN items[k].value ELSE NotFound      \* slip
Answer(k) == IF HeldLive(k) THEN items[k].value ELSE NotFound

\* An expired entry is dropped on the way, but its key stays in its bucket.
Get(k) ==
    /\ Idle
    /\ IF HeldExpired(k)
       THEN items' = Restrict(items, DOMAIN items \ {k})
       ELSE UNCHANGED items
    /\ reply' = Answer(k)
    /\ UNCHANGED <<recentlyUsedKeys, now, clockRan, sweep>>

\* Throws, like the sweep, when the entry's bucket does not exist.
Remove(k) ==
    /\ Idle
    /\ k \in Removable
    /\ reply' = NoReply
    /\ UNCHANGED <<now, clockRan>>
    /\ \/ /\ ~Held(k)
          /\ UNCHANGED <<items, recentlyUsedKeys, sweep>>
       \/ /\ Held(k)
          /\ items' = Restrict(items, DOMAIN items \ {k})
          /\ IF items[k].TTL \in DOMAIN recentlyUsedKeys
             THEN /\ recentlyUsedKeys' = [recentlyUsedKeys EXCEPT
                         ![items[k].TTL] = Without(@, k)]
                  /\ UNCHANGED sweep
             ELSE /\ sweep' = [sweep EXCEPT !.phase = "threw"]
                  /\ UNCHANGED recentlyUsedKeys

-----------------------------------------------------------------------------

\* The timer fires: the buckets that exist now are the ones to go through.
SweepStart ==
    /\ Idle
    /\ sweep' = [phase |-> "scan", listed |-> DOMAIN recentlyUsedKeys,
                 todo |-> DOMAIN recentlyUsedKeys, deleteTo |-> 0]
    /\ UNCHANGED <<items, recentlyUsedKeys, now, clockRan, reply>>

HeldHead(keys, n) ==                                                 \* slip
    /\ n \in 0..Len(keys)
    /\ \A i \in 1..n : Held(keys[i])
    /\ n < Len(keys) => ~Held(keys[n + 1])
ExpiredHeadButLast(keys, n) ==                                       \* slip
    /\ n \in 0..(Len(keys) - 1)
    /\ \A i \in 1..n : HeldExpired(keys[i])
    /\ n < Len(keys) - 1 => ~HeldExpired(keys[n + 1])

\* The inner loop: n is how many keys at the head of the bucket hold an entry
\* that has expired, up to the first key that holds none or a live one.
ExpiredHead(keys, n) ==
    /\ n \in 0..Len(keys)
    /\ \A i \in 1..n : HeldExpired(keys[i])
    /\ n < Len(keys) => ~HeldExpired(keys[n + 1])

SweepEmptyBucket(ttl) ==
    /\ Bucket(ttl) = <<>>
    /\ recentlyUsedKeys' =
         Restrict(recentlyUsedKeys, DOMAIN recentlyUsedKeys \ {ttl})
    /\ sweep' = [sweep EXCEPT !.todo = @ \ {ttl}]
    /\ UNCHANGED items

\* deleteTo is assigned only where the loop breaks, and it is not reset for
\* each bucket: after a bucket that has expired to its end, the splice uses
\* the value an earlier bucket left behind.
SweepKeys(ttl, n) ==
    LET keys     == Bucket(ttl)
        deleteTo == IF n < Len(keys) THEN n ELSE sweep.deleteTo
    IN  /\ keys # <<>>
        /\ ExpiredHead(keys, n)
        /\ items' = Restrict(items, DOMAIN items \ {keys[i] : i \in 1..n})
        /\ recentlyUsedKeys' = [recentlyUsedKeys EXCEPT
                 ![ttl] = Splice(keys, deleteTo)]
        /\ sweep' = [sweep EXCEPT !.todo = @ \ {ttl}, !.deleteTo = deleteTo]

\* One round of the first loop; Object.keys lists integer keys in ascending
\* order.
SweepBucket ==
    /\ sweep.phase = "scan"
    /\ \E ttl \in sweep.todo :
         /\ \A t \in sweep.todo : ttl <= t
         /\ SweepEmptyBucket(ttl) \/ \E n \in 0..Len(Bucket(ttl)) : SweepKeys(ttl, n)
    /\ UNCHANGED <<now, clockRan, reply>>

SweepScanned ==
    /\ sweep.phase = "scan"
    /\ sweep.todo = {}
    /\ sweep' = [sweep EXCEPT !.phase = "confirm"]
    /\ UNCHANGED <<items, recentlyUsedKeys, now, clockRan, reply>>

\* The second loop looks at every bucket listed at the start, the ones the
\* first loop has deleted too, and Object.keys(undefined) throws.
SweepConfirm ==
    /\ sweep.phase = "confirm"
    /\ sweep' = IF sweep.listed \subseteq DOMAIN recentlyUsedKeys
                THEN NotSweeping
                ELSE [sweep EXCEPT !.phase = "threw"]
    /\ UNCHANGED <<items, recentlyUsedKeys, now, clockRan, reply>>

-----------------------------------------------------------------------------

Tick ==
    /\ Idle
    /\ now < MaxNow
    /\ now' = now + 1
    /\ UNCHANGED <<items, recentlyUsedKeys, clockRan, sweep, reply>>

StepBack ==
    /\ Idle
    /\ ClockMayStepBack
    /\ now > 0
    /\ now' = now - 1
    /\ clockRan' = "back"
    /\ UNCHANGED <<items, recentlyUsedKeys, sweep, reply>>

\* The process has aborted, or is stopped by its operator, and SMF starts it
\* again with an empty cache.
Restart ==
    /\ sweep.phase \in {"idle", "threw"}
    /\ items' = Empty
    /\ recentlyUsedKeys' = Empty
    /\ clockRan' = "forward"
    /\ sweep' = NotSweeping
    /\ reply' = NoReply
    /\ UNCHANGED now

Sweeping == SweepStart \/ SweepBucket \/ SweepScanned \/ SweepConfirm

Next ==
    \/ \E k \in Keys, v \in Values : \E ttl \in TTLOf[k] : Insert(k, v, ttl)
    \/ \E k \in Keys : Get(k)
    \/ \E k \in Keys : Remove(k)
    \/ Sweeping
    \/ Tick
    \/ StepBack
    \/ Restart

Spec == Init /\ [][Next]_vars

\* Each sweep schedules the next (_doSweep), and time passes.  Nothing obliges
\* a caller to do anything.
FairSpec == Spec /\ WF_vars(Sweeping) /\ WF_vars(Tick)

-----------------------------------------------------------------------------
(* Properties                                                              *)

\* Types of the variables.
TypeOK ==
    /\ DOMAIN items \subseteq Keys
    /\ items \in [DOMAIN items -> Entry]
    /\ DOMAIN recentlyUsedKeys \subseteq TTLs
    /\ recentlyUsedKeys \in [DOMAIN recentlyUsedKeys -> Seq(Keys)]
    /\ now \in 0..MaxNow
    /\ clockRan \in {"forward", "back"}
    /\ sweep \in [phase : Phase, listed : SUBSET TTLs, todo : SUBSET TTLs,
                  deleteTo : Nat]
    /\ reply \in Values \cup {NotFound, NoReply}

\* Every entry's key is in the bucket of the entry's TTL.  It is what remove
\* relies on when it dereferences that bucket, and what makes an entry the
\* sweep's business at all: an entry in no bucket would stay for ever.
KeyFiled ==
    \A k \in DOMAIN items : k \in Range(Bucket(items[k].TTL))

\* No bucket holds a key twice, however often it is inserted, fetched late or
\* swept: the buckets are bounded by the keys in use.
NoDuplicates ==
    \A ttl \in DOMAIN recentlyUsedKeys : Distinct(recentlyUsedKeys[ttl])

\* The claim the sweep's early exit is built on (cache.js:39-51): the entries
\* filed under a TTL are in the order of their dates in its bucket, so that
\* nothing after a live one has expired.  It holds of the entries that still
\* have that TTL, unless the clock has stepped back.
FiledInOrder ==
    clockRan = "forward" =>
      \A ttl \in DOMAIN recentlyUsedKeys :
        \A i, j \in 1..Len(Bucket(ttl)) :
          LET a == Bucket(ttl)[i]
              b == Bucket(ttl)[j]
          IN  i < j /\ Held(a) /\ Held(b) /\ items[a].TTL = ttl /\ items[b].TTL = ttl
                => items[a].date <= items[b].date

\* A key before k in k's bucket has no entry any more, or one that is filed
\* under another TTL by now.
BehindStray(k) ==
    \E i, j \in 1..Len(Bucket(items[k].TTL)) :
      LET a == Bucket(items[k].TTL)[i]
      IN  /\ i < j
          /\ Bucket(items[k].TTL)[j] = k
          /\ Held(a) => items[a].TTL # items[k].TTL

\* What the early exit costs: when a sweep has been through the buckets it has
\* taken away all that had expired, but for what is behind such a key.
SweptUnlessBehindStray ==
    sweep.phase = "confirm" /\ clockRan = "forward" =>
      \A k \in DOMAIN items : Expired(items[k]) => BehindStray(k)

\* A sweep never takes away an entry that could still be served.
SweepKeepsLive ==
    [][Sweeping => \A k \in DOMAIN items :
         HeldLive(k) => k \in DOMAIN items' /\ items'[k] = items[k]]_vars

\* What the callers see is TtlStore: a get answers with the value inserted last
\* if that is still live and with ENOTFOUND otherwise, whatever sweeps, late
\* gets, restarts and steps of the clock there were.
LiveEntries ==
    [k \in {x \in DOMAIN items : HeldLive(x)} |->
       [value |-> items[k].value, until |-> items[k].date + items[k].TTL]]

Store == INSTANCE TtlStore WITH live <- LiveEntries, clock <- now

ImplementsStore == Store!StoreSpec

\* An expired entry stays for ever only if such a key is in front of it and
\* stops every sweep of the bucket (the else branch at cache.js:161).
LeakedOnlyBehindStray ==
    \A k \in Keys : []<>(HeldExpired(k) => BehindStray(k) \/ clockRan = "back")

\* cache.js:39-42 and triton-metrics.js:20: what has expired is eventually
\* removed.
ExpiredIsSwept == \A k \in Keys : []<>~HeldExpired(k)

\* A sweep runs to its end.
SweepReturns == sweep.phase # "threw"
=============================================================================
