---------------------------- MODULE PluginProofs ----------------------------
(***************************************************************************)
(* What holds of PluginCollector for any zones, listings and requests.     *)
(*                                                                         *)
(* A child and a load come back long after they were started, so both      *)
(* counts rest on whom they belong to: LoadsMatch says that a load under   *)
(* way belongs to exactly one call, which waits for it and for no other.   *)
(* The list is never taken away again once it is there, and that is what   *)
(* a call that comes back relies on.                                       *)
(***************************************************************************)
EXTENDS PluginCollector, FiniteSetTheorems, SequenceTheorems,
        WellFoundedInduction, TLAPS

\* What self.plugins may hold of a directory once it has been asked for.
Lists == Listings \cup {<<>>}

Request ==
    [pc : {"idle", "asking", "starting", "running"}, zone : Zones \cup {Undefined},
     runs : Seq(Run)]

\* A request in progress is about a zone, and has runs only once it has the
\* names of its subCollectors.
RequestOK(q) ==
    /\ q.pc # "idle" => q.zone \in Zones
    /\ q.pc \in {"idle", "asking"} => q.runs = <<>>

RequestsOK ==
    /\ req \in [Requests -> Request]
    /\ \A r \in Requests : RequestOK(req[r])

\* The call that has started load l waits for it.
Waits(q, l) ==
    /\ q.pc # "idle" /\ l.dir = whichPluginDir(q.zone)
    /\ IF l.run = 0 THEN q.pc = "asking"
       ELSE l.run \in DOMAIN q.runs /\ q.runs[l.run].pc = "loading"

LoadsMatch ==
    /\ \A l \in loads : Waits(req[l.req], l)
    /\ \A k, l \in loads : k.req = l.req /\ k.run = l.run => k = l

RunsCounted == IsFiniteSet(Executing) /\ EveryRunCounted

IInv == TypeOK /\ RequestsOK /\ LoadsMatch /\ RunsCounted /\ ListIsThere

-----------------------------------------------------------------------------
(* The constants and the operators on lists.                               *)

LEMMA Distinct ==
    /\ Undefined \notin Lists \cup {NoDir, BadDir, BadInfo}
    /\ {NoDir, BadDir, BadInfo} \cap Lists = {}
    /\ BadInfo # NoDir /\ BadInfo # BadDir
  <1>1. ASSUME NEW a, NEW b, NEW c PROVE Cardinality({a, b, c}) # 4
    <2> DEFINE f == [i \in 1..3 |-> IF i = 1 THEN a ELSE IF i = 2 THEN b ELSE c]
    <2>1. f[1] = a /\ f[2] = b /\ f[3] = c /\ f \in [1..3 -> {a, b, c}]
      OBVIOUS
    <2>2. f \in Surjection(1..3, {a, b, c})
      <3> HIDE DEF f
      <3> QED  BY <2>1 DEF Surjection
    <2>3. Cardinality({a, b, c}) <= 3
      BY <2>2, FS_SurjCardinalityBound DEF ExistsSurjection
    <2> QED  BY <2>3
  <1>2. /\ {NoDir, BadDir, BadInfo, Undefined} # {NoDir, BadDir, BadInfo}
        /\ {NoDir, BadDir, BadInfo, Undefined} # {NoDir, BadDir, Undefined}
    BY <1>1, PluginAssumption
  <1> QED  BY <1>2, PluginAssumption DEF Lists

\* A listing is a sequence of plugins.
LEMMA ListsAreSequences ==
    ASSUME NEW list \in Lists
    PROVE  list \in Seq(Plugin)
  <1>1. CASE list = <<>>
    BY <1>1
  <1>2. CASE list \in Listings
    <2> DEFINE P == [name : Names, ttl : Nat, vms : SUBSET Zones]
    <2>1. list \in Seq(P)
      BY <1>2, PluginAssumption
    <2>2. ASSUME NEW i \in 1..Len(list) PROVE list[i] \in Plugin
      <3>1. i \in DOMAIN list /\ list[i] \in P
        <4> HIDE DEF P
        <4> QED  BY <2>1
      <3>2. list[i].ttl \in TTLs
        BY <1>2, <3>1 DEF TTLs
      <3> QED  BY <3>1, <3>2 DEF Plugin
    <2>3. list \in [1..Len(list) -> Plugin] /\ Len(list) \in Nat
      <3> HIDE DEF P
      <3> QED  BY <2>1, <2>2
    <2> QED  BY <2>3, SeqDef
  <1> QED  BY <1>1, <1>2 DEF Lists

\* A set of numbers that is not empty has a least one: of the intervals up to
\* its elements, one has none of the others strictly inside it.
LEMMA LeastNumber ==
    ASSUME NEW S \in SUBSET Nat, S # {}
    PROVE  \E n \in S : \A m \in S : n <= m
  <1> DEFINE R == StrictSubsetOrdering(Nat)
             F == {1..n : n \in S}
  <1>1. F \subseteq FiniteSubsetsOf(Nat) /\ F # {}
    <2>1. ASSUME NEW n \in S PROVE 1..n \in SUBSET Nat /\ IsFiniteSet(1..n)
      BY FS_Interval
    <2> QED  BY <2>1 DEF FiniteSubsetsOf
  <1>2. PICK x \in F : \A y \in F : <<y, x>> \notin R
    <2> HIDE DEF F
    <2> QED  BY <1>1, FS_StrictSubsetOrderingWellFounded, WFMin
  <1>3. PICK n \in S : x = 1..n
    BY <1>2
  <1>4. ASSUME NEW m \in S, m < n PROVE FALSE
    <2>1. 1..m \subseteq 1..n /\ n \in 1..n /\ n \notin 1..m
      BY <1>4
    <2>2. <<1..m, x>> \in R
      BY <1>3, <2>1 DEF StrictSubsetOrdering
    <2> QED  BY <1>2, <2>2
  <1> QED  BY <1>4

\* The first match of a name is a plugin of the list.
LEMMA FirstMatchIs ==
    ASSUME NEW list \in Lists, NEW name, Matches(list, name) # {}
    PROVE  FirstMatch(list, name) \in Plugin
  <1> DEFINE M == Matches(list, name)
             first(i) == \A j \in M : i <= j
  <1>1. list \in Seq(Plugin)
    BY ListsAreSequences
  <1>2. M \in SUBSET Nat /\ M \subseteq DOMAIN list
    BY <1>1 DEF Matches
  <1>3. \E i \in M : first(i)
    BY <1>2, LeastNumber
  <1>4. (CHOOSE i \in M : first(i)) \in M
    <2> HIDE DEF M, first
    <2> QED  BY <1>3
  <1> QED  BY <1>1, <1>2, <1>4 DEF FirstMatch

LEMMA cacheTTLIs ==
    ASSUME NEW list \in Lists, NEW name
    PROVE  cacheTTL(list, name) \in TTLs
  BY FirstMatchIs DEF cacheTTL, TTLs, Plugin

\* What getMetrics makes of the answer of loadPlugins.
LEMMA VerdictIs ==
    ASSUME NEW name, NEW z, NEW found \in Lists \cup {NoDir, BadDir}
    PROVE  /\ Verdict(name, z, found) \in {"run", "empty", "error", "notAvailable"}
           /\ Verdict(name, z, found) = "run" =>
                found \in Lists /\ Matches(found, name) # {} /\ ~AtLimit
  <1>1. found \in Lists => found \in Seq(Plugin)
    BY ListsAreSequences
  <1> QED  BY <1>1 DEF Verdict

-----------------------------------------------------------------------------
(* A step that changes one request.                                        *)

ExecutingOf(q) == {i \in DOMAIN q.runs : q.runs[i].pc = "executing"}

LEMMA ExecutingIs ==
    \A x : x \in Executing <=>
             \E r \in Requests : \E i \in ExecutingOf(req[r]) : x = <<r, i>>
  BY DEF Executing, ExecutingOf

LEMMA RequestChanges ==
    ASSUME RequestsOK, NEW r \in Requests, NEW q \in Request, RequestOK(q),
           req' = [req EXCEPT ![r] = q]
    PROVE  RequestsOK'
  BY DEF RequestsOK

\* No child is started or ends.
LEMMA CountStays ==
    ASSUME RequestsOK, RunsCounted, NEW r \in Requests, NEW q,
           req' = [req EXCEPT ![r] = q], ExecutingOf(q) = ExecutingOf(req[r]),
           UNCHANGED runningPlugins
    PROVE  RunsCounted'
  <1>1. ASSUME NEW s \in Requests PROVE ExecutingOf(req'[s]) = ExecutingOf(req[s])
    BY DEF RequestsOK
  <1>2. \A x : x \in Executing' <=>
                 \E s \in Requests : \E i \in ExecutingOf(req'[s]) : x = <<s, i>>
    BY DEF Executing, ExecutingOf
  <1>3. \A x : x \in Executing' <=> x \in Executing
    BY <1>1, <1>2, ExecutingIs
  <1>4. Executing' = Executing
    BY <1>3
  <1> QED  BY <1>4 DEF RunsCounted, EveryRunCounted

LEMMA CountGoesUp ==
    ASSUME RequestsOK, RunsCounted, NEW r \in Requests, NEW q, NEW i,
           req' = [req EXCEPT ![r] = q], i \notin ExecutingOf(req[r]),
           ExecutingOf(q) = ExecutingOf(req[r]) \cup {i},
           runningPlugins' = runningPlugins + 1
    PROVE  RunsCounted'
  <1>1. ASSUME NEW s \in Requests
        PROVE  \A j : j \in ExecutingOf(req'[s]) <=>
                        j \in ExecutingOf(req[s]) \/ (s = r /\ j = i)
    BY DEF RequestsOK
  <1>2. \A x : x \in Executing' <=>
                 \E s \in Requests : \E j \in ExecutingOf(req'[s]) : x = <<s, j>>
    BY DEF Executing, ExecutingOf
  <1>3. \A x : x \in Executing' <=> x \in Executing \/ x = <<r, i>>
    BY <1>1, <1>2, ExecutingIs
  <1>4. Executing' = Executing \cup {<<r, i>>} /\ <<r, i>> \notin Executing
    BY <1>3, ExecutingIs
  <1>5. IsFiniteSet(Executing') /\ Cardinality(Executing') = Cardinality(Executing) + 1
    BY <1>4, FS_AddElement DEF RunsCounted
  <1> QED  BY <1>5 DEF RunsCounted, EveryRunCounted

LEMMA CountGoesDown ==
    ASSUME RequestsOK, RunsCounted, NEW r \in Requests, NEW q, NEW i,
           req' = [req EXCEPT ![r] = q], i \in ExecutingOf(req[r]),
           ExecutingOf(q) = ExecutingOf(req[r]) \ {i},
           runningPlugins' = runningPlugins - 1
    PROVE  RunsCounted' /\ runningPlugins' \in Nat
  <1>1. ASSUME NEW s \in Requests
        PROVE  \A j : j \in ExecutingOf(req'[s]) <=>
                        j \in ExecutingOf(req[s]) /\ ~(s = r /\ j = i)
    BY DEF RequestsOK
  <1>2. \A x : x \in Executing' <=>
                 \E s \in Requests : \E j \in ExecutingOf(req'[s]) : x = <<s, j>>
    BY DEF Executing, ExecutingOf
  <1>3. \A x : x \in Executing' <=> x \in Executing /\ x # <<r, i>>
    BY <1>1, <1>2, ExecutingIs
  <1>4. Executing' = Executing \ {<<r, i>>} /\ <<r, i>> \in Executing
    BY <1>3, ExecutingIs
  <1>5. IsFiniteSet(Executing') /\ Cardinality(Executing') = Cardinality(Executing) - 1
    BY <1>4, FS_RemoveElement DEF RunsCounted
  <1>6. Cardinality(Executing') \in Nat
    BY <1>5, FS_CardinalityType
  <1> QED  BY <1>5, <1>6 DEF RunsCounted, EveryRunCounted

\* The loads that remain are still waited for.
LEMMA LoadsStay ==
    ASSUME RequestsOK, LoadsMatch, TypeOK, NEW r \in Requests, NEW q,
           req' = [req EXCEPT ![r] = q], loads' \subseteq loads,
           \A l \in loads' : l.req = r => Waits(q, l)
    PROVE  LoadsMatch'
  <1>1. ASSUME NEW l \in loads' PROVE Waits(req'[l.req], l)
    <2>1. l \in loads /\ l.req \in Requests
      BY DEF TypeOK
    <2> QED  BY <2>1 DEF RequestsOK, LoadsMatch
  <1> QED  BY <1>1 DEF LoadsMatch

\* A list that is there stays there, and the request has one if it needs it.
LEMMA ListStays ==
    ASSUME RequestsOK, ListIsThere, NEW r \in Requests, NEW q,
           req' = [req EXCEPT ![r] = q],
           \A d \in Dirs : plugins[d] # Undefined => plugins'[d] # Undefined,
           \A d \in Dirs : ~due'[d] => plugins'[d] # Undefined,
           q.runs # <<>> => plugins'[whichPluginDir(q.zone)] # Undefined
    PROVE  ListIsThere'
  <1>1. ASSUME NEW s \in Requests, req'[s].runs # <<>>
        PROVE  plugins'[whichPluginDir(req'[s].zone)] # Undefined
    <2>1. CASE s = r
      BY <1>1, <2>1 DEF RequestsOK
    <2>2. CASE s # r
      <3>1. req'[s] = req[s] /\ req[s] \in Request /\ RequestOK(req[s])
        BY <2>2 DEF RequestsOK
      <3>2. req[s].zone \in Zones
        BY <1>1, <3>1 DEF RequestOK
      <3>3. plugins[whichPluginDir(req[s].zone)] # Undefined
        BY <1>1, <3>1 DEF ListIsThere, Dir
      <3> QED  BY <3>1, <3>2, <3>3 DEF Dirs
    <2> QED  BY <2>1, <2>2
  <1> QED  BY <1>1 DEF ListIsThere, Dir

\* Run i of a request goes on to pc, and its other runs stay as they are.
RunPcs == {"todo", "cached", "loading", "executing", "done"}

GoneOn(q, i, pc, plugin, next) ==
    [q EXCEPT !.runs[i] = [@ EXCEPT !.pc = pc, !.plugin = plugin], !.pc = next]

LEMMA RunGoesOn ==
    ASSUME RequestsOK, NEW r \in Requests, NEW i \in DOMAIN req[r].runs,
           NEW pc \in RunPcs,
           NEW plugin \in Plugin \cup {NoPlugin},
           NEW next \in {"starting", "running"}, NEW q,
           q = GoneOn(req[r], i, pc, plugin, next)
    PROVE  /\ q \in Request /\ RequestOK(q) /\ q.zone = req[r].zone /\ q.pc = next
           /\ DOMAIN q.runs = DOMAIN req[r].runs /\ q.runs # <<>>
           /\ q.runs[i].pc = pc /\ q.runs[i].plugin = plugin
           /\ \A j \in DOMAIN q.runs : j # i => q.runs[j] = req[r].runs[j]
  <1> DEFINE runs == req[r].runs
             run == [runs[i] EXCEPT !.pc = pc, !.plugin = plugin]
             after == [runs EXCEPT ![i] = run]
  <1>1. req[r] \in Request /\ RequestOK(req[r])
    BY DEF RequestsOK
  <1>2. runs \in Seq(Run) /\ i \in 1..Len(runs) /\ runs # <<>>
    BY <1>1 DEF Request
  <1>3. run \in Run /\ run.pc = pc /\ run.plugin = plugin
    <2>1. runs[i] \in Run
      BY <1>2
    <2> QED  BY <2>1 DEF Run, RunPcs
  <1>4. /\ after \in Seq(Run) /\ Len(after) = Len(runs)
        /\ \A j \in 1..Len(runs) : after[j] = IF j = i THEN run ELSE runs[j]
    <2> HIDE DEF run, runs
    <2> QED  BY <1>2, <1>3, ExceptSeq
  <1>5. /\ q \in Request /\ q.zone = req[r].zone /\ q.pc = next /\ q.runs = after
    <2>1. q = [req[r] EXCEPT !.runs = after, !.pc = next]
      BY <1>1 DEF GoneOn, Request
    <2> HIDE DEF after
    <2> QED  BY <1>1, <1>4, <2>1 DEF Request
  <1>6. req[r].zone \in Zones
    BY <1>1, <1>2 DEF RequestOK
  <1> HIDE DEF run, runs, after
  <1>7. DOMAIN after = DOMAIN runs /\ after # <<>>
    BY <1>2, <1>4
  <1> QED  BY <1>2, <1>3, <1>4, <1>5, <1>6, <1>7 DEF RequestOK, runs

-----------------------------------------------------------------------------
(* What the steps have in common.                                          *)

\* The variables a request only goes by.
RestOK ==
    /\ disk \in [Dirs -> OnDisk]
    /\ due \in [Dirs -> BOOLEAN]
    /\ plugins \in [Dirs -> Lists \cup {Undefined}]
    /\ loads \subseteq [req : Requests, run : Nat, dir : Dirs, found : OnDisk \cup {Undefined}]

LEMMA TypesHold ==
    ASSUME RestOK', RequestsOK', runningPlugins' \in 0..pluginMaxConcurrent,
           answer' \in Answer \cup {NoAnswer}
    PROVE  TypeOK'
  <1>1. \A r \in Requests : req'[r] \in Request
    BY DEF RequestsOK
  <1> QED  BY <1>1 DEF TypeOK, RestOK, Lists, Request

LEMMA RestHolds == TypeOK => RestOK
  BY DEF TypeOK, RestOK, Lists

\* The list of a directory stays or becomes one.
ListsOnlyAppear == \A d \in Dirs : plugins[d] # Undefined => plugins'[d] # Undefined

DueHasList == \A d \in Dirs : ~due[d] => plugins[d] # Undefined

\* A run that nobody has started, or whose load has come back, goes on with the
\* list there is.
LEMMA ProceedKeeps ==
    ASSUME IInv, NEW r \in Requests, NEW i \in DOMAIN req[r].runs,
           req[r].runs[i].pc \in {"todo", "loading"},
           NEW found \in Lists \cup {NoDir, BadDir}, NEW list \in Lists,
           Proceed(r, i, found, list),
           RestOK', ListsOnlyAppear, DueHasList', loads' \subseteq loads,
           \A l \in loads' : l.req = r => l.run # i
    PROVE  IInv'
  <1> DEFINE name == req[r].runs[i].name
             verdict == Verdict(name, req[r].zone, found)
             pc == IF verdict = "run" THEN "executing" ELSE "done"
             plugin == IF verdict = "run" THEN FirstMatch(found, name) ELSE NoPlugin
             next == IF \E j \in DOMAIN req[r].runs :
                          j # i /\ req[r].runs[j].pc = "todo"
                     THEN "starting" ELSE "running"
             q == [req[r] EXCEPT !.runs[i] = [@ EXCEPT !.pc = pc, !.plugin = plugin],
                                 !.pc = next]
  <1>1. TypeOK /\ RequestsOK /\ LoadsMatch /\ RunsCounted /\ ListIsThere
    BY DEF IInv
  <1>2. /\ verdict \in {"run", "empty", "error", "notAvailable"}
        /\ verdict = "run" => found \in Lists /\ Matches(found, name) # {} /\ ~AtLimit
    BY VerdictIs
  <1>3. plugin \in Plugin \cup {NoPlugin}
    BY <1>2, FirstMatchIs
  <1>4. req' = [req EXCEPT ![r] = q]
    BY DEF Proceed, AfterStarting
  <1>5. verdict = "run" => runningPlugins' = runningPlugins + 1 /\ answer' = NoAnswer
    BY DEF Proceed
  <1>6. verdict # "run" =>
          /\ runningPlugins' = runningPlugins
          /\ answer' = [outcome |-> verdict, plugin |-> NoPlugin,
                        ttl |-> cacheTTL(list, name)]
    BY DEF Proceed
  <1>7. pc \in {"executing", "done"} /\ (pc = "executing" <=> verdict = "run")
    OBVIOUS
  <1>8. next \in {"starting", "running"}
    OBVIOUS
  <1>9. answer' \in Answer \cup {NoAnswer}
    <2>1. cacheTTL(list, name) \in TTLs
      BY cacheTTLIs
    <2> HIDE DEF verdict, name
    <2> QED  BY <1>2, <1>5, <1>6, <2>1 DEF Answer, Outcomes
  <1>10. runningPlugins' \in 0..pluginMaxConcurrent
    <2> HIDE DEF verdict, name
    <2> QED  BY <1>1, <1>2, <1>5, <1>6, PluginAssumption DEF TypeOK, AtLimit
  <1>11. /\ q \in Request /\ RequestOK(q) /\ q.zone = req[r].zone /\ q.pc = next
         /\ DOMAIN q.runs = DOMAIN req[r].runs /\ q.runs[i].pc = pc
         /\ \A j \in DOMAIN q.runs : j # i => q.runs[j] = req[r].runs[j]
    <2>1. q = GoneOn(req[r], i, pc, plugin, next)
      BY DEF GoneOn
    <2>2. pc \in RunPcs
      BY <1>7 DEF RunPcs
    <2> HIDE DEF pc, plugin, next, verdict, name, q
    <2> QED  BY <1>1, <1>3, <1>8, <2>1, <2>2, RunGoesOn
  <1> HIDE DEF q, pc, plugin, next, verdict, name
  <1>12. RequestsOK'
    BY <1>1, <1>4, <1>11, RequestChanges
  <1>13. TypeOK'
    BY <1>9, <1>10, <1>12, TypesHold
  <1>14. i \notin ExecutingOf(req[r])
    BY DEF ExecutingOf
  <1>15. RunsCounted'
    <2>1. CASE verdict = "run"
      <3>1. ExecutingOf(q) = ExecutingOf(req[r]) \cup {i}
        BY <1>7, <1>11, <2>1 DEF ExecutingOf
      <3> QED  BY <1>1, <1>4, <1>5, <1>14, <2>1, <3>1, CountGoesUp
    <2>2. CASE verdict # "run"
      <3>1. ExecutingOf(q) = ExecutingOf(req[r])
        BY <1>7, <1>11, <1>14, <2>2 DEF ExecutingOf
      <3> QED  BY <1>1, <1>4, <1>6, <2>2, <3>1, CountStays
    <2> QED  BY <2>1, <2>2
  <1>16. /\ req[r] \in Request /\ RequestOK(req[r]) /\ req[r].runs # <<>>
         /\ req[r].pc # "asking"
    BY <1>1 DEF RequestsOK, RequestOK
  <1>17. LoadsMatch'
    <2>1. ASSUME NEW l \in loads', l.req = r PROVE Waits(q, l)
      <3>1. Waits(req[r], l) /\ l.run # i
        BY <1>1, <2>1 DEF LoadsMatch
      <3> QED  BY <1>8, <1>11, <1>16, <3>1 DEF Waits
    <2> QED  BY <1>1, <1>4, <2>1, LoadsStay
  <1>18. ListIsThere'
    <2>1. req[r].zone \in Zones /\ plugins[whichPluginDir(req[r].zone)] # Undefined
      BY <1>1, <1>16 DEF ListIsThere, Dir, RequestOK
    <2>2. plugins'[whichPluginDir(q.zone)] # Undefined
      BY <1>11, <2>1 DEF ListsOnlyAppear, Dirs
    <2> QED  BY <1>1, <1>4, <2>2, ListStays DEF ListsOnlyAppear, DueHasList
  <1> QED  BY <1>12, <1>13, <1>15, <1>17, <1>18 DEF IInv

\* The names of the subCollectors have come.
LEMMA NamedKeeps ==
    ASSUME IInv, NEW r \in Requests, NEW z \in Zones, NEW list \in Lists,
           Named(r, z, list), req[r].pc \in {"idle", "asking"},
           UNCHANGED runningPlugins, answer' = NoAnswer,
           RestOK', ListsOnlyAppear, DueHasList', loads' \subseteq loads,
           \A l \in loads' : l.req # r,
           plugins'[whichPluginDir(z)] # Undefined
    PROVE  IInv'
  <1>1. TypeOK /\ RequestsOK /\ LoadsMatch /\ RunsCounted /\ ListIsThere
    BY DEF IInv
  <1>2. PICK cached \in SUBSET DOMAIN list :
          req' = [req EXCEPT ![r] =
            [pc   |-> IF cached = DOMAIN list THEN "running" ELSE "starting",
             zone |-> z,
             runs |-> [i \in DOMAIN list |->
                         [pc     |-> IF i \in cached THEN "cached" ELSE "todo",
                          name   |-> list[i].name,
                          plugin |-> NoPlugin]]]]
    BY DEF Named
  <1> DEFINE pc == IF cached = DOMAIN list THEN "running" ELSE "starting"
             runs == [i \in DOMAIN list |->
                        [pc     |-> IF i \in cached THEN "cached" ELSE "todo",
                         name   |-> list[i].name,
                         plugin |-> NoPlugin]]
             q == [pc |-> pc, zone |-> z, runs |-> runs]
  <1>3. runs \in Seq(Run)
    <2>1. list \in Seq(Plugin) /\ DOMAIN list = 1..Len(list) /\ Len(list) \in Nat
      BY ListsAreSequences
    <2>2. ASSUME NEW i \in DOMAIN list PROVE runs[i] \in Run
      <3>1. list[i] \in Plugin
        BY <2>1
      <3>2. list[i].name \in Names
        BY <3>1 DEF Plugin
      <3> QED  BY <3>2 DEF Run
    <2>3. runs \in [1..Len(list) -> Run]
      <3>1. runs = [i \in 1..Len(list) |-> runs[i]]
        BY <2>1
      <3> HIDE DEF runs
      <3> QED  BY <2>1, <2>2, <3>1
    <2> HIDE DEF runs
    <2> QED  BY <2>1, <2>3, SeqDef
  <1>4. ExecutingOf(q) = {} /\ ExecutingOf(req[r]) = {}
    <2>1. req[r].runs = <<>>
      BY <1>1 DEF RequestsOK, RequestOK
    <2>2. \A i \in DOMAIN q.runs : q.runs[i].pc # "executing"
      OBVIOUS
    <2> QED  BY <2>1, <2>2 DEF ExecutingOf
  <1>5. q \in Request /\ RequestOK(q) /\ q.zone = z
    BY <1>3 DEF Request, RequestOK
  <1>6. req' = [req EXCEPT ![r] = q]
    BY <1>2
  <1> HIDE DEF q, pc, runs
  <1>7. RequestsOK'
    BY <1>1, <1>5, <1>6, RequestChanges
  <1>8. runningPlugins' \in 0..pluginMaxConcurrent
    BY <1>1 DEF TypeOK
  <1>9. TypeOK'
    BY <1>7, <1>8, TypesHold
  <1>10. RunsCounted'
    BY <1>1, <1>4, <1>6, CountStays
  <1>11. LoadsMatch'
    BY <1>1, <1>6, LoadsStay
  <1>12. ListIsThere'
    BY <1>1, <1>5, <1>6, ListStays DEF ListsOnlyAppear, DueHasList
  <1> QED  BY <1>7, <1>9, <1>10, <1>11, <1>12 DEF IInv

\* A call asks for the list to be read again, and waits.
LEMMA StartLoadKeeps ==
    ASSUME IInv, NEW r \in Requests, NEW i \in Nat, NEW d \in Dirs, StartLoad(r, i, d),
           NEW q \in Request, RequestOK(q), req' = [req EXCEPT ![r] = q],
           q.pc # "idle", d = whichPluginDir(q.zone),
           IF i = 0 THEN q.pc = "asking"
                    ELSE i \in DOMAIN q.runs /\ q.runs[i].pc = "loading",
           ExecutingOf(q) = ExecutingOf(req[r]),
           \A l \in loads : l.req = r => Waits(q, l) /\ l.run # i,
           UNCHANGED <<disk, runningPlugins>>, answer' = NoAnswer
    PROVE  IInv'
  <1> DEFINE n == [req |-> r, run |-> i, dir |-> d, found |-> Undefined]
  <1>1. TypeOK /\ RequestsOK /\ LoadsMatch /\ RunsCounted /\ ListIsThere
    BY DEF IInv
  <1>2. RestOK
    BY <1>1, RestHolds
  <1>3. /\ due' = [due EXCEPT ![d] = FALSE]
        /\ plugins' = [plugins EXCEPT ![d] = Placeholder(d)]
        /\ loads' = loads \cup {n}
    BY DEF StartLoad
  <1>4. Placeholder(d) \in Lists /\ Placeholder(d) # Undefined
    BY <1>2, Distinct DEF Placeholder, RestOK, Lists
  <1>5. RestOK'
    <2>1. n \in [req : Requests, run : Nat, dir : Dirs, found : OnDisk \cup {Undefined}]
      OBVIOUS
    <2> HIDE DEF n
    <2> QED  BY <1>2, <1>3, <1>4, <2>1 DEF RestOK
  <1>6. RequestsOK'
    BY <1>1, RequestChanges
  <1>7. runningPlugins' \in 0..pluginMaxConcurrent
    BY <1>1 DEF TypeOK
  <1>8. TypeOK'
    BY <1>5, <1>6, <1>7, TypesHold
  <1>9. RunsCounted'
    BY <1>1, CountStays
  <1>10. LoadsMatch'
    <2>1. ASSUME NEW l \in loads' PROVE Waits(req'[l.req], l)
      <3>1. CASE l = n
        BY <1>1, <3>1 DEF Waits, RequestsOK
      <3>2. CASE l # n
        <4>1. l \in loads /\ l.req \in Requests
          BY <1>1, <1>3, <3>2 DEF TypeOK
        <4> QED  BY <1>1, <4>1 DEF LoadsMatch, RequestsOK
      <3> QED  BY <3>1, <3>2
    <2>2. ASSUME NEW k \in loads', NEW l \in loads', k.req = l.req, k.run = l.run
          PROVE  k = l
      <3>1. n.req = r /\ n.run = i
        OBVIOUS
      <3> HIDE DEF n
      <3> QED  BY <1>1, <1>3, <2>2, <3>1 DEF LoadsMatch
    <2> QED  BY <2>1, <2>2 DEF LoadsMatch
  <1>11. ListIsThere'
    <2>1. \A e \in Dirs : plugins'[e] = IF e = d THEN Placeholder(d) ELSE plugins[e]
      BY <1>2, <1>3 DEF RestOK
    <2>2. \A e \in Dirs : due'[e] = IF e = d THEN FALSE ELSE due[e]
      BY <1>2, <1>3 DEF RestOK
    <2>3. \A e \in Dirs : plugins[e] # Undefined => plugins'[e] # Undefined
      BY <1>4, <2>1
    <2>4. \A e \in Dirs : ~due'[e] => plugins'[e] # Undefined
      BY <1>1, <1>4, <2>1, <2>2 DEF ListIsThere
    <2>5. plugins'[whichPluginDir(q.zone)] # Undefined
      BY <1>4, <2>1
    <2> QED  BY <1>1, <2>3, <2>4, <2>5, ListStays
  <1> QED  BY <1>6, <1>8, <1>9, <1>10, <1>11 DEF IInv

-----------------------------------------------------------------------------
(* The steps.                                                              *)

LEMMA InitHolds == Init => IInv
  <1> SUFFICES ASSUME Init PROVE IInv
    OBVIOUS
  <1>1. RequestsOK
    BY DEF Init, RequestsOK, NoRequest, Request, RequestOK
  <1>2. TypeOK
    <2>1. ASSUME NEW r \in Requests
          PROVE  /\ req[r].pc = "idle" /\ req[r].zone = Undefined
                 /\ req[r].runs \in Seq(Run)
      BY EmptySeq DEF Init, NoRequest
    <2>2. 0 \in 0..pluginMaxConcurrent
      BY PluginAssumption
    <2> QED  BY <2>1, <2>2 DEF Init, TypeOK
  <1>3. LoadsMatch
    BY DEF Init, LoadsMatch
  <1>4. RunsCounted
    <2>1. Executing = {}
      BY DEF Init, Executing, NoRequest
    <2> QED  BY <2>1, FS_EmptySet DEF Init, RunsCounted, EveryRunCounted
  <1>5. ListIsThere
    BY DEF Init, ListIsThere, NoRequest
  <1> QED  BY <1>1, <1>2, <1>3, <1>4, <1>5 DEF IInv

LEMMA CrashKeeps ==
    ASSUME IInv, Crash, UNCHANGED disk
    PROVE  IInv'
  <1>1. RequestsOK'
    BY DEF Crash, RequestsOK, NoRequest, Request, RequestOK
  <1>2. RestOK'
    BY DEF IInv, TypeOK, Crash, RestOK
  <1>3. runningPlugins' \in 0..pluginMaxConcurrent /\ answer' = NoAnswer
    BY PluginAssumption DEF Crash
  <1>4. TypeOK'
    BY <1>1, <1>2, <1>3, TypesHold
  <1>5. LoadsMatch'
    BY DEF Crash, LoadsMatch
  <1>6. RunsCounted'
    <2>1. Executing' = {}
      BY DEF Crash, Executing, NoRequest
    <2> QED  BY <2>1, FS_EmptySet DEF Crash, RunsCounted, EveryRunCounted
  <1>7. ListIsThere'
    BY DEF Crash, ListIsThere, NoRequest
  <1> QED  BY <1>1, <1>4, <1>5, <1>6, <1>7 DEF IInv

\* A step that leaves the requests as they are.
LEMMA RestKeeps ==
    ASSUME IInv, UNCHANGED <<runningPlugins, req>>, answer' \in Answer \cup {NoAnswer},
           RestOK', LoadsMatch', ListIsThere'
    PROVE  IInv'
  <1>1. RequestsOK'
    BY DEF IInv, RequestsOK
  <1>2. runningPlugins' \in 0..pluginMaxConcurrent
    BY DEF IInv, TypeOK
  <1>3. TypeOK'
    BY <1>1, <1>2, TypesHold
  <1>4. RunsCounted'
    BY DEF IInv, RunsCounted, EveryRunCounted, Executing
  <1> QED  BY <1>1, <1>3, <1>4 DEF IInv

LEMMA AroundKeeps ==
    ASSUME IInv, NEW d \in Dirs, DiskChanges(d) \/ IntervalPasses(d)
    PROVE  IInv'
  <1>1. RestOK /\ LoadsMatch /\ ListIsThere
    BY RestHolds DEF IInv
  <1>2. RestOK'
    BY <1>1 DEF DiskChanges, IntervalPasses, RestOK
  <1>3. LoadsMatch'
    BY <1>1 DEF DiskChanges, IntervalPasses, LoadsMatch
  <1>4. ListIsThere'
    BY <1>1 DEF DiskChanges, IntervalPasses, ListIsThere, Dir, RestOK
  <1> QED  BY <1>2, <1>3, <1>4, RestKeeps DEF DiskChanges, IntervalPasses

LEMMA LoadReadsKeeps ==
    ASSUME IInv, NEW l \in loads, LoadReads(l)
    PROVE  IInv'
  <1> DEFINE n == [l EXCEPT !.found = disk[l.dir]]
  <1>1. RestOK /\ LoadsMatch /\ ListIsThere
    BY RestHolds DEF IInv
  <1>2. l \in [req : Requests, run : Nat, dir : Dirs, found : OnDisk \cup {Undefined}]
    BY <1>1 DEF RestOK
  <1>3. /\ n.req = l.req /\ n.run = l.run /\ n.dir = l.dir
        /\ n \in [req : Requests, run : Nat, dir : Dirs, found : OnDisk \cup {Undefined}]
    BY <1>1, <1>2 DEF RestOK
  <1>4. loads' = (loads \ {l}) \cup {n} /\ UNCHANGED <<disk, due, plugins, req>>
    BY DEF LoadReads
  <1> HIDE DEF n
  <1>5. RestOK'
    BY <1>1, <1>3, <1>4 DEF RestOK
  <1>6. LoadsMatch'
    <2>1. ASSUME NEW k \in loads' PROVE Waits(req'[k.req], k)
      <3>1. CASE k = n
        BY <1>1, <1>3, <1>4, <3>1 DEF LoadsMatch, Waits
      <3>2. CASE k # n
        BY <1>1, <1>4, <3>2 DEF LoadsMatch
      <3> QED  BY <3>1, <3>2
    <2>2. ASSUME NEW j \in loads', NEW k \in loads', j.req = k.req, j.run = k.run
          PROVE  j = k
      BY <1>1, <1>3, <1>4, <2>2 DEF LoadsMatch
    <2> QED  BY <2>1, <2>2 DEF LoadsMatch
  <1>7. ListIsThere'
    BY <1>1, <1>4 DEF ListIsThere, Dir
  <1> QED  BY <1>5, <1>6, <1>7, RestKeeps DEF LoadReads

LEMMA GetSubCollectorsKeeps ==
    ASSUME IInv, NEW r \in Requests, NEW z \in Zones, GetSubCollectors(r, z)
    PROVE  IInv'
  <1> DEFINE d == whichPluginDir(z)
  <1>1. RestOK /\ RequestsOK /\ LoadsMatch /\ ListIsThere
    BY RestHolds DEF IInv
  <1>2. /\ req[r].pc = "idle" /\ RequestOK(req[r]) /\ req[r].runs = <<>>
        /\ \A l \in loads : l.req # r
    BY <1>1 DEF GetSubCollectors, RequestsOK, RequestOK, LoadsMatch, Waits
  <1>3. d \in Dirs
    BY DEF Dirs
  <1>4. CASE due[d]
    <2> DEFINE q == [pc |-> "asking", zone |-> z, runs |-> <<>>]
    <2>1. StartLoad(r, 0, d) /\ req' = [req EXCEPT ![r] = q]
      BY <1>4 DEF GetSubCollectors, NoRequest
    <2>2. /\ q \in Request /\ RequestOK(q) /\ q.pc = "asking" /\ q.zone = z
          /\ q.runs = <<>>
      BY EmptySeq DEF Request, RequestOK
    <2>3. ExecutingOf(q) = ExecutingOf(req[r])
      BY <1>2, <2>2 DEF ExecutingOf
    <2> HIDE DEF q
    <2>4. UNCHANGED <<disk, runningPlugins>> /\ answer' = NoAnswer
      BY DEF GetSubCollectors
    <2>5. 0 \in Nat /\ q.pc # "idle" /\ d = whichPluginDir(q.zone)
      BY <2>2
    <2> HIDE DEF d
    <2> QED  BY <1>2, <1>3, <2>1, <2>2, <2>3, <2>4, <2>5, StartLoadKeeps
  <1>5. CASE ~due[d]
    <2>1. /\ Named(r, z, plugins[d]) /\ UNCHANGED <<disk, due, plugins, loads, runningPlugins>>
          /\ answer' = NoAnswer
      BY <1>5 DEF GetSubCollectors
    <2>2. plugins[d] \in Lists /\ plugins[d] # Undefined
      BY <1>1, <1>3, <1>5 DEF RestOK, ListIsThere
    <2>3. RestOK' /\ ListsOnlyAppear /\ DueHasList'
      BY <1>1, <2>1 DEF RestOK, ListsOnlyAppear, DueHasList, ListIsThere
    <2> QED  BY <1>2, <2>1, <2>2, <2>3, NamedKeeps
  <1> QED  BY <1>4, <1>5

LEMMA GetMetricsKeeps ==
    ASSUME IInv, NEW r \in Requests, NEW i \in DOMAIN req[r].runs, GetMetrics(r, i)
    PROVE  IInv'
  <1> DEFINE d == whichPluginDir(req[r].zone)
  <1>1. RestOK /\ RequestsOK /\ LoadsMatch /\ ListIsThere
    BY RestHolds DEF IInv
  <1>2. /\ req[r] \in Request /\ RequestOK(req[r]) /\ req[r].runs \in Seq(Run)
        /\ i \in Nat \ {0} /\ req[r].pc = "starting" /\ req[r].runs[i].pc = "todo"
    <2>1. req[r] \in Request /\ RequestOK(req[r])
      BY <1>1 DEF RequestsOK
    <2>2. req[r].runs \in Seq(Run)
      BY <2>1 DEF Request
    <2> QED  BY <2>1, <2>2 DEF GetMetrics
  <1>3. d \in Dirs
    BY <1>2 DEF RequestOK, Dirs
  <1>4. ASSUME NEW l \in loads, l.req = r PROVE Waits(req[r], l) /\ l.run # i /\ l.run # 0
    BY <1>1, <1>2, <1>4 DEF LoadsMatch, Waits
  <1>5. CASE due[d]
    <2> DEFINE next == IF \E j \in DOMAIN req[r].runs :
                            j # i /\ req[r].runs[j].pc = "todo"
                       THEN "starting" ELSE "running"
               pc == "loading"
               plugin == NoPlugin
               q == GoneOn(req[r], i, pc, plugin, next)
    <2>1. StartLoad(r, i, d) /\ req' = [req EXCEPT ![r] = q] /\ answer' = NoAnswer
      BY <1>5 DEF GetMetrics, Dir, AfterStarting, GoneOn
    <2>2. next \in {"starting", "running"}
      OBVIOUS
    <2>3. pc \in RunPcs /\ plugin \in Plugin \cup {NoPlugin}
      BY DEF RunPcs
    <2> HIDE DEF next
    <2>4. /\ q \in Request /\ RequestOK(q) /\ q.zone = req[r].zone /\ q.pc = next
          /\ DOMAIN q.runs = DOMAIN req[r].runs /\ q.runs[i].pc = "loading"
          /\ \A j \in DOMAIN q.runs : j # i => q.runs[j] = req[r].runs[j]
      <3>1. q = GoneOn(req[r], i, pc, plugin, next)
        OBVIOUS
      <3> HIDE DEF pc, plugin, q
      <3>2. /\ q \in Request /\ RequestOK(q) /\ q.zone = req[r].zone /\ q.pc = next
            /\ DOMAIN q.runs = DOMAIN req[r].runs /\ q.runs[i].pc = pc
            /\ \A j \in DOMAIN q.runs : j # i => q.runs[j] = req[r].runs[j]
        BY <1>1, <2>2, <2>3, <3>1, RunGoesOn
      <3> QED  BY <3>2 DEF pc
    <2> HIDE DEF q
    <2>5. ExecutingOf(q) = ExecutingOf(req[r])
      BY <1>2, <2>4 DEF ExecutingOf
    <2>6. \A l \in loads : l.req = r => Waits(q, l) /\ l.run # i
      BY <1>2, <1>4, <2>2, <2>4 DEF Waits
    <2>7. UNCHANGED <<disk, runningPlugins>>
      BY <1>5 DEF GetMetrics, Dir
    <2>8. /\ q.pc # "idle" /\ d = whichPluginDir(q.zone)
          /\ i \in DOMAIN q.runs /\ q.runs[i].pc = "loading" /\ i # 0 /\ i \in Nat
      BY <1>2, <2>2, <2>4
    <2> HIDE DEF d
    <2> QED  BY <1>3, <2>1, <2>4, <2>5, <2>6, <2>7, <2>8, StartLoadKeeps
  <1>6. CASE ~due[d]
    <2>1. /\ Proceed(r, i, plugins[d], plugins[d])
          /\ UNCHANGED <<disk, due, plugins, loads>>
      BY <1>6 DEF GetMetrics, Dir
    <2>2. plugins[d] \in Lists
      BY <1>1, <1>3, <1>6 DEF RestOK, ListIsThere
    <2>3. RestOK' /\ ListsOnlyAppear /\ DueHasList'
      BY <1>1, <2>1 DEF RestOK, ListsOnlyAppear, DueHasList, ListIsThere
    <2> QED  BY <1>2, <1>4, <2>1, <2>2, <2>3, ProceedKeeps
  <1> QED  BY <1>5, <1>6

LEMMA AfterExecutionKeeps ==
    ASSUME IInv, NEW r \in Requests, NEW i \in DOMAIN req[r].runs, AfterExecution(r, i)
    PROVE  IInv'
  <1> DEFINE d == whichPluginDir(req[r].zone)
             pc == "done"
             plugin == NoPlugin
             next == req[r].pc
             q == GoneOn(req[r], i, pc, plugin, next)
  <1>1. TypeOK /\ RestOK /\ RequestsOK /\ LoadsMatch /\ ListIsThere /\ RunsCounted
    BY RestHolds DEF IInv
  <1>2. /\ req[r] \in Request /\ RequestOK(req[r]) /\ req[r].runs \in Seq(Run)
        /\ req[r].pc \in {"starting", "running"} /\ req[r].runs[i].pc = "executing"
        /\ req[r].runs # <<>> /\ req[r].runs[i] \in Run
    <2>1. req[r] \in Request /\ RequestOK(req[r])
      BY <1>1 DEF RequestsOK
    <2>2. req[r].runs \in Seq(Run) /\ req[r].runs # <<>>
      BY <2>1 DEF Request
    <2> QED  BY <2>1, <2>2 DEF AfterExecution, RequestOK, Request
  <1>3. PICK outcome \in {"metrics", "empty", "notAvailable"} :
          /\ answer' = [outcome |-> outcome, plugin |-> req[r].runs[i].plugin,
                        ttl |-> cacheTTL(plugins[Dir(r)], req[r].runs[i].name)]
          /\ runningPlugins' = Released(outcome)
    BY DEF AfterExecution, Executed, Parsed
  <1>4. req' = [req EXCEPT ![r] = q]
    BY <1>2 DEF AfterExecution, GoneOn, RequestsOK, Request
  <1>5. /\ pc \in RunPcs /\ plugin \in Plugin \cup {NoPlugin}
        /\ next \in {"starting", "running"}
    BY <1>2 DEF RunPcs
  <1>6. /\ q \in Request /\ RequestOK(q) /\ q.zone = req[r].zone /\ q.pc = req[r].pc
        /\ DOMAIN q.runs = DOMAIN req[r].runs /\ q.runs[i].pc = "done"
        /\ \A j \in DOMAIN q.runs : j # i => q.runs[j] = req[r].runs[j]
    <2>1. q = GoneOn(req[r], i, pc, plugin, next)
      OBVIOUS
    <2> HIDE DEF pc, plugin, next, q
    <2>2. /\ q \in Request /\ RequestOK(q) /\ q.zone = req[r].zone /\ q.pc = next
          /\ DOMAIN q.runs = DOMAIN req[r].runs /\ q.runs[i].pc = pc
          /\ \A j \in DOMAIN q.runs : j # i => q.runs[j] = req[r].runs[j]
      BY <1>1, <1>5, <2>1, RunGoesOn
    <2> QED  BY <2>2 DEF pc, next
  <1> HIDE DEF pc, plugin, next, q
  <1>7. plugins[d] \in Lists /\ plugins[d] # Undefined
    <2>1. d \in Dirs /\ plugins[d] # Undefined
      BY <1>1, <1>2 DEF RequestOK, Dirs, ListIsThere, Dir
    <2> QED  BY <1>1, <2>1 DEF RestOK
  <1>8. answer' \in Answer \cup {NoAnswer}
    <2>1. cacheTTL(plugins[d], req[r].runs[i].name) \in TTLs
      BY <1>7, cacheTTLIs
    <2>2. req[r].runs[i].plugin \in Plugin \cup {NoPlugin}
      BY <1>2 DEF Run
    <2> QED  BY <1>3, <2>1, <2>2 DEF Answer, Outcomes, Dir
  <1>9. i \in ExecutingOf(req[r]) /\ ExecutingOf(q) = ExecutingOf(req[r]) \ {i}
    BY <1>2, <1>6 DEF ExecutingOf
  <1>10. RunsCounted' /\ runningPlugins' \in Nat
    BY <1>1, <1>3, <1>4, <1>9, CountGoesDown DEF Released
  <1>11. runningPlugins' \in 0..pluginMaxConcurrent
    BY <1>1, <1>3, <1>10, PluginAssumption DEF Released, TypeOK
  <1>12. RestOK' /\ UNCHANGED <<due, plugins, loads>>
    BY <1>1 DEF AfterExecution, RestOK
  <1>13. RequestsOK'
    BY <1>1, <1>4, <1>6, RequestChanges
  <1>14. TypeOK'
    BY <1>8, <1>11, <1>12, <1>13, TypesHold
  <1>15. LoadsMatch'
    <2>1. ASSUME NEW l \in loads', l.req = r PROVE Waits(q, l)
      <3>1. Waits(req[r], l)
        BY <1>1, <1>12, <2>1 DEF LoadsMatch
      <3> QED  BY <1>2, <1>6, <3>1 DEF Waits
    <2> QED  BY <1>1, <1>4, <1>12, <2>1, LoadsStay
  <1>16. ListIsThere'
    BY <1>1, <1>4, <1>6, <1>7, <1>12, ListStays DEF ListIsThere
  <1> QED  BY <1>10, <1>13, <1>14, <1>15, <1>16 DEF IInv

LEMMA LoadReturnsKeeps ==
    ASSUME IInv, NEW l \in loads, LoadReturns(l)
    PROVE  IInv'
  <1> DEFINE list == ListAfter(l.dir, l.found)
             r == l.req
  <1>1. RestOK /\ RequestsOK /\ LoadsMatch /\ ListIsThere
    BY RestHolds DEF IInv
  <1>2. l \in [req : Requests, run : Nat, dir : Dirs, found : OnDisk \cup {Undefined}]
    BY <1>1 DEF RestOK
  <1>3. CASE AssertionFails(l)
    BY <1>3, CrashKeeps DEF LoadReturns
  <1>4. CASE ~AssertionFails(l)
    <2>1. /\ plugins' = [plugins EXCEPT ![l.dir] = list]
          /\ loads' = loads \ {l}
          /\ UNCHANGED <<disk, due>>
      BY <1>4 DEF LoadReturns
    <2>2. l.found \in Lists \cup {NoDir, BadDir} /\ list \in Lists /\ list # Undefined
      <3>1. l.found \in Lists \cup {NoDir, BadDir}
        BY <1>2, <1>4 DEF LoadReturns, AssertionFails, OnDisk, Lists
      <3> QED  BY <3>1, Distinct DEF ListAfter, Lists
    <2>3. r \in Requests /\ l.dir \in Dirs /\ Waits(req[r], l)
      BY <1>1, <1>2 DEF LoadsMatch
    <2> HIDE DEF list
    <2>4. RestOK'
      BY <1>1, <2>1, <2>2, <2>3 DEF RestOK
    <2>5. ListsOnlyAppear /\ DueHasList'
      BY <1>1, <2>1, <2>2, <2>3 DEF ListsOnlyAppear, DueHasList, RestOK, ListIsThere
    <2>6. \A k \in loads' : k.req = r => k.run # l.run
      BY <1>1, <2>1 DEF LoadsMatch
    <2>7. RequestOK(req[r])
      BY <1>1, <2>3 DEF RequestsOK
    <2>8. CASE l.run = 0
      <3>1. /\ Named(r, req[r].zone, list) /\ answer' = NoAnswer
            /\ UNCHANGED runningPlugins
        BY <1>4, <2>8 DEF LoadReturns, list
      <3>2. req[r].pc = "asking" /\ req[r].zone \in Zones /\ req[r].runs = <<>>
        BY <2>3, <2>7, <2>8 DEF Waits, RequestOK
      <3>3. \A k \in loads' : k.req # r
        BY <1>1, <2>1, <2>6, <2>8, <3>2 DEF LoadsMatch, Waits
      <3>4. plugins'[whichPluginDir(req[r].zone)] # Undefined
        BY <1>1, <2>1, <2>2, <2>3 DEF Waits, RestOK
      <3> QED
        BY <2>1, <2>2, <2>3, <2>4, <2>5, <3>1, <3>2, <3>3, <3>4, NamedKeeps
    <2>9. CASE l.run # 0
      <3>1. Proceed(r, l.run, l.found, list)
        BY <1>4, <2>9 DEF LoadReturns, list
      <3>2. l.run \in DOMAIN req[r].runs /\ req[r].runs[l.run].pc = "loading"
        BY <2>3, <2>9 DEF Waits
      <3> QED  BY <2>1, <2>2, <2>3, <2>4, <2>5, <2>6, <3>1, <3>2, ProceedKeeps
    <2> QED  BY <2>8, <2>9
  <1> QED  BY <1>3, <1>4

LEMMA FinishKeeps ==
    ASSUME IInv, NEW r \in Requests, Finish(r)
    PROVE  IInv'
  <1>1. TypeOK /\ RestOK /\ RequestsOK /\ LoadsMatch /\ ListIsThere /\ RunsCounted
    BY RestHolds DEF IInv
  <1>2. /\ req' = [req EXCEPT ![r] = NoRequest] /\ answer' = NoAnswer
        /\ UNCHANGED <<disk, due, plugins, loads, runningPlugins>>
        /\ req[r].pc = "running"
        /\ \A i \in DOMAIN req[r].runs : req[r].runs[i].pc \in {"cached", "done"}
    BY DEF Finish
  <1>3. /\ NoRequest \in Request /\ RequestOK(NoRequest)
        /\ NoRequest.runs = <<>> /\ ExecutingOf(NoRequest) = {}
    BY DEF NoRequest, Request, RequestOK, ExecutingOf
  <1>4. RestOK'
    BY <1>1, <1>2 DEF RestOK
  <1>5. RequestsOK'
    BY <1>1, <1>2, <1>3, RequestChanges
  <1>6. runningPlugins' \in 0..pluginMaxConcurrent
    BY <1>1, <1>2 DEF TypeOK
  <1>7. TypeOK'
    BY <1>2, <1>4, <1>5, <1>6, TypesHold
  <1>8. ExecutingOf(req[r]) = {}
    BY <1>2 DEF ExecutingOf
  <1>9. RunsCounted'
    BY <1>1, <1>2, <1>3, <1>8, CountStays
  <1>10. \A l \in loads' : l.req # r
    BY <1>1, <1>2 DEF LoadsMatch, Waits
  <1>11. LoadsMatch'
    BY <1>1, <1>2, <1>10, LoadsStay
  <1>12. ListIsThere'
    BY <1>1, <1>2, <1>3, ListStays DEF ListIsThere
  <1> QED  BY <1>5, <1>7, <1>9, <1>11, <1>12 DEF IInv

-----------------------------------------------------------------------------
(* The invariant, and what follows from it.                                *)

LEMMA StepKeeps == IInv /\ [Next]_vars => IInv'
  <1> SUFFICES ASSUME IInv, [Next]_vars PROVE IInv'
    OBVIOUS
  <1>1. ASSUME NEW d \in Dirs, DiskChanges(d) \/ IntervalPasses(d) PROVE IInv'
    BY <1>1, AroundKeeps
  <1>2. ASSUME NEW r \in Requests, NEW z \in Zones, GetSubCollectors(r, z) PROVE IInv'
    BY <1>2, GetSubCollectorsKeeps
  <1>3. CASE Load
    BY <1>3, LoadReadsKeeps, LoadReturnsKeeps DEF Load
  <1>4. ASSUME NEW r \in Requests, RequestStep(r) PROVE IInv'
    BY <1>4, GetMetricsKeeps, AfterExecutionKeeps, FinishKeeps DEF RequestStep
  <1>5. CASE UNCHANGED vars
    <2>1. RestOK'
      BY <1>5, RestHolds DEF IInv, RestOK, vars
    <2>2. LoadsMatch'
      BY <1>5 DEF IInv, LoadsMatch, vars
    <2>3. ListIsThere'
      BY <1>5 DEF IInv, ListIsThere, Dir, vars
    <2>4. answer' \in Answer \cup {NoAnswer}
      BY <1>5 DEF IInv, TypeOK, vars
    <2> QED  BY <1>5, <2>1, <2>2, <2>3, <2>4, RestKeeps DEF vars
  <1> QED  BY <1>1, <1>2, <1>3, <1>4, <1>5 DEF Next

LEMMA Invariant == Spec => []IInv
  BY InitHolds, StepKeeps, PTL DEF Spec

\* Types of PluginCollector's variables, for any zones, listings and requests;
\* with them, that no more than pluginMaxConcurrent plugins run at a time.
THEOREM TypeCorrect == Spec => []TypeOK
  <1>1. IInv => TypeOK
    BY DEF IInv
  <1> QED  BY <1>1, Invariant, PTL

\* However runs end, and whenever loads come back, the counter is the number of
\* children there are.
THEOREM EveryRunIsCounted == Spec => []EveryRunCounted
  <1>1. IInv => EveryRunCounted
    BY DEF IInv, RunsCounted
  <1> QED  BY <1>1, Invariant, PTL

\* A call that looks at the list finds one, whatever was loading meanwhile.
THEOREM ListStaysThere == Spec => []ListIsThere
  <1>1. IInv => ListIsThere
    BY DEF IInv
  <1> QED  BY <1>1, Invariant, PTL
=============================================================================
