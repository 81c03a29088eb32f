-------------------------- MODULE PluginCollector --------------------------
(***************************************************************************)
(* lib/instrumenter/collectors-common/plugin.js with the loader, executor  *)
(* and parser it calls: the plugins of a directory are listed at most once *)
(* per interval by whichever call comes first, calls that come while the   *)
(* list is being read use the one before, and a plugin is a child process  *)
(* of which only so many may run.                                          *)
(*                                                                         *)
(* A request is what collector.js makes of it: it asks for the             *)
(* subCollectors of a zone, then for the metrics of those the cache has no *)
(* answer for, all in one run of the event loop, and asks for the TTL when *)
(* the metrics have come.                                                  *)
(*                                                                         *)
(* A definition marked "slip" is no part of the specification: it is the   *)
(* definition after it with a plausible programming mistake.               *)
(***************************************************************************)
EXTENDS Integers, Sequences, FiniteSets

CONSTANTS
    Zones, GZ,            \* GZ need not be one of Zones
    Listings,             \* what may be in a directory: sequences of plugins
    NoDir,                \* in place of a listing: ENOENT
    BadDir,               \* in place of a listing: any other error
    BadInfo,              \* a plugin.json with a ttl, timeout or vms of a wrong type
    Undefined,
    pluginTTL,            \* the TTL of a plugin that is not in the list
    pluginMaxConcurrent,
    Requests

Names == {p.name : p \in UNION {{l[i] : i \in DOMAIN l} : l \in Listings}}

TTLs == {pluginTTL} \cup {p.ttl : p \in UNION {{l[i] : i \in DOMAIN l} : l \in Listings}}

\* A plugin's vms are the zones it may run for; without a vms property, all.
Plugin == [name : Names, ttl : TTLs, vms : SUBSET Zones]

ASSUME PluginAssumption ==
    /\ \A l \in Listings : l \in Seq([name : Names, ttl : Nat, vms : SUBSET Zones])
    /\ {NoDir, BadDir, BadInfo, Undefined} \cap (Listings \cup {<<>>}) = {}
    /\ Cardinality({NoDir, BadDir, BadInfo, Undefined}) = 4
    /\ pluginTTL \in Nat
    /\ pluginMaxConcurrent \in Nat \ {0}
    /\ IsFiniteSet(Requests)

VARIABLES
    disk,            \* what is in each directory
    due,             \* whether the interval since lastReload has passed
    plugins,         \* self.plugins
    loads,           \* the calls of pluginDirLoader.load under way
    runningPlugins,
    req,
    answer           \* the answer of getMetrics and cacheTTL just given, if any

vars == <<disk, due, plugins, loads, runningPlugins, req, answer>>

whichPluginDir(z) == IF z = GZ THEN "gz" ELSE "vm"

Dirs == {whichPluginDir(z) : z \in Zones}

OnDisk == Listings \cup {NoDir, BadDir, BadInfo}

NoPlugin == [name |-> Undefined, ttl |-> pluginTTL, vms |-> Zones]

\* One getMetrics call, for the i-th of the request's subCollectors.
Run == [pc : {"todo", "cached", "loading", "executing", "done"}, name : Names,
        plugin : Plugin \cup {NoPlugin}]

Outcomes == {"metrics", "empty", "notAvailable", "error"}

Answer == [outcome : Outcomes, plugin : Plugin \cup {NoPlugin}, ttl : TTLs]

NoAnswer == [outcome |-> "none", plugin |-> NoPlugin, ttl |-> pluginTTL]

NoRequest == [pc |-> "idle", zone |-> Undefined, runs |-> <<>>]

Init ==
    /\ disk \in [Dirs -> OnDisk]
    /\ due = [d \in Dirs |-> TRUE]
    /\ plugins = [d \in Dirs |-> Undefined]
    /\ loads = {}
    /\ runningPlugins = 0
    /\ req = [r \in Requests |-> NoRequest]
    /\ answer = NoAnswer

\* A request is in the middle of one run of the event loop.
Busy == \E r \in Requests : req[r].pc = "starting"

Dir(r) == whichPluginDir(req[r].zone)

-----------------------------------------------------------------------------
(* Around the collector.                                                   *)

DiskChanges(d) ==
    /\ disk' \in {[disk EXCEPT ![d] = l] : l \in OnDisk \ {disk[d]}}
    /\ answer' = NoAnswer
    /\ UNCHANGED <<due, plugins, loads, runningPlugins, req>>

IntervalPasses(d) ==
    /\ ~due[d]
    /\ due' = [due EXCEPT ![d] = TRUE]
    /\ answer' = NoAnswer
    /\ UNCHANGED <<disk, plugins, loads, runningPlugins, req>>

-----------------------------------------------------------------------------
(* loadPlugins.                                                            *)

NoPlaceholder(d) == plugins[d]                                       \* slip
Placeholder(d) == IF plugins[d] = Undefined THEN <<>> ELSE plugins[d]

\* The list is to be read again: until it has been, the old one stands.
StartLoad(r, i, d) ==
    /\ due' = [due EXCEPT ![d] = FALSE]
    /\ plugins' = [plugins EXCEPT ![d] = Placeholder(d)]
    /\ loads' = loads \cup {[req |-> r, run |-> i, dir |-> d, found |-> Undefined]}

\* The loader looks at the directory and its plugin.json; taken as one look.
LoadReads(l) ==
    /\ ~Busy
    /\ l.found = Undefined
    /\ loads' = (loads \ {l}) \cup {[l EXCEPT !.found = disk[l.dir]]}
    /\ answer' = NoAnswer
    /\ UNCHANGED <<disk, due, plugins, runningPlugins, req>>

FirstOnly(d, found) ==                                               \* slip
    IF plugins[d] \notin {Undefined, <<>>} THEN plugins[d]
    ELSE IF found \in {NoDir, BadDir} THEN <<>> ELSE found
ListAfter(d, found) == IF found \in {NoDir, BadDir} THEN <<>> ELSE found

-----------------------------------------------------------------------------
(* getMetrics and cacheTTL.                                                *)

\* The plugins of that name in the list; the first is the one that counts.
Matches(list, name) == {i \in DOMAIN list : list[i].name = name}

FirstMatch(list, name) ==
    list[CHOOSE i \in Matches(list, name) : \A j \in Matches(list, name) : i <= j]

\* Uses self.plugins as it is now, whatever list the call itself has used.
cacheTTL(list, name) ==
    IF Matches(list, name) = {} THEN pluginTTL ELSE FirstMatch(list, name).ttl

OneTooMany == runningPlugins > pluginMaxConcurrent                   \* slip
AtLimit == runningPlugins >= pluginMaxConcurrent

\* What _onLoadPlugins of getMetrics makes of the answer of loadPlugins.
Verdict(name, z, found) ==
    CASE found = NoDir                                     -> "empty"
      [] found = BadDir                                    -> "error"
      [] found \in Seq(Plugin) /\ Matches(found, name) = {} -> "error"
      [] OTHER -> IF z \notin FirstMatch(found, name).vms THEN "empty"
                  ELSE IF AtLimit THEN "notAvailable" ELSE "run"

\* The request after run i has gone on to pc: it starts the next one if any
\* is to be started.
AfterStarting(r, i, pc, plugin) ==
    [req[r] EXCEPT !.runs[i] = [@ EXCEPT !.pc = pc, !.plugin = plugin],
                   !.pc = IF \E j \in DOMAIN req[r].runs :
                               j # i /\ req[r].runs[j].pc = "todo"
                          THEN "starting" ELSE "running"]

\* Run i of request r goes on with what loadPlugins has answered, found, which
\* has left list in self.plugins.
Proceed(r, i, found, list) ==
    LET name    == req[r].runs[i].name
        verdict == Verdict(name, req[r].zone, found)
    IN  \/ /\ verdict = "run"
           /\ req' = [req EXCEPT ![r] =
                         AfterStarting(r, i, "executing", FirstMatch(found, name))]
           /\ runningPlugins' = runningPlugins + 1
           /\ answer' = NoAnswer
        \/ /\ verdict # "run"
           /\ req' = [req EXCEPT ![r] = AfterStarting(r, i, "done", NoPlugin)]
           /\ answer' = [outcome |-> verdict, plugin |-> NoPlugin,
                         ttl |-> cacheTTL(list, name)]
           /\ UNCHANGED runningPlugins

\* getMetrics for the next of the subCollectors.
GetMetrics(r, i) ==
    /\ req[r].pc = "starting"
    /\ req[r].runs[i].pc = "todo"
    /\ \A j \in 1..(i - 1) : req[r].runs[j].pc # "todo"
    /\ IF due[Dir(r)]
       THEN /\ StartLoad(r, i, Dir(r))
            /\ req' = [req EXCEPT ![r] = AfterStarting(r, i, "loading", NoPlugin)]
            /\ answer' = NoAnswer
            /\ UNCHANGED runningPlugins
       ELSE /\ Proceed(r, i, plugins[Dir(r)], plugins[Dir(r)])
            /\ UNCHANGED <<due, plugins, loads>>
    /\ UNCHANGED disk

ReleasedOnSuccess(outcome) ==                                        \* slip
    IF outcome = "notAvailable" THEN runningPlugins ELSE runningPlugins - 1
Released(outcome) == runningPlugins - 1

\* The child exits with some output; or it exits with an error, is killed for
\* its timeout or the length of its output, or cannot be run.
Executed == {"output", "failed"}

\* All lines are parsed, or one cannot be; there may be no lines at all.
Parsed(execution) ==
    IF execution = "failed" THEN {"notAvailable"}
    ELSE {"metrics", "empty", "notAvailable"}

AfterExecution(r, i) ==
    /\ ~Busy
    /\ req[r].runs[i].pc = "executing"
    /\ \E execution \in Executed : \E outcome \in Parsed(execution) :
         /\ req' = [req EXCEPT ![r].runs[i] = [@ EXCEPT !.pc = "done", !.plugin = NoPlugin]]
         /\ answer' = [outcome |-> outcome, plugin |-> req[r].runs[i].plugin,
                       ttl |-> cacheTTL(plugins[Dir(r)], req[r].runs[i].name)]
         /\ runningPlugins' = Released(outcome)
    /\ UNCHANGED <<disk, due, plugins, loads>>

-----------------------------------------------------------------------------
(* getSubCollectors and the request around it.                             *)

\* The subCollectors are named; the cache has an answer for some of them.
Named(r, z, list) ==
    \E cached \in SUBSET DOMAIN list :
      req' = [req EXCEPT ![r] =
        [pc   |-> IF cached = DOMAIN list THEN "running" ELSE "starting",
         zone |-> z,
         runs |-> [i \in DOMAIN list |->
                     [pc     |-> IF i \in cached THEN "cached" ELSE "todo",
                      name   |-> list[i].name,
                      plugin |-> NoPlugin]]]]

GetSubCollectors(r, z) ==
    /\ ~Busy
    /\ req[r].pc = "idle"
    /\ LET d == whichPluginDir(z)
       IN  IF due[d]
           THEN /\ StartLoad(r, 0, d)
                /\ req' = [req EXCEPT ![r] = [NoRequest EXCEPT !.pc = "asking", !.zone = z]]
           ELSE /\ Named(r, z, plugins[d])
                /\ UNCHANGED <<due, plugins, loads>>
    /\ answer' = NoAnswer
    /\ UNCHANGED <<disk, runningPlugins>>

\* The process ends and is started again.
Crash ==
    /\ due' = [d \in Dirs |-> TRUE]
    /\ plugins' = [d \in Dirs |-> Undefined]
    /\ loads' = {}
    /\ runningPlugins' = 0
    /\ req' = [r \in Requests |-> NoRequest]
    /\ answer' = NoAnswer

\* The loader's assertions, and the one of runCollectors that getSubCollectors
\* does not fail.
AssertionFails(l) == l.found = BadInfo \/ (l.found = BadDir /\ l.run = 0)

\* _onload, and with it the callback of the call that has started the load.
LoadReturns(l) ==
    LET list == ListAfter(l.dir, l.found)
    IN  /\ ~Busy
        /\ l.found # Undefined
        /\ IF AssertionFails(l)
           THEN Crash
           ELSE /\ plugins' = [plugins EXCEPT ![l.dir] = list]
                /\ loads' = loads \ {l}
                /\ IF l.run = 0
                   THEN /\ Named(l.req, req[l.req].zone, list)
                        /\ answer' = NoAnswer
                        /\ UNCHANGED runningPlugins
                   ELSE Proceed(l.req, l.run, l.found, list)
                /\ UNCHANGED due
        /\ UNCHANGED disk

\* All the subCollectors have answered.
Finish(r) ==
    /\ req[r].pc = "running"
    /\ \A i \in DOMAIN req[r].runs : req[r].runs[i].pc \in {"cached", "done"}
    /\ req' = [req EXCEPT ![r] = NoRequest]
    /\ answer' = NoAnswer
    /\ UNCHANGED <<disk, due, plugins, loads, runningPlugins>>

Load == \E l \in loads : LoadReads(l) \/ LoadReturns(l)

RequestStep(r) ==
    \/ \E i \in DOMAIN req[r].runs : GetMetrics(r, i) \/ AfterExecution(r, i)
    \/ Finish(r)

Next ==
    \/ \E d \in Dirs : DiskChanges(d) \/ IntervalPasses(d)
    \/ \E r \in Requests, z \in Zones : GetSubCollectors(r, z)
    \/ Load
    \/ \E r \in Requests : RequestStep(r)

Spec == Init /\ [][Next]_vars

\* Files are read in the end, a plugin is killed at its timeout, time passes.
FairSpec ==
    /\ Spec
    /\ WF_vars(Load)
    /\ \A r \in Requests : WF_vars(RequestStep(r))
    /\ \A d \in Dirs : WF_vars(IntervalPasses(d))

-----------------------------------------------------------------------------
(* Properties                                                              *)

\* Types of the variables, with the limit on running plugins.
TypeOK ==
    /\ disk \in [Dirs -> OnDisk]
    /\ due \in [Dirs -> BOOLEAN]
    /\ plugins \in [Dirs -> Listings \cup {<<>>, Undefined}]
    /\ loads \subseteq [req : Requests, run : Nat, dir : Dirs, found : OnDisk \cup {Undefined}]
    /\ runningPlugins \in 0..pluginMaxConcurrent
    /\ \A r \in Requests :
         /\ req[r].pc \in {"idle", "asking", "starting", "running"}
         /\ req[r].zone \in Zones \cup {Undefined}
         /\ req[r].runs \in Seq(Run)
    /\ answer \in Answer \cup {NoAnswer}

Executing ==
    UNION {{<<r, i>> : i \in {j \in DOMAIN req[r].runs :
                                req[r].runs[j].pc = "executing"}} : r \in Requests}

\* runningPlugins is the number of children, on every path a run can end: a
\* slot lost to a timeout or to unparsable output would never come back, and
\* after pluginMaxConcurrent of them no plugin would run again.
EveryRunCounted == runningPlugins = Cardinality(Executing)

\* The assertions of loadPlugins and cacheTTL on self.plugins[dir] never fail:
\* there is a list whenever a call may look at it, the first load included.
ListIsThere ==
    /\ \A d \in Dirs : ~due[d] => plugins[d] # Undefined
    /\ \A r \in Requests : req[r].runs # <<>> => plugins[Dir(r)] # Undefined

Asked(d) == \E r \in Requests : req[r].pc # "idle" /\ Dir(r) = d

\* A change in a directory reaches the list, whatever loads were under way
\* when it was made and whatever they return late, as long as somebody asks.
ChangeReachesList ==
    \A d \in Dirs, l \in OnDisk \ {BadDir, BadInfo} :
      <>[](disk[d] = l) /\ []<>Asked(d) /\ []<>~Asked(d)
        => <>[](plugins[d] = IF l = NoDir THEN <<>> ELSE l)

\* plugin.js:303-305: the TTL is looked up immediately after getMetrics, so it
\* is the one of the plugin that has run.
TTLOfThePluginRun == answer.outcome = "metrics" => answer.ttl = answer.plugin.ttl
=============================================================================
