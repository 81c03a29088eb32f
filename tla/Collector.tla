----------------------------- MODULE Collector -----------------------------
(***************************************************************************)
(* lib/instrumenter/collector.js with the endpoint that calls it and the   *)
(* App that owns it: requests for the metrics of a zone, each running the  *)
(* collectors of that zone one after another through a shared cache, while *)
(* the collectors are reloaded from disk, the zones come and go and        *)
(* collectors fail.                                                        *)
(*                                                                         *)
(* Node runs one callback at a time: an action is what the code does       *)
(* between two returns to the event loop.  The cache is used through what  *)
(* TtlStore says of it, an entry being there until its TTL has passed; how *)
(* long that takes next to a collection is left open (CacheExpires).       *)
(*                                                                         *)
(* A definition marked "slip" is no part of the specification: it is the   *)
(* definition after it with a plausible programming mistake, and shows     *)
(* that a property would notice the mistake (PROJECT.json, "mutants").     *)
(***************************************************************************)
EXTENDS Integers, Sequences, FiniteSets, Functions

CONSTANTS
    VMs,          \* zones other than the global one
    GZ,           \* the global zone, asked for as 'gz'
    Collectors,   \* names of collectors that may be on disk
    Dir,          \* Dir[c]: the directory of collector c, which is its type
    HasSubs,      \* collectors with a getSubCollectors method (plugin.js)
    Subs,         \* names its subCollectors may have
    NoSub,        \* in place of a subCollector for the other collectors
    EmptyOK,      \* collectors that set EMPTY_OK
    CoreZoneOnly, \* collectors that set coreZoneOnly
    Cached,       \* collectors whose cacheTTL is above 0
    PromText,     \* collectors that pass on a text, which may hold options
    Requests,     \* the connections requests come in on
    MAX_FAILS,
    MaxInstance,  \* bound on how often a zone starts
    MaxReloads,   \* bound on the reloads of a process after its first load
    Upgrades      \* whether files are added or removed while the agent runs

ASSUME CollectorAssumption ==
    /\ GZ \notin VMs
    /\ Dir \in [Collectors -> {"common", "gz", "vm"}]
    /\ NoSub \notin Subs
    /\ HasSubs \subseteq Collectors
    /\ EmptyOK \subseteq Collectors
    /\ CoreZoneOnly \subseteq Collectors
    /\ Cached \subseteq Collectors
    /\ PromText \subseteq Collectors
    /\ IsFiniteSet(Requests) /\ IsFiniteSet(Subs)
    /\ MAX_FAILS \in Nat \ {0}
    /\ MaxInstance \in Nat \ {0}
    /\ MaxReloads \in Nat
    /\ Upgrades \in BOOLEAN

VARIABLES
    files,       \* the collectors' files on disk
    zones,       \* the kernel's zones: instanceId and whether it is running
    server,      \* the App and its process
    running,     \* self.running
    reload,      \* reloadCollectors and its timer
    collectors,  \* self.collectors
    failures,    \* self.collectorFailures, 0 where the name is not in it
    cache,       \* self.cache: a function from the keys with a live entry
    req          \* for each connection, the request being handled on it

vars == <<files, zones, server, running, reload, collectors, failures, cache, req>>

Zones == VMs \cup {GZ}

COLLECTOR_DIRS == <<"common", "gz", "vm">>

SubOrNone == Subs \cup {NoSub}

\* What a collection yields: the instance of the zone it was read from, and
\* whether it came to an empty string.
Datum == [zone : Zones, instance : 0..MaxInstance, kind : {"metrics", "empty"}]

NoDatum == [zone |-> GZ, instance |-> 0, kind |-> "empty"]

KeyWithoutZone(c, sub, z) == <<c, sub, GZ>>                           \* slip

\* genCacheKey: type/name, the subCollector if there is one, the zonename.  A
\* name is only ever used under one type.
genCacheKey(c, sub, z) == <<c, sub, z>>

CacheKeys == Collectors \X SubOrNone \X Zones

Result == [collector : Collectors, sub : SubOrNone, datum : Datum,
           from : {"collected", "cached", "failed", "ignored"}]

Call == [sub : SubOrNone, instance : 0..MaxInstance]

\* named records what cachedMetricGet was asked for, the inputs of
\* forEachParallel, whatever has become of them; no step depends on it.
NoRequest ==
    [pc |-> "idle", zone |-> GZ, core |-> FALSE, instance |-> 0, objs |-> {},
     todo |-> {}, current |-> {}, calls |-> {}, missing |-> FALSE,
     named |-> {}, results |-> {}, reply |-> "none"]

Request ==
    [pc : {"idle", "info", "filter", "run", "subs", "confirm", "replied"},
     zone : Zones, core : BOOLEAN, instance : 0..MaxInstance,
     objs : SUBSET Collectors, todo : SUBSET Collectors,
     current : SUBSET Collectors, calls : SUBSET Call, missing : BOOLEAN,
     named : SUBSET (Collectors \X SubOrNone),
     results : SUBSET Result, reply : {"none", "ok", "notFound", "error"}]

Empty == [k \in {} |-> NoDatum]

Init ==
    /\ files \in IF Upgrades THEN SUBSET Collectors ELSE {Collectors}
    /\ zones = [z \in Zones |-> IF z = GZ THEN [instance |-> 0, up |-> TRUE]
                                          ELSE [instance |-> 1, up |-> TRUE]]
    /\ server = "starting"
    /\ running = FALSE
    /\ reload = [pc |-> "loading", dir |-> 1, found |-> {}, left |-> MaxReloads]
    /\ collectors = {}
    /\ failures = [c \in Collectors |-> 0]
    /\ cache = Empty
    /\ req = [r \in Requests |-> NoRequest]

Alive == server \in {"starting", "listening", "closed"}

\* An exception that nothing catches: the process aborts.
Abort ==
    /\ server' = "aborted"
    /\ UNCHANGED <<files, zones, running, reload, collectors, failures, cache, req>>

-----------------------------------------------------------------------------
(* Around the agent.                                                       *)

\* An upgrade of the package adds or removes a collector.
FileChanges ==
    /\ Upgrades
    /\ \E c \in Collectors :
         files' = IF c \in files THEN files \ {c} ELSE files \cup {c}
    /\ UNCHANGED <<zones, server, running, reload, collectors, failures, cache, req>>

ZoneStops(z) ==
    /\ z # GZ
    /\ zones[z].up
    /\ zones' = [zones EXCEPT ![z].up = FALSE]
    /\ UNCHANGED <<files, server, running, reload, collectors, failures, cache, req>>

\* Each start of a zone gives it a new instanceId.
ZoneStarts(z) ==
    /\ ~zones[z].up
    /\ zones[z].instance < MaxInstance
    /\ zones' = [zones EXCEPT ![z] = [instance |-> @.instance + 1, up |-> TRUE]]
    /\ UNCHANGED <<files, server, running, reload, collectors, failures, cache, req>>

CacheExpires(k) ==
    /\ k \in DOMAIN cache
    /\ cache' = Restrict(cache, DOMAIN cache \ {k})
    /\ UNCHANGED <<files, zones, server, running, reload, collectors, failures, req>>

-----------------------------------------------------------------------------
(* Loading the collectors.                                                 *)

\* The timer of the last reload fires.
ReloadStarts ==
    /\ Alive
    /\ reload.pc = "timer"
    /\ reload.left > 0
    /\ reload' = [pc |-> "loading", dir |-> 1, found |-> {}, left |-> reload.left - 1]
    /\ UNCHANGED <<files, zones, server, running, collectors, failures, cache, req>>

\* loadCollectors: the modules found in a directory.
LoadCollectors(dir) == {c \in files : Dir[c] = dir}

\* registerCollectors for the next directory.
RegisterCollectors ==
    /\ Alive
    /\ reload.pc = "loading"
    /\ reload.dir <= Len(COLLECTOR_DIRS)
    /\ reload' = [reload EXCEPT
          !.dir   = @ + 1,
          !.found = @ \cup LoadCollectors(COLLECTOR_DIRS[reload.dir])]
    /\ UNCHANGED <<files, zones, server, running, collectors, failures, cache, req>>

\* afterRegistering; the timer is set again whatever the outcome, and the
\* callback of the first load, which makes the App listen, is not told of it.
AfterRegistering(err) ==
    /\ Alive
    /\ reload.pc = "loading"
    /\ err \/ reload.dir > Len(COLLECTOR_DIRS)
    /\ running' = (running \/ ~err)
    /\ collectors' = IF err THEN collectors ELSE reload.found
    /\ reload' = [reload EXCEPT !.pc = "timer", !.dir = 1, !.found = {}]
    /\ server' = IF server = "starting" THEN "listening" ELSE server
    /\ UNCHANGED <<files, zones, failures, cache, req>>

\* stop() clears the timer, which does nothing while a reload is under way.
Stop ==
    /\ running' = FALSE
    /\ reload' = IF reload.pc = "timer" THEN [reload EXCEPT !.pc = "off"] ELSE reload

\* App.close: the server's connections are done, then the collector stops.
Close ==
    /\ server = "listening"
    /\ \A r \in Requests : req[r].pc = "idle"
    /\ server' = "closed"
    /\ Stop
    /\ UNCHANGED <<files, zones, collectors, failures, cache, req>>

\* SMF starts the agent again; nothing of the old process is left.
Restart ==
    /\ server \in {"aborted", "closed"}
    /\ server' = "starting"
    /\ running' = FALSE
    /\ reload' = [pc |-> "loading", dir |-> 1, found |-> {}, left |-> MaxReloads]
    /\ collectors' = {}
    /\ failures' = [c \in Collectors |-> 0]
    /\ cache' = Empty
    /\ req' = [r \in Requests |-> NoRequest]
    /\ UNCHANGED <<files, zones>>

-----------------------------------------------------------------------------
(* One request: getMetrics and what it calls.                              *)

Reply(r, what) == req' = [req EXCEPT ![r].pc = "replied", ![r].reply = what]

\* Collectors of the types that apply to the zone (getCollectors).
Applicable(z) ==
    {c \in collectors : Dir[c] \in {"common", IF z = GZ THEN "gz" ELSE "vm"}}

\* What getCoreZoneStatus may find out, from a header or from the metadata.
CoreZoneStatus(z) == IF z = GZ THEN {FALSE} ELSE BOOLEAN

GetMetrics(r, z, core) ==
    /\ server = "listening"
    /\ req[r].pc = "idle"
    /\ req' = [req EXCEPT ![r] =
                 IF running
                 THEN [NoRequest EXCEPT !.pc = "info", !.zone = z, !.core = core,
                                        !.objs = Applicable(z)]
                 ELSE [NoRequest EXCEPT !.pc = "replied", !.zone = z,
                                        !.core = core, !.reply = "error"]]
    /\ UNCHANGED <<files, zones, server, running, reload, collectors, failures, cache>>

\* The client has its answer, and the connection can take another request.
Done(r) ==
    /\ Alive
    /\ req[r].pc = "replied"
    /\ req' = [req EXCEPT ![r] = NoRequest]
    /\ UNCHANGED <<files, zones, server, running, reload, collectors, failures, cache>>

\* A step of request r that leaves everything else as it is.
OnlyRequest ==
    UNCHANGED <<files, zones, server, running, reload, collectors, failures, cache>>

GetZoneInfo(r) ==
    /\ Alive
    /\ req[r].pc = "info"
    /\ LET z == zones[req[r].zone]
       IN  IF z.up
           THEN req' = [req EXCEPT ![r].pc = "filter", ![r].instance = z.instance]
           ELSE Reply(r, "notFound")
    /\ OnlyRequest

Chosen(r) == {c \in req[r].objs : c \in CoreZoneOnly => req[r].core}

\* Looks each collector up again in the object a reload may have replaced.
FilterCollectors(r) ==
    /\ Alive
    /\ req[r].pc = "filter"
    /\ \/ /\ ~(req[r].objs \subseteq collectors)
          /\ Abort
       \/ /\ req[r].objs \subseteq collectors
          /\ req' = [req EXCEPT ![r].pc = "run", ![r].objs = Chosen(r),
                                 ![r].todo = Chosen(r)]
          /\ OnlyRequest

NeverIgnored(c) == FALSE                                             \* slip
IgnoredOneLate(c) == failures[c] > MAX_FAILS                         \* slip
Ignored(c) == failures[c] >= MAX_FAILS

\* cachedMetricGet, up to the call of the collector, for the given
\* subCollectors of c at once.  A collector that has failed too often is
\* ignored even if the cache has an answer.
CachedMetricGet(r, c, subs) ==
    LET z       == req[r].zone
        ignored == Ignored(c)
        hit(s)  == genCacheKey(c, s, z) \in DOMAIN cache
        result(s) ==
          IF ignored
          THEN [collector |-> c, sub |-> s, from |-> "ignored", datum |-> NoDatum]
          ELSE [collector |-> c, sub |-> s, from |-> "cached",
                datum |-> cache[genCacheKey(c, s, z)]]
        answered == {s \in subs : ignored \/ hit(s)}
    IN  req' = [req EXCEPT
          ![r].pc      = "run",
          ![r].current = {c},
          ![r].todo    = @ \ {c},
          ![r].named   = @ \cup ({c} \X subs),
          ![r].results = @ \cup {result(s) : s \in answered},
          ![r].calls   = {[sub |-> s, instance |-> zones[z].instance] :
                            s \in subs \ answered}]

\* runCollectors goes on to the next collector when the last is done.
RunCollector(r, c) ==
    /\ Alive
    /\ req[r].pc = "run"
    /\ req[r].calls = {}
    /\ ~req[r].missing
    /\ c \in req[r].todo
    /\ \/ /\ c \notin collectors
          /\ Abort
       \/ /\ c \in collectors
          /\ IF c \in HasSubs
             THEN req' = [req EXCEPT ![r].pc = "subs", ![r].current = {c}]
             ELSE CachedMetricGet(r, c, {NoSub})
          /\ OnlyRequest

\* getSubCollectors answers with the subCollectors there are at the moment, or
\* with an error, which runCollectors asserts it does not.
GotSubCollectors(r) ==
    /\ Alive
    /\ req[r].pc = "subs"
    /\ \/ /\ \E c \in req[r].current, subs \in SUBSET Subs : CachedMetricGet(r, c, subs)
          /\ OnlyRequest
       \/ Abort

FailuresDecay(c, outcome) ==                                         \* slip
    IF outcome = "error" THEN failures[c] + 1 ELSE failures[c] - 1
FailuresAfter(c, outcome) ==
    CASE outcome = "error" -> failures[c] + 1
      [] outcome \in {"metrics", "empty"} -> 0
      [] outcome = "notAvailable" -> failures[c]

\* Whether a result is stored: cacheTTL says so, unless the metrics bring a ttl
\* option along, as those of a plugin or of the metric ports may.
Stores(c, outcome) ==
    IF c \in HasSubs \/ (c \in PromText /\ outcome \in {"metrics", "empty"})
    THEN BOOLEAN ELSE {c \in Cached}

\* The cache after an insert.
Inserted(key, datum) ==
    [k \in DOMAIN cache \cup {key} |-> IF k = key THEN datum ELSE cache[k]]

SubFailureDropped(c, sub, datum, outcome) ==                         \* slip
    IF outcome = "error" /\ c \in HasSubs
    THEN {}
    ELSE {[collector |-> c, sub |-> sub, datum |-> datum,
           from |-> IF outcome = "error" THEN "failed" ELSE "collected"]}
\* What is passed on of a collection: a failure too has its result, which says
\* that there are no data.
Collected(c, sub, datum, outcome) ==
    {[collector |-> c, sub |-> sub, datum |-> datum,
      from |-> IF outcome = "error" THEN "failed" ELSE "collected"]}

\* _gotMetrics: a collector calls back.  The zone was read at some moment of
\* the call, here its start or its end.
GotMetrics(r, c, call, instance, outcome, store) ==
    LET z     == req[r].zone
        key   == genCacheKey(c, call.sub, z)
        datum == [zone |-> z, instance |-> instance,
                  kind |-> IF outcome = "metrics" THEN "metrics" ELSE "empty"]
        missing == outcome \in {"empty", "notAvailable"} /\ c \notin EmptyOK
    IN  /\ Alive
        /\ failures' = [failures EXCEPT ![c] = FailuresAfter(c, outcome)]
        /\ IF missing
           THEN /\ req' = [req EXCEPT ![r].calls = @ \ {call}, ![r].missing = TRUE]
                /\ UNCHANGED cache
           ELSE /\ req' = [req EXCEPT ![r].calls = @ \ {call},
                                      ![r].results =
                                        @ \cup Collected(c, call.sub, datum, outcome)]
                /\ cache' = IF store THEN Inserted(key, datum) ELSE cache
        /\ UNCHANGED <<files, zones, server, running, reload, collectors>>

Outcomes == {"metrics", "empty", "notAvailable", "error"}

CollectorCallsBack(r) ==
    \E c \in req[r].current, call \in req[r].calls, outcome \in Outcomes :
      \E instance \in {call.instance, zones[req[r].zone].instance},
         store \in Stores(c, outcome) :
        GotMetrics(r, c, call, instance, outcome, store)

\* A ttl option that is no integer fails an assertion of cache.insert.  Only a
\* plugin's can be one: promToMetrics accepts integers only.
OptionTTLRefused(r) ==
    /\ Alive
    /\ req[r].current \subseteq HasSubs
    /\ req[r].calls # {}
    /\ Abort

NoCallback(r) == FALSE                                               \* slip

\* A collector that came back empty-handed ends the request.
CollectionFails(r) ==
    /\ Alive
    /\ req[r].pc = "run"
    /\ req[r].calls = {}
    /\ req[r].missing
    /\ Reply(r, "notFound")
    /\ OnlyRequest

NotWaitingForLast(r) ==                                              \* slip
    /\ Alive
    /\ req[r].pc = "run"
    /\ ~req[r].missing
    /\ req[r].todo = {}
    /\ req' = [req EXCEPT ![r].pc = "confirm"]
    /\ OnlyRequest
AfterCollection(r) ==
    /\ Alive
    /\ req[r].pc = "run"
    /\ req[r].calls = {}
    /\ ~req[r].missing
    /\ req[r].todo = {}
    /\ req' = [req EXCEPT ![r].pc = "confirm"]
    /\ OnlyRequest

StillUp(r) == zones[req[r].zone].up                                   \* slip
SameInstance(r) ==
    zones[req[r].zone] = [instance |-> req[r].instance, up |-> TRUE]

StartsOver(r) ==                                                     \* slip
    /\ Alive
    /\ req[r].pc = "confirm"
    /\ IF SameInstance(r)
       THEN Reply(r, "ok")
       ELSE req' = [req EXCEPT ![r] = [NoRequest EXCEPT
              !.pc = "info", !.zone = req[r].zone, !.core = req[r].core,
              !.objs = Applicable(req[r].zone)]]
    /\ OnlyRequest
ConfirmSanity(r) ==
    /\ Alive
    /\ req[r].pc = "confirm"
    /\ Reply(r, IF SameInstance(r) THEN "ok" ELSE "notFound")
    /\ OnlyRequest

RequestStep(r) ==
    \/ GetZoneInfo(r)
    \/ FilterCollectors(r)
    \/ \E c \in Collectors : RunCollector(r, c)
    \/ GotSubCollectors(r)
    \/ CollectorCallsBack(r)
    \/ OptionTTLRefused(r)
    \/ CollectionFails(r)
    \/ AfterCollection(r)
    \/ ConfirmSanity(r)
    \/ Done(r)

ReloadStep ==
    \/ ReloadStarts
    \/ RegisterCollectors
    \/ \E err \in BOOLEAN : AfterRegistering(err)

Next ==
    \/ FileChanges
    \/ \E z \in Zones : ZoneStops(z) \/ ZoneStarts(z)
    \/ \E k \in CacheKeys : CacheExpires(k)
    \/ ReloadStep
    \/ Close
    \/ Restart
    \/ \E r \in Requests, z \in Zones : \E core \in CoreZoneStatus(z) :
         GetMetrics(r, z, core)
    \/ \E r \in Requests : RequestStep(r)

Spec == Init /\ [][Next]_vars

\* The event loop runs what is due, and SMF starts an aborted process again.
\* That every collector calls back is an assumption about what it waits for:
\* plugins and vminfod are given up after a timeout, a kstat read returns at
\* once, but ntpq, zfs, vmadm and the metric ports are waited for.
FairSpec ==
    /\ Spec
    /\ \A r \in Requests : WF_vars(RequestStep(r))
    /\ WF_vars(ReloadStep)
    /\ WF_vars(Restart /\ server = "aborted")

-----------------------------------------------------------------------------
(* Properties                                                              *)

\* Types of the variables.
TypeOK ==
    /\ files \subseteq Collectors
    /\ zones \in [Zones -> [instance : 0..MaxInstance, up : BOOLEAN]]
    /\ server \in {"starting", "listening", "closed", "aborted"}
    /\ running \in BOOLEAN
    /\ reload \in [pc : {"off", "timer", "loading"}, dir : 1..4,
                   found : SUBSET Collectors, left : 0..MaxReloads]
    /\ collectors \subseteq Collectors
    /\ failures \in [Collectors -> Nat]
    /\ DOMAIN cache \subseteq CacheKeys
    /\ cache \in [DOMAIN cache -> Datum]
    /\ req \in [Requests -> Request]

Replied(r) == req[r].pc = "replied" /\ req[r].reply = "ok"

HasData(result) == result.from \in {"collected", "cached"}

\* A reply holds data of the zone that was asked for and no other, whoever
\* filled the cache.
ZoneIsolation ==
    \A r \in Requests : \A result \in req[r].results :
      HasData(result) => result.datum.zone = req[r].zone

\* What a request collected itself and replies with was read from the instance
\* of the zone the reply is about, though the zone may have stopped or started
\* at any moment on the way: the purpose of _confirmSanity.
CollectedFromThisInstance ==
    \A r \in Requests : Replied(r) =>
      \A result \in req[r].results :
        result.from = "collected" => result.datum.instance = req[r].instance

\* A collector that fails does not take the reply with it: a reply comes when no
\* collector is left to be asked, has exactly one result for every collector
\* chosen for the request, or for each of the subCollectors it named, and none of
\* a collector or a subCollector that was not.
ReplyIsComplete ==
    \A r \in Requests : Replied(r) =>
      /\ req[r].todo = {}
      /\ \A c \in req[r].objs \ HasSubs : <<c, NoSub>> \in req[r].named
      /\ \A x \in req[r].named : \E result \in req[r].results :
           result.collector = x[1] /\ result.sub = x[2]
      /\ \A result \in req[r].results :
           /\ result.collector \in req[r].objs
           /\ result.collector \in CoreZoneOnly => req[r].core
           /\ <<result.collector, result.sub>> \in req[r].named
      /\ \A x, y \in req[r].results :
           x.collector = y.collector /\ x.sub = y.sub => x = y

\* Calls of collector c that have not come back.
InFlight(c) ==
    {x \in Requests \X Call : c \in req[x[1]].current /\ x[2] \in req[x[1]].calls}

\* However many requests fail together, a collector's count of failures stays
\* below MAX_FAILS plus the calls that can be under way at once.
FailuresBounded ==
    \A c \in Collectors :
      failures[c] + Cardinality(InFlight(c))
        < MAX_FAILS + Cardinality(Requests) *
            (IF c \in HasSubs THEN Cardinality(Subs) ELSE 1)

Disabled(c) == failures[c] >= MAX_FAILS /\ InFlight(c) = {}

\* Once a collector has reached MAX_FAILS and its last call has come back, it
\* is ignored for all zones until the process ends; no reload, no expiry and
\* no request brings it back.
DisabledForGood ==
    [][\A c \in Collectors : Disabled(c) => Disabled(c)' \/ Restart]_vars

\* What a request has before it: the parts of getMetrics, then the collectors to
\* come, then the subCollectors of this one, then its calls.  q is nearer its
\* answer than p if it has less of the first of these in which they differ.
PartsLeft == [idle |-> 5, info |-> 4, filter |-> 3, run |-> 2, subs |-> 2,
              confirm |-> 1, replied |-> 0]

Fewer(S, T) == S \subseteq T /\ S # T

Nearer(q, p) ==
    \/ PartsLeft[q.pc] < PartsLeft[p.pc]
    \/ /\ PartsLeft[q.pc] = PartsLeft[p.pc]
       /\ \/ Fewer(q.todo, p.todo)
          \/ q.todo = p.todo /\ p.pc = "run" /\ q.pc = "subs"
          \/ q.todo = p.todo /\ p.pc = q.pc /\ Fewer(q.calls, p.calls)

\* No reload, failure, expiry, change of the zone or other request sets a request
\* back: whatever happens leaves it as it is or brings it nearer its answer, of
\* which a request takes finitely many steps.  Nothing in getMetrics is retried.
NeverSetBack ==
    [][server = "listening" =>
         \A r \in Requests : req[r].pc \notin {"idle", "replied"} =>
           \/ req'[r] = req[r]
           \/ /\ Nearer(req'[r], req[r])
              /\ req'[r].zone = req[r].zone /\ req'[r].core = req[r].core]_vars

\* Whatever fails, stops or is reloaded, a request is answered or its process
\* has ended.
EveryRequestAnswered ==
    \A r \in Requests : req[r].pc # "idle" ~> (req[r].pc = "idle" \/ server = "aborted")

\* collector.js:209-211: collectors that are removed simply won't be copied;
\* a reload does not end the process.
NeverAborts == server # "aborted"
=============================================================================
