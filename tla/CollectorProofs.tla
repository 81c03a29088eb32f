-------------------------- MODULE CollectorProofs --------------------------
(***************************************************************************)
(* What holds of Collector for any zones, collectors and requests.         *)
(*                                                                         *)
(* ZoneIsolation and CollectedFromThisInstance are not inductive: what is  *)
(* in a reply came from the cache, or from a call that was made earlier.   *)
(* Sound says what a request in progress knows about these: its data and   *)
(* its calls lie between the instance the zone had when the request looked *)
(* it up and the one it has now.  If these are the same in the end,        *)
(* everything was read from that one.                                      *)
(*                                                                         *)
(* ReplyIsComplete rests on what a request still owes: Accounted says that *)
(* each collector that applies is to come or has been named, and what has  *)
(* been named is served or being asked, and CallsFit that a call under way *)
(* is one the request is waiting for.  So there are no more calls to a collector than requests times     *)
(* subCollectors, which is all that can pass its limit (FailuresBounded).  *)
(***************************************************************************)
EXTENDS Collector, FiniteSetTheorems, TLAPS

\* An entry of the cache is about the zone in its key.
CacheKeepsZones == \A k \in DOMAIN cache : cache[k].zone = k[3]

Sound(q, zs) ==
    /\ q.calls # {} => q.pc = "run"
    /\ q.pc = "info" => q.results = {}
    /\ q.instance <= zs[q.zone].instance
    /\ \A call \in q.calls :
         q.instance <= call.instance /\ call.instance <= zs[q.zone].instance
    /\ \A result \in q.results :
         /\ HasData(result) => result.datum.zone = q.zone
         /\ result.from = "collected" =>
              /\ q.instance <= result.datum.instance
              /\ result.datum.instance <= zs[q.zone].instance
              /\ q.pc = "replied" /\ q.reply = "ok"
                   => result.datum.instance = q.instance

RequestsSound == \A r \in Requests : Sound(req[r], zones)

IInv == TypeOK /\ CacheKeepsZones /\ RequestsSound

-----------------------------------------------------------------------------
(* Helpers.                                                                *)

USE CollectorAssumption

LEMMA InitialRequest == NoRequest \in Request
  BY DEF NoRequest, Request, Zones

\* A request that has not begun is sound, with any zone and core-zone status.
LEMMA NewRequestSound ==
    ASSUME TypeOK, NEW q \in Request, q.calls = {}, q.results = {}, q.instance = 0
    PROVE  Sound(q, zones)
  <1>1. q.zone \in Zones  BY DEF Request
  <1>2. zones[q.zone].instance \in Nat  BY <1>1 DEF TypeOK
  <1> QED  BY <1>2 DEF Sound

\* A step that changes one request only, into a sound one.
LEMMA RequestChanges ==
    ASSUME IInv, NEW r \in Requests, NEW q \in Request,
           req' = [req EXCEPT ![r] = q], Sound(q, zones),
           UNCHANGED <<files, zones, server, running, reload, collectors>>,
           failures' \in [Collectors -> Nat],
           DOMAIN cache' \subseteq CacheKeys, cache' \in [DOMAIN cache' -> Datum],
           CacheKeepsZones'
    PROVE  IInv'
  <1>1. req' \in [Requests -> Request]  BY DEF IInv, TypeOK
  <1>2. TypeOK'  BY <1>1 DEF IInv, TypeOK
  <1>3. ASSUME NEW s \in Requests PROVE Sound(req'[s], zones)
    BY DEF IInv, TypeOK, RequestsSound
  <1>4. RequestsSound'  BY <1>3 DEF RequestsSound
  <1> QED  BY <1>2, <1>4 DEF IInv

\* The same for a step that leaves the cache and the failures alone as well.
LEMMA OnlyRequestChanges ==
    ASSUME IInv, NEW r \in Requests, NEW q \in Request,
           req' = [req EXCEPT ![r] = q], Sound(q, zones), OnlyRequest
    PROVE  IInv'
  <1>1. /\ failures' \in [Collectors -> Nat]
        /\ DOMAIN cache' \subseteq CacheKeys
        /\ cache' \in [DOMAIN cache' -> Datum]
    BY DEF IInv, TypeOK, OnlyRequest
  <1>2. CacheKeepsZones'  BY DEF IInv, CacheKeepsZones, OnlyRequest
  <1> QED  BY <1>1, <1>2, RequestChanges DEF OnlyRequest

\* The process ends.
LEMMA AbortKeeps == IInv /\ Abort => IInv'
  BY DEF IInv, TypeOK, Abort, CacheKeepsZones, RequestsSound

\* A step that touches neither the requests nor the cache nor the zones.
LEMMA RestKeeps ==
    ASSUME IInv, TypeOK', UNCHANGED <<zones, cache, req>>
    PROVE  IInv'
  BY DEF IInv, CacheKeepsZones, RequestsSound

-----------------------------------------------------------------------------
(* The initial states, and the steps around the agent.                     *)

LEMMA InitHolds == Init => IInv
  <1> SUFFICES ASSUME Init PROVE IInv  OBVIOUS
  <1>1. DOMAIN cache = {}  BY DEF Init, Empty
  <1>2. reload \in [pc : {"off", "timer", "loading"}, dir : 1..4,
                    found : SUBSET Collectors, left : 0..MaxReloads]
    BY DEF Init
  <1>3. zones \in [Zones -> [instance : 0..MaxInstance, up : BOOLEAN]]
    BY DEF Init
  <1>4. files \subseteq Collectors  BY DEF Init
  <1>5. cache \in [DOMAIN cache -> Datum]  BY <1>1 DEF Init, Empty
  <1>6. req \in [Requests -> Request]  BY InitialRequest DEF Init
  <1>7. TypeOK  BY <1>1, <1>2, <1>3, <1>4, <1>5, <1>6 DEF Init, TypeOK
  <1>8. ASSUME NEW r \in Requests PROVE Sound(req[r], zones)
    BY <1>7, NewRequestSound, InitialRequest DEF Init, NoRequest
  <1> QED  BY <1>1, <1>7, <1>8 DEF IInv, CacheKeepsZones, RequestsSound

LEMMA FileChangesKeeps == IInv /\ FileChanges => IInv'
  <1> SUFFICES ASSUME IInv, FileChanges PROVE IInv'  OBVIOUS
  <1>1. files' \subseteq Collectors  BY DEF IInv, TypeOK, FileChanges
  <1>2. TypeOK'  BY <1>1 DEF IInv, TypeOK, FileChanges
  <1> QED  BY <1>2, RestKeeps DEF FileChanges

\* Zones only go forward, so what was no later than the present remains so.
LEMMA ZonesKeep ==
    ASSUME IInv, TypeOK', UNCHANGED <<cache, req>>,
           \A z \in Zones : zones[z].instance <= zones'[z].instance
    PROVE  IInv'
  <1>1. ASSUME NEW r \in Requests PROVE Sound(req[r], zones')
    <2> DEFINE q == req[r]
    <2>1. q \in Request  BY DEF IInv, TypeOK
    <2>2. Sound(q, zones)  BY DEF IInv, RequestsSound
    <2>3. q.zone \in Zones /\ q.instance \in Nat  BY <2>1 DEF Request
    <2>4. zones[q.zone].instance \in Nat /\ zones'[q.zone].instance \in Nat
      BY <2>3 DEF IInv, TypeOK
    <2>5. zones[q.zone].instance <= zones'[q.zone].instance  BY <2>3
    <2>6. ASSUME NEW call \in q.calls PROVE call.instance \in Nat
      BY <2>1 DEF Request, Call
    <2>7. ASSUME NEW result \in q.results PROVE result.datum.instance \in Nat
      BY <2>1 DEF Request, Result, Datum
    <2> HIDE DEF q
    <2>8. \A call \in q.calls : call.instance <= zones'[q.zone].instance
      BY <2>2, <2>4, <2>5, <2>6 DEF Sound
    <2>9. \A result \in q.results : result.from = "collected"
            => result.datum.instance <= zones'[q.zone].instance
      BY <2>2, <2>4, <2>5, <2>7 DEF Sound
    <2>10. q.instance <= zones'[q.zone].instance
      BY <2>2, <2>3, <2>4, <2>5 DEF Sound
    <2>11. Sound(q, zones')  BY <2>2, <2>8, <2>9, <2>10 DEF Sound
    <2> QED  BY <2>11 DEF q
  <1> QED  BY <1>1 DEF IInv, CacheKeepsZones, RequestsSound

LEMMA ZonesChange == 
    ASSUME IInv, NEW z \in Zones, ZoneStops(z) \/ ZoneStarts(z)
    PROVE  IInv'
  <1>1. zones[z].instance \in 0..MaxInstance  BY DEF IInv, TypeOK
  <1>2. CASE ZoneStops(z)
    <2>1. zones' \in [Zones -> [instance : 0..MaxInstance, up : BOOLEAN]]
      BY <1>2 DEF IInv, TypeOK, ZoneStops
    <2>2. TypeOK'  BY <1>2, <2>1 DEF IInv, TypeOK, ZoneStops
    <2>3. \A y \in Zones : zones[y].instance <= zones'[y].instance
      BY <1>2 DEF IInv, TypeOK, ZoneStops
    <2> QED  BY <1>2, <2>2, <2>3, ZonesKeep DEF ZoneStops
  <1>3. CASE ZoneStarts(z)
    <2>1. zones' \in [Zones -> [instance : 0..MaxInstance, up : BOOLEAN]]
      BY <1>1, <1>3 DEF IInv, TypeOK, ZoneStarts
    <2>2. TypeOK'  BY <1>3, <2>1 DEF IInv, TypeOK, ZoneStarts
    <2>3. \A y \in Zones : zones[y].instance <= zones'[y].instance
      BY <1>1, <1>3 DEF IInv, TypeOK, ZoneStarts
    <2> QED  BY <1>3, <2>2, <2>3, ZonesKeep DEF ZoneStarts
  <1> QED  BY <1>2, <1>3

LEMMA CacheExpiresKeeps ==
    ASSUME IInv, NEW k \in CacheKeys, CacheExpires(k)
    PROVE  IInv'
  <1>1. DOMAIN cache' = DOMAIN cache \ {k}  BY DEF CacheExpires, Restrict
  <1>2. \A j \in DOMAIN cache' : cache'[j] = cache[j]
    BY DEF CacheExpires, Restrict
  <1>3. cache' \in [DOMAIN cache' -> Datum]
    BY <1>1 DEF IInv, TypeOK, CacheExpires, Restrict
  <1>4. TypeOK'  BY <1>1, <1>3 DEF IInv, TypeOK, CacheExpires
  <1>5. CacheKeepsZones'  BY <1>1, <1>2 DEF IInv, CacheKeepsZones
  <1>6. RequestsSound'  BY DEF IInv, RequestsSound, CacheExpires
  <1> QED  BY <1>4, <1>5, <1>6 DEF IInv

-----------------------------------------------------------------------------
(* Loading, closing and starting again.                                    *)

LEMMA ReloadKeeps ==
    ASSUME IInv, ReloadStep
    PROVE  IInv'
  <1>0. reload \in [pc : {"off", "timer", "loading"}, dir : 1..4,
                    found : SUBSET Collectors, left : 0..MaxReloads]
    BY DEF IInv, TypeOK
  <1>1. CASE ReloadStarts
    <2>1. reload' \in [pc : {"off", "timer", "loading"}, dir : 1..4,
                       found : SUBSET Collectors, left : 0..MaxReloads]
      BY <1>0, <1>1 DEF ReloadStarts
    <2>2. TypeOK'  BY <1>1, <2>1 DEF IInv, TypeOK, ReloadStarts
    <2> QED  BY <1>1, <2>2, RestKeeps DEF ReloadStarts
  <1>2. CASE RegisterCollectors
    <2>1. LoadCollectors(COLLECTOR_DIRS[reload.dir]) \subseteq Collectors
      BY DEF IInv, TypeOK, LoadCollectors
    <2>2. reload.dir + 1 \in 1..4  BY <1>0, <1>2 DEF RegisterCollectors, COLLECTOR_DIRS
    <2>3. reload' \in [pc : {"off", "timer", "loading"}, dir : 1..4,
                       found : SUBSET Collectors, left : 0..MaxReloads]
      BY <1>0, <1>2, <2>1, <2>2 DEF RegisterCollectors
    <2>4. TypeOK'  BY <1>2, <2>3 DEF IInv, TypeOK, RegisterCollectors
    <2> QED  BY <1>2, <2>4, RestKeeps DEF RegisterCollectors
  <1>3. ASSUME NEW err \in BOOLEAN, AfterRegistering(err) PROVE IInv'
    <2>0. reload' = [reload EXCEPT !.pc = "timer", !.dir = 1, !.found = {}]
      BY <1>3, Zenon DEF AfterRegistering
    <2>1. reload' \in [pc : {"off", "timer", "loading"}, dir : 1..4,
                       found : SUBSET Collectors, left : 0..MaxReloads]
      <3>1. reload.left \in 0..MaxReloads  BY <1>0
      <3>2. reload' = [pc |-> "timer", dir |-> 1, found |-> {}, left |-> reload.left]
        BY <1>0, <2>0
      <3> QED  BY <3>1, <3>2
    <2>2. /\ running' \in BOOLEAN
          /\ collectors' \in {collectors, reload.found}
          /\ server' \in {server, "listening"}
      BY <1>3, Zenon DEF AfterRegistering
    <2>3. UNCHANGED <<files, zones, failures, cache, req>>
      BY <1>3, Zenon DEF AfterRegistering
    <2>4. TypeOK'  BY <1>0, <2>1, <2>2, <2>3 DEF IInv, TypeOK
    <2> QED  BY <2>3, <2>4, RestKeeps
  <1> QED  BY <1>1, <1>2, <1>3 DEF ReloadStep

LEMMA CloseKeeps == IInv /\ Close => IInv'
  <1> SUFFICES ASSUME IInv, Close PROVE IInv'  OBVIOUS
  <1>1. reload' \in [pc : {"off", "timer", "loading"}, dir : 1..4,
                     found : SUBSET Collectors, left : 0..MaxReloads]
    BY DEF IInv, TypeOK, Close, Stop
  <1>2. TypeOK'  BY <1>1 DEF IInv, TypeOK, Close, Stop
  <1> QED  BY <1>2, RestKeeps DEF Close, Stop

LEMMA RestartKeeps == IInv /\ Restart => IInv'
  <1> SUFFICES ASSUME IInv, Restart PROVE IInv'  OBVIOUS
  <1>1. DOMAIN cache' = {}  BY DEF Restart, Empty
  <1>2. reload' \in [pc : {"off", "timer", "loading"}, dir : 1..4,
                     found : SUBSET Collectors, left : 0..MaxReloads]
    BY DEF Restart
  <1>3. cache' \in [DOMAIN cache' -> Datum]  BY <1>1 DEF Restart, Empty
  <1>4. req' \in [Requests -> Request]  BY InitialRequest DEF Restart
  <1>5. TypeOK'  BY <1>1, <1>2, <1>3, <1>4 DEF IInv, TypeOK, Restart
  <1>6. ASSUME NEW r \in Requests PROVE Sound(req'[r], zones)
    BY NewRequestSound, InitialRequest DEF IInv, Restart, NoRequest
  <1> QED  BY <1>1, <1>5, <1>6 DEF IInv, CacheKeepsZones, RequestsSound, Restart

-----------------------------------------------------------------------------
(* The steps of a request.                                                 *)

LEMMA GetMetricsKeeps ==
    ASSUME IInv, NEW r \in Requests, NEW z \in Zones,
           NEW core \in CoreZoneStatus(z), GetMetrics(r, z, core)
    PROVE  IInv'
  <1> DEFINE q == IF running
                  THEN [NoRequest EXCEPT !.pc = "info", !.zone = z, !.core = core,
                                         !.objs = Applicable(z)]
                  ELSE [NoRequest EXCEPT !.pc = "replied", !.zone = z,
                                         !.core = core, !.reply = "error"]
  <1>1. core \in BOOLEAN  BY DEF CoreZoneStatus
  <1>2. Applicable(z) \subseteq Collectors  BY DEF Applicable, IInv, TypeOK
  <1>3. q \in Request  BY <1>1, <1>2, InitialRequest DEF Request
  <1>4. q.calls = {} /\ q.results = {} /\ q.instance = 0  BY DEF NoRequest
  <1>5. req' = [req EXCEPT ![r] = q] /\ OnlyRequest
    BY DEF GetMetrics, OnlyRequest
  <1> HIDE DEF q
  <1>6. Sound(q, zones)  BY <1>3, <1>4, NewRequestSound DEF IInv
  <1> QED  BY <1>3, <1>5, <1>6, OnlyRequestChanges

LEMMA DoneKeeps ==
    ASSUME IInv, NEW r \in Requests, Done(r)
    PROVE  IInv'
  <1>1. Sound(NoRequest, zones)
    BY InitialRequest, NewRequestSound DEF NoRequest, IInv
  <1>2. req' = [req EXCEPT ![r] = NoRequest] /\ OnlyRequest
    BY DEF Done, OnlyRequest
  <1> QED  BY <1>1, <1>2, InitialRequest, OnlyRequestChanges

LEMMA GetZoneInfoKeeps ==
    ASSUME IInv, NEW r \in Requests, GetZoneInfo(r)
    PROVE  IInv'
  <1> DEFINE z == zones[req[r].zone]
             q == IF z.up THEN [req[r] EXCEPT !.pc = "filter", !.instance = z.instance]
                  ELSE [req[r] EXCEPT !.pc = "replied", !.reply = "notFound"]
  <1>1. req[r] \in Request /\ Sound(req[r], zones) /\ req[r].pc = "info"
    BY DEF IInv, TypeOK, RequestsSound, GetZoneInfo
  <1>2. z \in [instance : 0..MaxInstance, up : BOOLEAN]
    BY <1>1 DEF IInv, TypeOK, Request
  <1>3. q \in Request  BY <1>1, <1>2 DEF Request
  <1>4. Sound(q, zones)  BY <1>1, <1>2 DEF Sound, Request
  <1>5. req' = [req EXCEPT ![r] = q] /\ OnlyRequest
    BY <1>1 DEF GetZoneInfo, Reply, OnlyRequest, IInv, TypeOK
  <1> QED  BY <1>3, <1>4, <1>5, OnlyRequestChanges

LEMMA FilterCollectorsKeeps ==
    ASSUME IInv, NEW r \in Requests, FilterCollectors(r)
    PROVE  IInv'
  <1>1. CASE Abort  BY <1>1, AbortKeeps
  <1>2. CASE ~Abort
    <2> DEFINE q == [req[r] EXCEPT !.pc = "run", !.objs = Chosen(r), !.todo = Chosen(r)]
    <2>1. req[r] \in Request /\ Sound(req[r], zones) /\ req[r].pc = "filter"
      BY DEF IInv, TypeOK, RequestsSound, FilterCollectors
    <2>2. Chosen(r) \subseteq Collectors  BY <2>1 DEF Chosen, Request
    <2>3. q \in Request  BY <2>1, <2>2 DEF Request
    <2>4. Sound(q, zones)  BY <2>1 DEF Sound, Request
    <2>5. req' = [req EXCEPT ![r] = q] /\ OnlyRequest
      BY <1>2 DEF FilterCollectors, IInv, TypeOK
    <2> QED  BY <2>3, <2>4, <2>5, OnlyRequestChanges
  <1> QED  BY <1>1, <1>2

\* cachedMetricGet makes results of cached data of this zone only, and calls
\* of the zone's present instance.
LEMMA CachedMetricGetKeeps ==
    ASSUME IInv, NEW r \in Requests, NEW c \in Collectors, NEW subs \in SUBSET SubOrNone,
           req[r].pc \in {"run", "subs"}, req[r].calls = {},
           CachedMetricGet(r, c, subs), OnlyRequest
    PROVE  IInv'
  <1> DEFINE z == req[r].zone
             hit(s) == genCacheKey(c, s, z) \in DOMAIN cache
             result(s) ==
               IF Ignored(c)
               THEN [collector |-> c, sub |-> s, from |-> "ignored", datum |-> NoDatum]
               ELSE [collector |-> c, sub |-> s, from |-> "cached",
                     datum |-> cache[genCacheKey(c, s, z)]]
             answered == {s \in subs : Ignored(c) \/ hit(s)}
             new == {result(s) : s \in answered}
             calls == {[sub |-> s, instance |-> zones[z].instance] : s \in subs \ answered}
             named == req[r].named \cup ({c} \X subs)
             q == [req[r] EXCEPT !.pc = "run", !.current = {c}, !.todo = @ \ {c},
                                 !.named = named,
                                 !.results = @ \cup new, !.calls = calls]
  <1>1. req[r] \in Request /\ Sound(req[r], zones)
    BY DEF IInv, TypeOK, RequestsSound
  <1>2. z \in Zones /\ zones[z].instance \in 0..MaxInstance
    BY <1>1 DEF Request, IInv, TypeOK
  <1>3. NoDatum \in Datum  BY DEF NoDatum, Datum, Zones
  <1>4. ASSUME NEW x \in new
        PROVE  /\ x \in Result
               /\ HasData(x) => x.datum.zone = z
               /\ x.from # "collected"
    <2>1. PICK s \in answered : x = result(s)  OBVIOUS
    <2>2. CASE Ignored(c)  BY <1>3, <2>1, <2>2 DEF Result, HasData
    <2>3. CASE ~Ignored(c)
      <3>1. hit(s)  BY <2>1, <2>3
      <3>2. cache[genCacheKey(c, s, z)] \in Datum  BY <3>1 DEF IInv, TypeOK
      <3>3. cache[genCacheKey(c, s, z)].zone = z
        BY <3>1 DEF IInv, CacheKeepsZones, genCacheKey
      <3> QED  BY <2>1, <2>3, <3>2, <3>3 DEF Result, HasData
    <2> QED  BY <2>2, <2>3
  <1>5. calls \in SUBSET Call
    BY <1>2 DEF Call
  <1>6. ASSUME NEW call \in calls PROVE call.instance = zones[z].instance
    OBVIOUS
  <1>7. req' = [req EXCEPT ![r] = q]
    BY <1>1 DEF CachedMetricGet, IInv, TypeOK
  <1> HIDE DEF new, calls, named
  <1>8. q \in Request
    <2>1. new \in SUBSET Result  BY <1>4
    <2>2. req[r].results \cup new \in SUBSET Result  BY <1>1, <2>1 DEF Request
    <2>3. named \in SUBSET (Collectors \X SubOrNone)  BY <1>1 DEF named, Request
    <2> QED  BY <1>1, <1>5, <2>2, <2>3 DEF Request
  <1>9. Sound(q, zones)
    <2>1. q.pc = "run" /\ q.zone = z /\ q.calls = calls
          /\ q.results = req[r].results \cup new /\ q.instance = req[r].instance
      BY <1>1 DEF Request
    <2>2. req[r].instance \in Nat  BY <1>1 DEF Request
    <2>3. q.instance <= zones[z].instance  BY <1>1, <2>1 DEF Sound
    <2>4. ASSUME NEW call \in q.calls
          PROVE q.instance <= call.instance /\ call.instance <= zones[q.zone].instance
      BY <1>2, <1>6, <2>1, <2>3
    <2>5. ASSUME NEW x \in q.results
          PROVE  /\ HasData(x) => x.datum.zone = q.zone
                 /\ x.from = "collected" =>
                      /\ q.instance <= x.datum.instance
                      /\ x.datum.instance <= zones[q.zone].instance
      BY <1>1, <1>4, <2>1 DEF Sound
    <2> HIDE DEF q
    <2> QED  BY <2>1, <2>3, <2>4, <2>5 DEF Sound
  <1> QED  BY <1>7, <1>8, <1>9, OnlyRequestChanges

LEMMA RunCollectorKeeps ==
    ASSUME IInv, NEW r \in Requests, NEW c \in Collectors, RunCollector(r, c)
    PROVE  IInv'
  <1>1. CASE Abort  BY <1>1, AbortKeeps
  <1>2. CASE ~Abort /\ c \in HasSubs
    <2> DEFINE q == [req[r] EXCEPT !.pc = "subs", !.current = {c}]
    <2>1. req[r] \in Request /\ Sound(req[r], zones) /\ req[r].calls = {}
      BY <1>2 DEF IInv, TypeOK, RequestsSound, RunCollector
    <2>2. q \in Request  BY <2>1 DEF Request
    <2>3. req[r].pc = "run"  BY DEF RunCollector
    <2>4. Sound(q, zones)  BY <2>1, <2>3 DEF Sound, Request
    <2>5. req' = [req EXCEPT ![r] = q] /\ OnlyRequest
      BY <1>2 DEF RunCollector, IInv, TypeOK
    <2> QED  BY <2>2, <2>4, <2>5, OnlyRequestChanges
  <1>3. CASE ~Abort /\ c \notin HasSubs
    <2>1. CachedMetricGet(r, c, {NoSub}) /\ OnlyRequest  BY <1>3 DEF RunCollector
    <2>2. req[r].pc = "run" /\ req[r].calls = {}  BY DEF RunCollector
    <2>3. {NoSub} \in SUBSET SubOrNone  BY DEF SubOrNone
    <2> QED  BY <2>1, <2>2, <2>3, CachedMetricGetKeeps
  <1> QED  BY <1>1, <1>2, <1>3

LEMMA GotSubCollectorsKeeps ==
    ASSUME IInv, NEW r \in Requests, GotSubCollectors(r)
    PROVE  IInv'
  <1>1. CASE Abort  BY <1>1, AbortKeeps
  <1>2. CASE ~Abort
    <2>1. OnlyRequest /\ req[r].pc = "subs"  BY <1>2 DEF GotSubCollectors
    <2>2. PICK c \in req[r].current, subs \in SUBSET Subs : CachedMetricGet(r, c, subs)
      BY <1>2 DEF GotSubCollectors
    <2>3. req[r] \in Request /\ Sound(req[r], zones)
      BY DEF IInv, TypeOK, RequestsSound
    <2>4. c \in Collectors /\ req[r].calls = {}
      BY <2>1, <2>3 DEF Request, Sound
    <2>5. subs \in SUBSET SubOrNone  BY DEF SubOrNone
    <2> QED  BY <2>1, <2>2, <2>4, <2>5, CachedMetricGetKeeps
  <1> QED  BY <1>1, <1>2

LEMMA GotMetricsKeeps ==
    ASSUME IInv, NEW r \in Requests, NEW c \in req[r].current,
           NEW call \in req[r].calls, NEW outcome \in Outcomes, NEW store \in BOOLEAN,
           NEW instance \in {call.instance, zones[req[r].zone].instance},
           GotMetrics(r, c, call, instance, outcome, store)
    PROVE  IInv'
  <1> DEFINE z == req[r].zone
             datum == [zone |-> z, instance |-> instance,
                       kind |-> IF outcome = "metrics" THEN "metrics" ELSE "empty"]
             result == [collector |-> c, sub |-> call.sub, datum |-> datum,
                        from |-> IF outcome = "error" THEN "failed" ELSE "collected"]
             key == genCacheKey(c, call.sub, z)
             emptyHanded == outcome \in {"empty", "notAvailable"} /\ c \notin EmptyOK
             q == IF emptyHanded
                  THEN [req[r] EXCEPT !.calls = @ \ {call}, !.missing = TRUE]
                  ELSE [req[r] EXCEPT !.calls = @ \ {call}, !.results = @ \cup {result}]
  <1>1. req[r] \in Request /\ Sound(req[r], zones)
    BY DEF IInv, TypeOK, RequestsSound
  <1>2. /\ z \in Zones /\ zones[z].instance \in 0..MaxInstance
        /\ c \in Collectors /\ call \in Call
    BY <1>1 DEF Request, IInv, TypeOK
  <1>3. /\ instance \in 0..MaxInstance
        /\ req[r].instance <= instance /\ instance <= zones[z].instance
    <2>1. /\ call.instance \in 0..MaxInstance
          /\ req[r].instance <= call.instance /\ call.instance <= zones[z].instance
          /\ req[r].instance <= zones[z].instance
      BY <1>1, <1>2 DEF Sound, Call
    <2> QED  BY <1>2, <2>1
  <1>4. datum \in Datum  BY <1>2, <1>3 DEF Datum
  <1>5. result \in Result  BY <1>2, <1>4 DEF Result, Call
  <1>6. req[r].pc = "run"  BY <1>1 DEF Sound
  <1>7. req' = [req EXCEPT ![r] = q]
    <2>1. CASE emptyHanded  BY <2>1, <1>1 DEF GotMetrics, IInv, TypeOK
    <2>2. CASE ~emptyHanded  BY <2>2, <1>1 DEF GotMetrics, Collected, IInv, TypeOK
    <2> QED  BY <2>1, <2>2
  <1>8. q \in Request
    <2>1. CASE emptyHanded  BY <1>1, <2>1 DEF Request
    <2>2. CASE ~emptyHanded
      <3>1. req[r].results \cup {result} \in SUBSET Result  BY <1>1, <1>5 DEF Request
      <3> HIDE DEF result
      <3> QED  BY <1>1, <2>2, <3>1 DEF Request
    <2> QED  BY <2>1, <2>2
  <1>9. Sound(q, zones)
    <2>1. /\ q.pc = "run" /\ q.zone = z /\ q.calls = req[r].calls \ {call}
          /\ q.instance = req[r].instance
          /\ q.results \subseteq req[r].results \cup {result}
      BY <1>1, <1>6 DEF Request
    <2>2. ASSUME NEW x \in q.results
          PROVE  /\ HasData(x) => x.datum.zone = q.zone
                 /\ x.from = "collected" =>
                      /\ q.instance <= x.datum.instance
                      /\ x.datum.instance <= zones[q.zone].instance
      <3>1. CASE x = result  BY <1>3, <2>1, <3>1 DEF HasData
      <3>2. CASE x # result  BY <1>1, <2>1, <3>2 DEF Sound
      <3> QED  BY <3>1, <3>2
    <2>3. ASSUME NEW y \in q.calls
          PROVE  q.instance <= y.instance /\ y.instance <= zones[q.zone].instance
      BY <1>1, <2>1 DEF Sound
    <2>4. q.instance <= zones[q.zone].instance  BY <1>1, <2>1 DEF Sound
    <2> HIDE DEF q
    <2> QED  BY <2>1, <2>2, <2>3, <2>4 DEF Sound
  <1>10. failures' \in [Collectors -> Nat]
    <2>1. failures[c] \in Nat  BY <1>2 DEF IInv, TypeOK
    <2>2. FailuresAfter(c, outcome) \in Nat  BY <2>1 DEF FailuresAfter, Outcomes
    <2>3. failures' = [failures EXCEPT ![c] = FailuresAfter(c, outcome)]
      BY DEF GotMetrics
    <2> QED  BY <2>2, <2>3 DEF IInv, TypeOK
  <1>11. /\ DOMAIN cache' \subseteq CacheKeys
         /\ cache' \in [DOMAIN cache' -> Datum]
         /\ CacheKeepsZones'
    <2>1. CASE cache' = cache  BY <2>1 DEF IInv, TypeOK, CacheKeepsZones
    <2>2. CASE cache' = Inserted(key, datum)
      <3>1. key \in CacheKeys /\ key[3] = z
        BY <1>2 DEF genCacheKey, CacheKeys, Call
      <3> HIDE DEF key, datum
      <3>2. DOMAIN cache' = {key} \cup DOMAIN cache  BY <2>2 DEF Inserted
      <3>3. \A k \in DOMAIN cache' : cache'[k] = IF k = key THEN datum ELSE cache[k]
        BY <2>2 DEF Inserted
      <3>4. cache' = [k \in DOMAIN cache' |-> cache'[k]]  BY <2>2 DEF Inserted
      <3>5. \A k \in DOMAIN cache' : cache'[k] \in Datum
        BY <1>4, <3>2, <3>3 DEF IInv, TypeOK
      <3>6. DOMAIN cache' \subseteq CacheKeys  BY <3>1, <3>2 DEF IInv, TypeOK
      <3>7. datum.zone = z  BY DEF datum
      <3>8. CacheKeepsZones'
        BY <3>1, <3>2, <3>3, <3>7 DEF IInv, CacheKeepsZones
      <3> QED  BY <3>4, <3>5, <3>6, <3>8
    <2> QED  BY <2>1, <2>2 DEF GotMetrics
  <1>12. UNCHANGED <<files, zones, server, running, reload, collectors>>
    BY DEF GotMetrics
  <1> HIDE DEF q
  <1> QED  BY <1>7, <1>8, <1>9, <1>10, <1>11, <1>12, RequestChanges

LEMMA CollectorCallsBackKeeps ==
    ASSUME IInv, NEW r \in Requests, CollectorCallsBack(r)
    PROVE  IInv'
  <1>1. PICK c \in req[r].current, call \in req[r].calls, outcome \in Outcomes :
          \E instance \in {call.instance, zones[req[r].zone].instance},
             store \in Stores(c, outcome) :
            GotMetrics(r, c, call, instance, outcome, store)
    BY DEF CollectorCallsBack
  <1>2. PICK instance \in {call.instance, zones[req[r].zone].instance},
             store \in Stores(c, outcome) :
          GotMetrics(r, c, call, instance, outcome, store)
    BY <1>1
  <1>3. store \in BOOLEAN  BY Zenon DEF Stores
  <1> QED  BY <1>2, <1>3, GotMetricsKeeps

\* The steps at the end of a request touch neither its data nor its calls,
\* of which none are left.
LEMMA EndKeeps ==
    ASSUME IInv, NEW r \in Requests,
           CollectionFails(r) \/ AfterCollection(r) \/ ConfirmSanity(r)
    PROVE  IInv'
  <1>1. req[r] \in Request /\ Sound(req[r], zones)
    BY DEF IInv, TypeOK, RequestsSound
  <1>2. zones[req[r].zone].instance \in Nat  BY <1>1 DEF Request, IInv, TypeOK
  <1>3. ASSUME NEW x \in req[r].results PROVE x.datum.instance \in Nat
    BY <1>1 DEF Request, Result, Datum
  <1>4. CASE AfterCollection(r)
    <2> DEFINE q == [req[r] EXCEPT !.pc = "confirm"]
    <2>1. req' = [req EXCEPT ![r] = q] /\ OnlyRequest
      BY <1>1, <1>4 DEF AfterCollection, IInv, TypeOK
    <2>2. q \in Request  BY <1>1 DEF Request
    <2>3. req[r].calls = {}  BY <1>4 DEF AfterCollection
    <2>4. Sound(q, zones)  BY <1>1, <2>3 DEF Sound, Request
    <2> QED  BY <2>1, <2>2, <2>4, OnlyRequestChanges
  <1>5. CASE CollectionFails(r)
    <2> DEFINE q == [req[r] EXCEPT !.pc = "replied", !.reply = "notFound"]
    <2>1. req' = [req EXCEPT ![r] = q] /\ OnlyRequest
      BY <1>1, <1>5 DEF CollectionFails, Reply, IInv, TypeOK
    <2>2. q \in Request  BY <1>1 DEF Request
    <2>3. req[r].calls = {}  BY <1>5 DEF CollectionFails
    <2>4. Sound(q, zones)  BY <1>1, <2>3 DEF Sound, Request
    <2> QED  BY <2>1, <2>2, <2>4, OnlyRequestChanges
  <1>6. CASE ConfirmSanity(r)
    <2> DEFINE what == IF SameInstance(r) THEN "ok" ELSE "notFound"
               q == [req[r] EXCEPT !.pc = "replied", !.reply = what]
    <2>1. req' = [req EXCEPT ![r] = q] /\ OnlyRequest
      BY <1>1, <1>6 DEF ConfirmSanity, Reply, IInv, TypeOK
    <2>2. q \in Request  BY <1>1 DEF Request
    <2>3. req[r].calls = {}  BY <1>1, <1>6 DEF ConfirmSanity, Sound
    <2>4. what = "ok" => zones[req[r].zone].instance = req[r].instance
      BY DEF SameInstance
    <2>5. ASSUME what = "ok", NEW x \in req[r].results, x.from = "collected"
          PROVE  x.datum.instance = req[r].instance
      <3>1. req[r].instance \in Nat  BY <1>1 DEF Request
      <3>2. /\ req[r].instance <= x.datum.instance
            /\ x.datum.instance <= zones[req[r].zone].instance
        BY <1>1, <2>5 DEF Sound
      <3> HIDE DEF what
      <3> QED  BY <1>2, <1>3, <2>4, <2>5, <3>1, <3>2
    <2>6. /\ q.pc = "replied" /\ q.reply = what /\ q.calls = {}
          /\ q.results = req[r].results /\ q.zone = req[r].zone
          /\ q.instance = req[r].instance
      BY <1>1, <2>3 DEF Request
    <2>7. Sound(q, zones)
      <3> HIDE DEF q, what
      <3> QED  BY <1>1, <2>5, <2>6 DEF Sound
    <2> QED  BY <2>1, <2>2, <2>7, OnlyRequestChanges
  <1> QED  BY <1>4, <1>5, <1>6

-----------------------------------------------------------------------------
(* The invariant, and what follows from it.                                *)

LEMMA StepKeeps == IInv /\ [Next]_vars => IInv'
  <1> SUFFICES ASSUME IInv, [Next]_vars PROVE IInv'  OBVIOUS
  <1>1. CASE FileChanges  BY <1>1, FileChangesKeeps
  <1>2. ASSUME NEW z \in Zones, ZoneStops(z) \/ ZoneStarts(z) PROVE IInv'
    BY <1>2, ZonesChange
  <1>3. ASSUME NEW k \in CacheKeys, CacheExpires(k) PROVE IInv'
    BY <1>3, CacheExpiresKeeps
  <1>4. CASE ReloadStep  BY <1>4, ReloadKeeps
  <1>5. CASE Close  BY <1>5, CloseKeeps
  <1>6. CASE Restart  BY <1>6, RestartKeeps
  <1>7. ASSUME NEW r \in Requests, NEW z \in Zones, NEW core \in CoreZoneStatus(z),
               GetMetrics(r, z, core)
        PROVE  IInv'
    BY <1>7, GetMetricsKeeps
  <1>8. ASSUME NEW r \in Requests, RequestStep(r) PROVE IInv'
    <2>1. CASE GetZoneInfo(r)  BY <2>1, GetZoneInfoKeeps
    <2>2. CASE FilterCollectors(r)  BY <2>2, FilterCollectorsKeeps
    <2>3. ASSUME NEW c \in Collectors, RunCollector(r, c) PROVE IInv'
      BY <2>3, RunCollectorKeeps
    <2>4. CASE GotSubCollectors(r)  BY <2>4, GotSubCollectorsKeeps
    <2>5. CASE CollectorCallsBack(r)  BY <2>5, CollectorCallsBackKeeps
    <2>6. CASE OptionTTLRefused(r)  BY <2>6, AbortKeeps DEF OptionTTLRefused
    <2>7. CASE CollectionFails(r) \/ AfterCollection(r) \/ ConfirmSanity(r)
      BY <2>7, EndKeeps
    <2>8. CASE Done(r)  BY <2>8, DoneKeeps
    <2> QED
      BY <1>8, <2>1, <2>2, <2>3, <2>4, <2>5, <2>6, <2>7, <2>8 DEF RequestStep
  <1>9. CASE UNCHANGED vars
    <2>1. TypeOK'  BY <1>9 DEF IInv, TypeOK, vars
    <2> QED  BY <1>9, <2>1, RestKeeps DEF vars
  <1> QED
    BY <1>1, <1>2, <1>3, <1>4, <1>5, <1>6, <1>7, <1>8, <1>9 DEF Next

LEMMA Invariant == Spec => []IInv
  BY InitHolds, StepKeeps, PTL DEF Spec

\* Types of Collector's variables, for any zones, collectors and requests.
THEOREM TypeCorrect == Spec => []TypeOK
  <1>1. IInv => TypeOK  BY DEF IInv
  <1> QED  BY <1>1, Invariant, PTL

\* No request ever holds data of a zone other than the one it asks for, however
\* requests share the cache.
THEOREM ZonesAreIsolated == Spec => []ZoneIsolation
  <1>1. IInv => ZoneIsolation
    BY DEF IInv, RequestsSound, Sound, ZoneIsolation
  <1> QED  BY <1>1, Invariant, PTL

\* What a request has read itself, and replies with, is from one instance of
\* the zone, whenever zones stop and start and however often.
THEOREM RepliesAreOfOneInstance == Spec => []CollectedFromThisInstance
  <1>1. IInv => CollectedFromThisInstance
    BY DEF IInv, RequestsSound, Sound, CollectedFromThisInstance, Replied
  <1> QED  BY <1>1, Invariant, PTL

-----------------------------------------------------------------------------
(* A disabled collector stays disabled.                                    *)

\* No call of c is under way.
Quiet(c) == \A r \in Requests : c \in req[r].current => req[r].calls = {}

LEMMA QuietIsNotInFlight ==
    ASSUME TypeOK, NEW c \in Collectors
    PROVE  InFlight(c) = {} <=> Quiet(c)
  <1>1. ASSUME Quiet(c) PROVE InFlight(c) = {}
    BY <1>1 DEF Quiet, InFlight
  <1>2. ASSUME InFlight(c) = {}, NEW r \in Requests, c \in req[r].current,
               NEW call \in req[r].calls
        PROVE  FALSE
    <2>1. call \in Call  BY DEF TypeOK, Request
    <2>2. <<r, call>> \in InFlight(c)  BY <1>2, <2>1 DEF InFlight
    <2> QED  BY <1>2, <2>2
  <1> QED  BY <1>1, <1>2 DEF Quiet

\* A step that changes the request r only, and not the count of c.
LEMMA QuietKept ==
    ASSUME TypeOK, NEW c \in Collectors, Quiet(c), NEW r \in Requests, NEW q,
           req' = [req EXCEPT ![r] = q], c \in q.current => q.calls = {}
    PROVE  Quiet(c)'
  <1>1. ASSUME NEW s \in Requests, c \in req'[s].current PROVE req'[s].calls = {}
    BY <1>1 DEF Quiet, TypeOK
  <1> QED  BY <1>1 DEF Quiet

\* The calls of a disabled collector are not made.
LEMMA DisabledIsNotCalled ==
    ASSUME TypeOK, NEW c \in Collectors, Quiet(c), failures[c] >= MAX_FAILS,
           NEW r \in Requests, NEW d \in Collectors, NEW subs,
           CachedMetricGet(r, d, subs)
    PROVE  Quiet(c)'
  <1>1. req[r] \in Request  BY DEF TypeOK
  <1>2. req'[r].current = {d}  BY <1>1 DEF CachedMetricGet, TypeOK, Request
  <1>3. ASSUME c = d PROVE req'[r].calls = {}
    <2>1. Ignored(d)  BY <1>3 DEF Ignored
    <2> QED  BY <1>1, <2>1 DEF CachedMetricGet, TypeOK, Request
  <1>4. req' = [req EXCEPT ![r] = req'[r]]  BY DEF CachedMetricGet, TypeOK
  <1> QED  BY <1>2, <1>3, <1>4, QuietKept

LEMMA DisabledStep ==
    ASSUME TypeOK, [Next]_vars, ~Restart, NEW c \in Collectors,
           Quiet(c), failures[c] >= MAX_FAILS
    PROVE  Quiet(c)' /\ failures'[c] >= MAX_FAILS
  <1>1. CASE UNCHANGED <<req, failures>>  BY <1>1 DEF Quiet
  <1>2. ASSUME NEW r \in Requests, NEW z \in Zones, NEW core \in CoreZoneStatus(z),
               GetMetrics(r, z, core)
        PROVE  Quiet(c)' /\ failures'[c] >= MAX_FAILS
    <2>1. req'[r].calls = {}  BY <1>2 DEF GetMetrics, TypeOK, NoRequest
    <2>2. req' = [req EXCEPT ![r] = req'[r]]  BY <1>2 DEF GetMetrics, TypeOK
    <2> QED  BY <1>2, <2>1, <2>2, QuietKept DEF GetMetrics
  <1>3. ASSUME NEW r \in Requests, RequestStep(r)
        PROVE  Quiet(c)' /\ failures'[c] >= MAX_FAILS
    <2>0. req[r] \in Request  BY DEF TypeOK
    <2>1. ASSUME NEW d \in Collectors, RunCollector(r, d)
          PROVE  Quiet(c)' /\ failures'[c] >= MAX_FAILS
      <3>1. CASE Abort  BY <3>1 DEF Abort, Quiet
      <3>2. CASE ~Abort /\ d \in HasSubs
        <4>1. req'[r].calls = {}
          BY <2>0, <2>1, <3>2 DEF RunCollector, TypeOK, Request
        <4>2. req' = [req EXCEPT ![r] = req'[r]]
          BY <2>1, <3>2 DEF RunCollector, TypeOK
        <4> QED  BY <2>1, <3>2, <4>1, <4>2, QuietKept DEF RunCollector, OnlyRequest
      <3>3. CASE ~Abort /\ d \notin HasSubs
        BY <2>1, <3>3, DisabledIsNotCalled DEF RunCollector, OnlyRequest
      <3> QED  BY <3>1, <3>2, <3>3
    <2>2. CASE GotSubCollectors(r)
      <3>1. CASE Abort  BY <3>1 DEF Abort, Quiet
      <3>2. CASE ~Abort
        <4>1. PICK d \in req[r].current, subs \in SUBSET Subs : CachedMetricGet(r, d, subs)
          BY <2>2, <3>2 DEF GotSubCollectors
        <4>2. d \in Collectors  BY <2>0 DEF Request
        <4> QED
          BY <2>2, <3>2, <4>1, <4>2, DisabledIsNotCalled DEF GotSubCollectors, OnlyRequest
      <3> QED  BY <3>1, <3>2
    <2>3. CASE CollectorCallsBack(r)
      <3>1. PICK d \in req[r].current, call \in req[r].calls, outcome \in Outcomes :
              \E instance \in {call.instance, zones[req[r].zone].instance},
                 store \in Stores(d, outcome) :
                GotMetrics(r, d, call, instance, outcome, store)
        BY <2>3 DEF CollectorCallsBack
      <3>2. PICK instance \in {call.instance, zones[req[r].zone].instance},
                 store \in Stores(d, outcome) :
              GotMetrics(r, d, call, instance, outcome, store)
        BY <3>1
      <3>3. c # d /\ c \notin req[r].current  BY DEF Quiet
      <3>4. failures'[c] = failures[c]  BY <3>2, <3>3 DEF GotMetrics, TypeOK
      <3>5. req'[r].current = req[r].current
        BY <2>0, <3>2 DEF GotMetrics, TypeOK, Request
      <3>6. req' = [req EXCEPT ![r] = req'[r]]  BY <3>2 DEF GotMetrics, TypeOK
      <3> QED  BY <3>3, <3>4, <3>5, <3>6, QuietKept
    <2>4. CASE OptionTTLRefused(r)  BY <2>4 DEF OptionTTLRefused, Abort, Quiet
    <2>5. CASE Done(r)
      <3>1. req' = [req EXCEPT ![r] = NoRequest]  BY <2>5 DEF Done
      <3>2. NoRequest.calls = {}  BY DEF NoRequest
      <3> QED  BY <2>5, <3>1, <3>2, QuietKept DEF Done
    <2>6. CASE FilterCollectors(r) /\ Abort  BY <2>6 DEF Abort, Quiet
    <2>7. CASE \/ GetZoneInfo(r)
               \/ FilterCollectors(r) /\ ~Abort
               \/ CollectionFails(r) \/ AfterCollection(r) \/ ConfirmSanity(r)
      <3>1. req' = [req EXCEPT ![r] = req'[r]]
        BY <2>7 DEF GetZoneInfo, FilterCollectors, CollectionFails, AfterCollection,
                    ConfirmSanity, Reply, TypeOK
      <3>2. req'[r].current = req[r].current /\ req'[r].calls = req[r].calls
        BY <2>0, <2>7 DEF GetZoneInfo, FilterCollectors, CollectionFails,
              AfterCollection, ConfirmSanity, Reply, TypeOK, Request
      <3>3. UNCHANGED failures
        BY <2>7 DEF GetZoneInfo, FilterCollectors, CollectionFails, AfterCollection,
                    ConfirmSanity, OnlyRequest
      <3>4. c \in req'[r].current => req'[r].calls = {}  BY <3>2 DEF Quiet
      <3> QED  BY <3>1, <3>3, <3>4, QuietKept
    <2> QED
      BY <1>3, <2>1, <2>2, <2>3, <2>4, <2>5, <2>6, <2>7 DEF RequestStep
  <1>4. CASE \/ FileChanges \/ ReloadStep \/ Close
             \/ \E z \in Zones : ZoneStops(z) \/ ZoneStarts(z)
             \/ \E k \in CacheKeys : CacheExpires(k)
    <2>1. UNCHANGED <<req, failures>>
      BY <1>4 DEF FileChanges, ReloadStep, ReloadStarts, RegisterCollectors,
            AfterRegistering, Close, ZoneStops, ZoneStarts, CacheExpires
    <2> QED  BY <1>1, <2>1
  <1>5. CASE UNCHANGED vars  BY <1>1, <1>5 DEF vars
  <1> QED  BY <1>2, <1>3, <1>4, <1>5 DEF Next

\* A collector that has reached the limit and has no call under way is never
\* called again, nor is its count reset, until the process ends.
THEOREM DisabledStaysDisabled == Spec => DisabledForGood
  <1>1. ASSUME TypeOK, TypeOK', [Next]_vars
        PROVE  [\A c \in Collectors : Disabled(c) => Disabled(c)' \/ Restart]_vars
    <2>1. ASSUME NEW c \in Collectors, Disabled(c), ~Restart PROVE Disabled(c)'
      <3>1. Quiet(c) /\ failures[c] >= MAX_FAILS
        BY <1>1, <2>1, QuietIsNotInFlight DEF Disabled
      <3>2. Quiet(c)' /\ failures'[c] >= MAX_FAILS
        BY <1>1, <2>1, <3>1, DisabledStep
      <3>3. (InFlight(c) = {})' <=> Quiet(c)'
        BY <1>1, QuietIsNotInFlight, PTL
      <3> QED  BY <3>2, <3>3 DEF Disabled
    <2> QED  BY <2>1
  <1> QED  BY <1>1, TypeCorrect, PTL DEF Spec, DisabledForGood

-----------------------------------------------------------------------------
(* A reply is complete.                                                    *)

\* The collectors of the request have been chosen, and it has not failed.
Underway(q) ==
    \/ q.pc \in {"run", "subs", "confirm"}
    \/ q.pc = "replied" /\ q.reply = "ok"

\* The names a call of collector c may be for.
SubsOf(c) == IF c \in HasSubs THEN Subs ELSE {NoSub}

\* The calls under way are of a collector of the request that is no longer to
\* come, one for each name, and none has a result yet.
CallsFit(q) ==
    \E c \in q.objs \ q.todo :
      /\ q.current = {c}
      /\ \A call \in q.calls : call.sub \in SubsOf(c) /\ <<c, call.sub>> \in q.named
      /\ \A a, b \in q.calls : a.sub = b.sub => a = b
      /\ \A call \in q.calls, x \in q.results :
           x.collector = c => x.sub # call.sub

\* What has been named has its result, is waited for, or has ended the request.
Served(q, c, sub) ==
    \/ \E x \in q.results : x.collector = c /\ x.sub = sub
    \/ q.missing
    \/ q.current = {c} /\ \E call \in q.calls : call.sub = sub

\* The collectors of the request are those to come and those named, what is named
\* is served, and no result is there twice or unnamed.
Accounted(q) ==
    /\ q.todo \subseteq q.objs
    /\ \A c \in q.objs \cap CoreZoneOnly : q.core
    /\ \A x \in q.results : x.collector \in q.objs \ q.todo
    /\ \A x, y \in q.results : x.collector = y.collector /\ x.sub = y.sub => x = y
    /\ \A x \in q.results : <<x.collector, x.sub>> \in q.named
    /\ \A c \in (q.objs \ q.todo) \ HasSubs : <<c, NoSub>> \in q.named
    /\ \A x \in q.named : x[1] \notin q.todo /\ Served(q, x[1], x[2])

Whole(q) ==
    /\ q.pc \in {"info", "filter"} =>
         q.results = {} /\ q.calls = {} /\ q.named = {} /\ ~q.missing
    /\ Underway(q) => Accounted(q)
    /\ q.calls # {} => q.pc = "run" /\ CallsFit(q)
    /\ q.pc = "subs" => ~q.missing /\ \E c \in q.todo \cap HasSubs : q.current = {c}
    /\ Underway(q) /\ q.pc \notin {"run", "subs"} => q.todo = {} /\ ~q.missing

RequestsWhole == \A r \in Requests : Whole(req[r])

\* A step that changes one request only, into a whole one.
LEMMA WholeChanges ==
    ASSUME TypeOK, RequestsWhole, NEW r \in Requests, NEW q,
           req' = [req EXCEPT ![r] = q], Whole(q)
    PROVE  RequestsWhole'
  BY DEF TypeOK, RequestsWhole

\* A request before it has been filtered, or one that has failed.
LEMMA NothingYet ==
    ASSUME NEW q, q.calls = {}, ~Underway(q),
           q.pc \in {"info", "filter"} => q.results = {} /\ q.named = {} /\ ~q.missing
    PROVE  Whole(q)
  BY DEF Whole, Underway

LEMMA FilterKeepsWhole ==
    ASSUME TypeOK, RequestsWhole, NEW r \in Requests, FilterCollectors(r), ~Abort
    PROVE  RequestsWhole'
  <1> DEFINE q == [req[r] EXCEPT !.pc = "run", !.objs = Chosen(r), !.todo = Chosen(r)]
  <1>1. req[r] \in Request /\ Whole(req[r]) /\ req[r].pc = "filter"
    BY DEF TypeOK, RequestsWhole, FilterCollectors
  <1>2. req' = [req EXCEPT ![r] = q]
    BY DEF FilterCollectors
  <1>3. /\ q.pc = "run" /\ q.objs = Chosen(r) /\ q.todo = Chosen(r)
        /\ q.core = req[r].core /\ q.results = {} /\ q.calls = {} /\ q.named = {}
    BY <1>1 DEF Request, Whole
  <1>4. \A c \in Chosen(r) \cap CoreZoneOnly : req[r].core
    BY DEF Chosen
  <1> HIDE DEF q
  <1>5. Accounted(q)
    BY <1>3, <1>4 DEF Accounted
  <1>6. Whole(q)
    BY <1>3, <1>5 DEF Whole
  <1> QED  BY <1>2, <1>6, WholeChanges

\* cachedMetricGet takes the collector from those to come, and each of its
\* names becomes a result or a call.
LEMMA CachedMetricGetKeepsWhole ==
    ASSUME TypeOK, RequestsWhole, NEW r \in Requests, NEW c \in req[r].todo,
           NEW subs \in SUBSET SubsOf(c), c \notin HasSubs => subs = {NoSub},
           req[r].pc \in {"run", "subs"}, req[r].calls = {}, ~req[r].missing,
           CachedMetricGet(r, c, subs)
    PROVE  RequestsWhole'
  <1> DEFINE old == req[r]
             z == old.zone
             hit(s) == genCacheKey(c, s, z) \in DOMAIN cache
             result(s) ==
               IF Ignored(c)
               THEN [collector |-> c, sub |-> s, from |-> "ignored", datum |-> NoDatum]
               ELSE [collector |-> c, sub |-> s, from |-> "cached",
                     datum |-> cache[genCacheKey(c, s, z)]]
             answered == {s \in subs : Ignored(c) \/ hit(s)}
             new == {result(s) : s \in answered}
             asking(s) == [sub |-> s, instance |-> zones[z].instance]
             calls == {asking(s) : s \in subs \ answered}
             named == old.named \cup ({c} \X subs)
             q == [old EXCEPT !.pc = "run", !.current = {c}, !.todo = @ \ {c},
                              !.named = named,
                              !.results = @ \cup new, !.calls = calls]
  <1>1. old \in Request /\ Whole(old) /\ Accounted(old)
    BY DEF TypeOK, RequestsWhole, Whole, Underway
  <1>2. req' = [req EXCEPT ![r] = q]
    BY DEF CachedMetricGet
  <1>3. /\ q.pc = "run" /\ q.current = {c} /\ q.todo = old.todo \ {c}
        /\ q.results = old.results \cup new /\ q.calls = calls /\ q.named = named
        /\ q.objs = old.objs /\ q.core = old.core /\ q.missing = old.missing
    BY <1>1 DEF Request
  <1>4. \A x \in new : \E s \in answered : x = result(s)
    OBVIOUS
  <1>5. \A s \in answered : result(s).collector = c /\ result(s).sub = s
    OBVIOUS
  <1>6. /\ \A x \in new : x.collector = c /\ x.sub \in answered
        /\ \A x, y \in new : x.sub = y.sub => x = y
        /\ \A s \in answered : \E x \in new : x.collector = c /\ x.sub = s
    <2> HIDE DEF result, answered
    <2> QED  BY <1>4, <1>5
  <1>7. /\ \A call \in calls : call.sub \in subs \ answered
        /\ \A a, b \in calls : a.sub = b.sub => a = b
        /\ \A s \in subs \ answered : \E call \in calls : call.sub = s
    <2>1. \A s : asking(s).sub = s
      OBVIOUS
    <2> HIDE DEF asking, answered
    <2> QED  BY <2>1
  <1>8. /\ answered \subseteq subs
        /\ old.named \subseteq named /\ \A s \in subs : <<c, s>> \in named
        /\ \A x \in named : x \in old.named \/ (x[1] = c /\ x[2] \in subs)
    OBVIOUS
  <1> HIDE DEF new, calls, asking, answered, result, hit, z, named, q
  <1>9. c \in old.objs /\ \A x \in old.results : x.collector # c
    BY <1>1 DEF Accounted
  <1>10. Accounted(q)
    <2>1. \A x \in q.results : x.collector \in q.objs \ q.todo
      BY <1>1, <1>3, <1>6, <1>9 DEF Accounted
    <2>2. \A x, y \in q.results : x.collector = y.collector /\ x.sub = y.sub => x = y
      BY <1>1, <1>3, <1>6, <1>9 DEF Accounted
    <2>3. \A d \in (q.objs \ q.todo) \ HasSubs : <<d, NoSub>> \in q.named
      BY <1>1, <1>3, <1>8 DEF Accounted
    <2>4. \A x \in q.results : <<x.collector, x.sub>> \in q.named
      BY <1>1, <1>3, <1>6, <1>8 DEF Accounted
    <2>5. ASSUME NEW x \in q.named
          PROVE  x[1] \notin q.todo /\ Served(q, x[1], x[2])
      <3>1. CASE x[1] = c /\ x[2] \in subs
        BY <1>3, <1>6, <1>7, <3>1 DEF Served
      <3>2. CASE x \in old.named
        <4>1. x[1] \notin old.todo /\ Served(old, x[1], x[2])
          BY <1>1, <3>2 DEF Accounted
        <4> QED  BY <1>3, <4>1 DEF Served
      <3> QED  BY <1>3, <1>8, <3>1, <3>2
    <2> QED  BY <1>1, <1>3, <2>1, <2>2, <2>3, <2>4, <2>5 DEF Accounted
  <1>11. CallsFit(q)
    <2>1. c \in q.objs \ q.todo
      BY <1>3, <1>9
    <2>2. \A call \in q.calls, x \in q.results : x.collector = c => x.sub # call.sub
      BY <1>3, <1>6, <1>7, <1>9
    <2> QED  BY <1>3, <1>7, <1>8, <2>1, <2>2 DEF CallsFit
  <1>12. Whole(q)
    BY <1>3, <1>10, <1>11 DEF Whole
  <1> QED  BY <1>2, <1>12, WholeChanges

LEMMA RunCollectorKeepsWhole ==
    ASSUME TypeOK, RequestsWhole, NEW r \in Requests, NEW c \in Collectors,
           RunCollector(r, c), ~Abort
    PROVE  RequestsWhole'
  <1>1. req[r] \in Request /\ Whole(req[r])
    BY DEF TypeOK, RequestsWhole
  <1>2. /\ req[r].pc = "run" /\ req[r].calls = {} /\ ~req[r].missing
        /\ c \in req[r].todo
    BY DEF RunCollector
  <1>3. CASE c \in HasSubs
    <2> DEFINE q == [req[r] EXCEPT !.pc = "subs", !.current = {c}]
    <2>1. req' = [req EXCEPT ![r] = q]
      BY <1>3 DEF RunCollector
    <2>2. /\ q.pc = "subs" /\ q.current = {c} /\ q.todo = req[r].todo
          /\ q.objs = req[r].objs /\ q.core = req[r].core /\ q.calls = {}
          /\ q.results = req[r].results /\ q.missing = req[r].missing
          /\ q.named = req[r].named
      BY <1>1, <1>2 DEF Request
    <2> HIDE DEF q
    <2>3. Accounted(q)
      BY <1>1, <1>2, <2>2 DEF Whole, Underway, Accounted, Served
    <2>4. Whole(q)
      BY <1>2, <1>3, <2>2, <2>3 DEF Whole
    <2> QED  BY <2>1, <2>4, WholeChanges
  <1>4. CASE c \notin HasSubs
    <2>1. CachedMetricGet(r, c, {NoSub})
      BY <1>4 DEF RunCollector
    <2> QED  BY <1>2, <1>4, <2>1, CachedMetricGetKeepsWhole DEF SubsOf
  <1> QED  BY <1>3, <1>4

LEMMA GotSubCollectorsKeepsWhole ==
    ASSUME TypeOK, RequestsWhole, NEW r \in Requests, GotSubCollectors(r), ~Abort
    PROVE  RequestsWhole'
  <1>1. Whole(req[r]) /\ req[r].pc = "subs"
    BY DEF RequestsWhole, GotSubCollectors
  <1>2. PICK c \in req[r].current, subs \in SUBSET Subs : CachedMetricGet(r, c, subs)
    BY DEF GotSubCollectors
  <1>3. c \in req[r].todo \cap HasSubs /\ req[r].calls = {} /\ ~req[r].missing
    BY <1>1 DEF Whole
  <1> QED  BY <1>1, <1>2, <1>3, CachedMetricGetKeepsWhole DEF SubsOf

\* A collector that calls back turns one of its calls into a result, or ends
\* the request.
LEMMA GotMetricsKeepsWhole ==
    ASSUME TypeOK, RequestsWhole, NEW r \in Requests, NEW c \in req[r].current,
           NEW call \in req[r].calls, NEW instance, NEW outcome, NEW store,
           GotMetrics(r, c, call, instance, outcome, store)
    PROVE  RequestsWhole'
  <1> DEFINE old == req[r]
             datum == [zone |-> old.zone, instance |-> instance,
                       kind |-> IF outcome = "metrics" THEN "metrics" ELSE "empty"]
             result == [collector |-> c, sub |-> call.sub, datum |-> datum,
                        from |-> IF outcome = "error" THEN "failed" ELSE "collected"]
             emptyHanded == outcome \in {"empty", "notAvailable"} /\ c \notin EmptyOK
             q == IF emptyHanded
                  THEN [old EXCEPT !.calls = @ \ {call}, !.missing = TRUE]
                  ELSE [old EXCEPT !.calls = @ \ {call}, !.results = @ \cup {result}]
  <1>1. old \in Request /\ Whole(old) /\ old.calls # {}
    BY DEF TypeOK, RequestsWhole
  <1>2. old.pc = "run" /\ CallsFit(old) /\ Accounted(old)
    BY <1>1 DEF Whole, Underway
  <1>3. req' = [req EXCEPT ![r] = q]
    BY DEF GotMetrics, Collected
  <1>4. /\ q.pc = "run" /\ q.current = old.current /\ q.todo = old.todo
        /\ q.objs = old.objs /\ q.core = old.core /\ q.calls = old.calls \ {call}
        /\ q.named = old.named
        /\ \/ q.missing /\ q.results = old.results
           \/ q.missing = old.missing /\ q.results = old.results \cup {result}
    BY <1>1, <1>2 DEF Request
  <1>5. result.collector = c /\ result.sub = call.sub
    OBVIOUS
  <1> HIDE DEF q, result, emptyHanded
  <1>6. /\ old.current = {c} /\ c \in old.objs \ old.todo
        /\ \A a \in old.calls : a.sub \in SubsOf(c) /\ <<c, a.sub>> \in old.named
        /\ \A a, b \in old.calls : a.sub = b.sub => a = b
        /\ \A a \in old.calls, x \in old.results : x.collector = c => x.sub # a.sub
    BY <1>2 DEF CallsFit
  <1>7. \A x \in q.results : x \in old.results \/ x = result
    BY <1>4
  <1>8. Accounted(q)
    <2>1. \A x \in q.results : x.collector \in q.objs \ q.todo
      BY <1>2, <1>4, <1>5, <1>6, <1>7 DEF Accounted
    <2>2. ASSUME NEW x \in q.results, NEW y \in q.results,
                 x.collector = y.collector, x.sub = y.sub
          PROVE  x = y
      <3>1. CASE x \in old.results /\ y \in old.results
        BY <1>2, <2>2, <3>1 DEF Accounted
      <3>2. CASE x = result \/ y = result
        BY <1>5, <1>6, <1>7, <2>2, <3>2
      <3> QED  BY <1>7, <3>1, <3>2
    <2>3. \A x \in q.results : <<x.collector, x.sub>> \in q.named
      BY <1>2, <1>4, <1>5, <1>6, <1>7 DEF Accounted
    <2>4. ASSUME NEW x \in q.named
          PROVE  x[1] \notin q.todo /\ Served(q, x[1], x[2])
      <3>1. x[1] \notin old.todo /\ Served(old, x[1], x[2])
        BY <1>2, <1>4 DEF Accounted
      <3>2. CASE x[1] = c /\ x[2] = call.sub
        BY <1>4, <1>5, <3>1, <3>2 DEF Served
      <3>3. CASE ~(x[1] = c /\ x[2] = call.sub)
        BY <1>4, <1>6, <3>1, <3>3 DEF Served
      <3> QED  BY <3>2, <3>3
    <2> QED  BY <1>2, <1>4, <2>1, <2>2, <2>3, <2>4 DEF Accounted
  <1>9. CallsFit(q)
    <2>1. \A a \in q.calls : a \in old.calls /\ a.sub # call.sub
      BY <1>4, <1>6
    <2>2. \A a \in q.calls, x \in q.results : x.collector = c => x.sub # a.sub
      BY <1>5, <1>6, <1>7, <2>1
    <2> QED  BY <1>4, <1>6, <2>1, <2>2 DEF CallsFit
  <1>10. Whole(q)
    BY <1>4, <1>8, <1>9 DEF Whole
  <1> QED  BY <1>3, <1>10, WholeChanges

\* The steps at the end of a request leave its results alone.
LEMMA EndKeepsWhole ==
    ASSUME TypeOK, RequestsWhole, NEW r \in Requests,
           AfterCollection(r) \/ ConfirmSanity(r)
    PROVE  RequestsWhole'
  <1> DEFINE q == req'[r]
  <1>1. req[r] \in Request /\ Whole(req[r])
    BY DEF TypeOK, RequestsWhole
  <1>2. /\ req' = [req EXCEPT ![r] = q]
        /\ q.objs = req[r].objs /\ q.core = req[r].core /\ q.todo = req[r].todo
        /\ q.current = req[r].current /\ q.calls = req[r].calls
        /\ q.missing = req[r].missing /\ q.results = req[r].results
        /\ q.named = req[r].named
        /\ q.pc \in {"confirm", "replied"}
    BY <1>1 DEF AfterCollection, ConfirmSanity, Reply, TypeOK, Request
  <1>3. /\ Underway(req[r]) /\ req[r].calls = {}
        /\ req[r].todo = {} /\ ~req[r].missing
    BY <1>1 DEF AfterCollection, ConfirmSanity, Whole, Underway
  <1> HIDE DEF q
  <1>4. Accounted(q)
    BY <1>1, <1>2, <1>3 DEF Whole, Accounted, Served
  <1>5. Whole(q)
    BY <1>2, <1>3, <1>4 DEF Whole
  <1> QED  BY <1>2, <1>5, WholeChanges

LEMMA WholeKept ==
    ASSUME TypeOK, RequestsWhole, [Next]_vars
    PROVE  RequestsWhole'
  <1>1. CASE UNCHANGED req
    BY <1>1 DEF RequestsWhole
  <1>2. ASSUME NEW r \in Requests, NEW z \in Zones, NEW core \in CoreZoneStatus(z),
               GetMetrics(r, z, core)
        PROVE  RequestsWhole'
    <2> DEFINE q == req'[r]
    <2>1. req' = [req EXCEPT ![r] = q]
      BY <1>2 DEF GetMetrics, TypeOK
    <2>2. /\ q.calls = {} /\ q.results = {} /\ q.named = {} /\ ~q.missing
          /\ q.pc = "info" \/ (q.pc = "replied" /\ q.reply = "error")
      BY <1>2 DEF GetMetrics, TypeOK, NoRequest
    <2> HIDE DEF q
    <2>3. Whole(q)
      BY <2>2, NothingYet DEF Underway
    <2> QED  BY <2>1, <2>3, WholeChanges
  <1>3. ASSUME NEW r \in Requests, RequestStep(r) PROVE RequestsWhole'
    <2> DEFINE q == req'[r]
    <2>0. req[r] \in Request /\ Whole(req[r])
      BY DEF TypeOK, RequestsWhole
    <2>1. CASE Abort
      BY <1>1, <2>1 DEF Abort
    <2>2. CASE GetZoneInfo(r)
      <3>1. /\ req[r].calls = {} /\ req[r].results = {} /\ req[r].named = {}
            /\ ~req[r].missing
        BY <2>0, <2>2 DEF GetZoneInfo, Whole
      <3>2. /\ req' = [req EXCEPT ![r] = q] /\ q.calls = req[r].calls
            /\ q.results = req[r].results /\ q.missing = req[r].missing
            /\ q.named = req[r].named
            /\ q.pc = "filter" \/ (q.pc = "replied" /\ q.reply = "notFound")
        BY <2>0, <2>2 DEF GetZoneInfo, Reply, TypeOK, Request
      <3> HIDE DEF q
      <3> QED  BY <3>1, <3>2, NothingYet, WholeChanges DEF Underway
    <2>3. CASE FilterCollectors(r) /\ ~Abort
      BY <2>3, FilterKeepsWhole
    <2>4. ASSUME NEW c \in Collectors, RunCollector(r, c), ~Abort PROVE RequestsWhole'
      BY <2>4, RunCollectorKeepsWhole
    <2>5. CASE GotSubCollectors(r) /\ ~Abort
      BY <2>5, GotSubCollectorsKeepsWhole
    <2>6. CASE CollectorCallsBack(r)
      <3>1. PICK c \in req[r].current, call \in req[r].calls, outcome \in Outcomes :
              \E instance \in {call.instance, zones[req[r].zone].instance},
                 store \in Stores(c, outcome) :
                GotMetrics(r, c, call, instance, outcome, store)
        BY <2>6 DEF CollectorCallsBack
      <3> QED  BY <3>1, GotMetricsKeepsWhole
    <2>7. CASE OptionTTLRefused(r)
      BY <2>1, <2>7 DEF OptionTTLRefused
    <2>8. CASE CollectionFails(r)
      <3>1. /\ req' = [req EXCEPT ![r] = q] /\ q.calls = {}
            /\ q.pc = "replied" /\ q.reply = "notFound"
        BY <2>0, <2>8 DEF CollectionFails, Reply, TypeOK, Request
      <3> HIDE DEF q
      <3> QED  BY <3>1, NothingYet, WholeChanges DEF Underway
    <2>9. CASE AfterCollection(r) \/ ConfirmSanity(r)
      BY <2>9, EndKeepsWhole
    <2>10. CASE Done(r)
      <3>1. req' = [req EXCEPT ![r] = NoRequest]
        BY <2>10 DEF Done
      <3>2. NoRequest.calls = {} /\ NoRequest.pc = "idle"
        BY DEF NoRequest
      <3> QED  BY <3>1, <3>2, NothingYet, WholeChanges DEF Underway
    <2> QED
      BY <1>3, <2>1, <2>2, <2>3, <2>4, <2>5, <2>6, <2>7, <2>8, <2>9, <2>10
         DEF RequestStep
  <1>4. CASE Restart
    <2>1. \A r \in Requests : req'[r] = NoRequest
      BY <1>4 DEF Restart
    <2>2. NoRequest.calls = {} /\ NoRequest.pc = "idle"
      BY DEF NoRequest
    <2> QED  BY <2>1, <2>2, NothingYet DEF RequestsWhole, Underway
  <1>5. CASE \/ FileChanges \/ ReloadStep \/ Close
             \/ \E z \in Zones : ZoneStops(z) \/ ZoneStarts(z)
             \/ \E k \in CacheKeys : CacheExpires(k)
    BY <1>1, <1>5 DEF FileChanges, ReloadStep, ReloadStarts, RegisterCollectors,
          AfterRegistering, Close, ZoneStops, ZoneStarts, CacheExpires
  <1>6. CASE UNCHANGED vars
    BY <1>1, <1>6 DEF vars
  <1> QED  BY <1>2, <1>3, <1>4, <1>5, <1>6 DEF Next

LEMMA WholeHolds == Spec => []RequestsWhole
  <1>1. Init => RequestsWhole
    <2>1. NoRequest.calls = {} /\ NoRequest.pc = "idle"
      BY DEF NoRequest
    <2> QED  BY <2>1, NothingYet DEF Init, RequestsWhole, Underway
  <1>2. TypeOK /\ RequestsWhole /\ [Next]_vars => RequestsWhole'
    BY WholeKept
  <1> QED  BY <1>1, <1>2, TypeCorrect, PTL DEF Spec

\* However collectors and subCollectors fail, are ignored or served from the
\* cache, a reply has one result of each that was chosen or named for the zone
\* and none of another.
THEOREM RepliesAreComplete == Spec => []ReplyIsComplete
  <1>1. RequestsWhole => ReplyIsComplete
    <2> SUFFICES ASSUME RequestsWhole, NEW r \in Requests, Replied(r)
                 PROVE  /\ req[r].todo = {}
                        /\ \A c \in req[r].objs \ HasSubs : <<c, NoSub>> \in req[r].named
                        /\ \A x \in req[r].named : \E result \in req[r].results :
                             result.collector = x[1] /\ result.sub = x[2]
                        /\ \A result \in req[r].results :
                             /\ result.collector \in req[r].objs
                             /\ result.collector \in CoreZoneOnly => req[r].core
                             /\ <<result.collector, result.sub>> \in req[r].named
                        /\ \A x, y \in req[r].results :
                             x.collector = y.collector /\ x.sub = y.sub => x = y
      BY DEF ReplyIsComplete
    <2>1. /\ Accounted(req[r]) /\ req[r].todo = {}
          /\ ~req[r].missing /\ req[r].calls = {}
      BY DEF RequestsWhole, Whole, Underway, Replied
    <2> QED  BY <2>1 DEF Accounted, Served
  <1> QED  BY <1>1, WholeHolds, PTL

-----------------------------------------------------------------------------
(* Failures are bounded.                                                   *)

\* The calls of c that the requests can have under way together.
AtMost(c) == Cardinality(Requests \X SubsOf(c))

Bounded(c) == failures[c] + Cardinality(InFlight(c)) < MAX_FAILS + AtMost(c)

AllBounded == \A c \in Collectors : Bounded(c)

LEMMA AtMostIs ==
    ASSUME NEW c
    PROVE  /\ AtMost(c) \in Nat
           /\ IsFiniteSet(Requests \X SubsOf(c))
           /\ AtMost(c) = Cardinality(Requests) *
                            (IF c \in HasSubs THEN Cardinality(Subs) ELSE 1)
  <1>1. /\ IsFiniteSet(SubsOf(c))
        /\ Cardinality(SubsOf(c)) = IF c \in HasSubs THEN Cardinality(Subs) ELSE 1
    BY FS_Singleton DEF SubsOf
  <1>2. /\ IsFiniteSet(Requests \X SubsOf(c))
        /\ AtMost(c) = Cardinality(Requests) * Cardinality(SubsOf(c))
    BY <1>1, FS_Product DEF AtMost
  <1>3. AtMost(c) \in Nat
    BY <1>2, FS_CardinalityType DEF AtMost
  <1> QED  BY <1>1, <1>2, <1>3

AllFit ==
    \A c \in Collectors :
      IsFiniteSet(InFlight(c)) /\ Cardinality(InFlight(c)) <= AtMost(c)

\* A request makes at most one call of a collector for each name, so the calls
\* under way are no more than the pairs of a request and a name.
LEMMA InFlightFits == TypeOK /\ RequestsWhole => AllFit
  <1> SUFFICES ASSUME TypeOK, RequestsWhole, NEW c \in Collectors
               PROVE  /\ IsFiniteSet(InFlight(c))
                      /\ Cardinality(InFlight(c)) <= AtMost(c)
    BY DEF AllFit
  <1> DEFINE F == InFlight(c)
             T == Requests \X SubsOf(c)
             f == [x \in F |-> <<x[1], x[2].sub>>]
  <1>1. ASSUME NEW x \in F
        PROVE  /\ x[1] \in Requests /\ x = <<x[1], x[2]>>
               /\ c \in req[x[1]].current /\ x[2] \in req[x[1]].calls
    BY DEF InFlight
  <1>2. ASSUME NEW x \in F
        PROVE  /\ req[x[1]].current = {c} /\ CallsFit(req[x[1]])
               /\ x[2].sub \in SubsOf(c)
    <2>1. CallsFit(req[x[1]])
      BY <1>1 DEF RequestsWhole, Whole
    <2> QED  BY <1>1, <2>1 DEF CallsFit
  <1>3. f \in [F -> T]
    BY <1>1, <1>2
  <1>4. ASSUME NEW x \in F, NEW y \in F, f[x] = f[y] PROVE x = y
    <2>1. x[1] = y[1] /\ x[2].sub = y[2].sub
      BY <1>4
    <2>2. x[2] = y[2]
      BY <1>1, <1>2, <2>1 DEF CallsFit
    <2> QED  BY <1>1, <2>1, <2>2
  <1>5. f \in Injection(F, T)
    BY <1>3, <1>4 DEF Injection, IsInjective
  <1> HIDE DEF f
  <1>6. IsFiniteSet(F) /\ Cardinality(F) <= Cardinality(T)
    BY <1>5, AtMostIs, FS_Injection
  <1> QED  BY <1>6 DEF AtMost

\* What a step may do to the count of c and to its calls under way: make calls
\* below the limit only, and count a failure for a call that came back.
CountStep(c) ==
    \/ failures'[c] = failures[c] /\ InFlight(c)' \subseteq InFlight(c)
    \/ failures'[c] = failures[c] /\ failures[c] < MAX_FAILS
    \/ /\ failures'[c] <= failures[c] + 1
       /\ \E x \in InFlight(c) : InFlight(c)' \subseteq InFlight(c) \ {x}
    \/ failures'[c] = 0

LEMMA CountStepKeepsBound ==
    ASSUME TypeOK, TypeOK', RequestsWhole, RequestsWhole', NEW c \in Collectors,
           Bounded(c), CountStep(c)
    PROVE  Bounded(c)'
  <1> DEFINE F == InFlight(c)
             G == InFlight(c)'
  <1>1. failures[c] \in Nat /\ failures'[c] \in Nat
    BY DEF TypeOK
  <1>2. IsFiniteSet(F) /\ Cardinality(F) \in Nat
    BY InFlightFits, FS_CardinalityType DEF AllFit
  <1>3. Cardinality(G) \in Nat /\ Cardinality(G) <= AtMost(c)
    <2>1. AllFit'
      BY InFlightFits, PTL
    <2> QED  BY <2>1, FS_CardinalityType DEF AllFit, AtMost, SubsOf
  <1>4. AtMost(c) \in Nat /\ failures[c] + Cardinality(F) < MAX_FAILS + AtMost(c)
    BY AtMostIs DEF Bounded
  <1> SUFFICES failures'[c] + Cardinality(G) < MAX_FAILS + AtMost(c)
    BY DEF Bounded, AtMost, SubsOf
  <1> HIDE DEF F, G
  <1>5. CASE failures'[c] = failures[c] /\ G \subseteq F
    <2>1. Cardinality(G) <= Cardinality(F)
      BY <1>2, <1>5, FS_Subset
    <2> QED  BY <1>1, <1>2, <1>3, <1>4, <1>5, <2>1
  <1>6. CASE failures'[c] = failures[c] /\ failures[c] < MAX_FAILS
    BY <1>1, <1>3, <1>4, <1>6
  <1>7. ASSUME NEW x \in F, G \subseteq F \ {x}, failures'[c] <= failures[c] + 1
        PROVE  failures'[c] + Cardinality(G) < MAX_FAILS + AtMost(c)
    <2>1. IsFiniteSet(F \ {x}) /\ Cardinality(F \ {x}) = Cardinality(F) - 1
      BY <1>2, FS_RemoveElement
    <2>2. Cardinality(G) <= Cardinality(F) - 1
      BY <1>7, <2>1, FS_Subset
    <2> QED  BY <1>1, <1>2, <1>3, <1>4, <1>7, <2>2
  <1>8. CASE failures'[c] = 0
    BY <1>1, <1>3, <1>4, <1>8
  <1> QED  BY <1>5, <1>6, <1>7, <1>8 DEF CountStep, F, G

\* A step that changes the request r only, and begins no call of c.
LEMMA InFlightKept ==
    ASSUME TypeOK, NEW c \in Collectors, NEW r \in Requests, NEW q,
           req' = [req EXCEPT ![r] = q],
           c \in q.current =>
             q.calls = {} \/ (c \in req[r].current /\ q.calls \subseteq req[r].calls)
    PROVE  InFlight(c)' \subseteq InFlight(c)
  <1>1. ASSUME NEW s \in Requests, c \in req'[s].current, NEW call \in req'[s].calls
        PROVE  c \in req[s].current /\ call \in req[s].calls
    BY <1>1 DEF TypeOK
  <1> QED  BY <1>1 DEF InFlight

LEMMA MetricGetCounts ==
    ASSUME TypeOK, NEW c \in Collectors, NEW r \in Requests, NEW d \in Collectors,
           NEW subs, CachedMetricGet(r, d, subs), UNCHANGED failures
    PROVE  CountStep(c)
  <1>1. req[r] \in Request
    BY DEF TypeOK
  <1>2. req'[r].current = {d} /\ req' = [req EXCEPT ![r] = req'[r]]
    BY <1>1 DEF CachedMetricGet, TypeOK, Request
  <1>3. CASE c = d /\ ~Ignored(d)
    BY <1>3 DEF CountStep, Ignored, TypeOK
  <1>4. CASE c = d /\ Ignored(d)
    <2>1. req'[r].calls = {}
      BY <1>1, <1>4 DEF CachedMetricGet, TypeOK, Request
    <2> QED  BY <1>2, <2>1, InFlightKept DEF CountStep
  <1>5. CASE c # d
    BY <1>2, <1>5, InFlightKept DEF CountStep
  <1> QED  BY <1>3, <1>4, <1>5

LEMMA CallbackCounts ==
    ASSUME TypeOK, RequestsWhole, NEW c \in Collectors, NEW r \in Requests,
           NEW d \in req[r].current, NEW call \in req[r].calls,
           NEW instance, NEW outcome \in Outcomes, NEW store,
           GotMetrics(r, d, call, instance, outcome, store)
    PROVE  CountStep(c)
  <1> DEFINE q == req'[r]
  <1>1. req[r] \in Request /\ d \in Collectors
    BY DEF TypeOK, Request
  <1>2. /\ req' = [req EXCEPT ![r] = q]
        /\ q.current = req[r].current /\ q.calls = req[r].calls \ {call}
    BY <1>1 DEF GotMetrics, TypeOK, Request
  <1> HIDE DEF q
  <1>3. InFlight(c)' \subseteq InFlight(c)
    BY <1>2, InFlightKept
  <1>4. CASE c # d
    <2>1. failures'[c] = failures[c]
      BY <1>4 DEF GotMetrics, TypeOK
    <2> QED  BY <1>3, <2>1 DEF CountStep
  <1>5. CASE c = d
    <2>1. failures'[c] = FailuresAfter(c, outcome)
      BY <1>5 DEF GotMetrics, TypeOK
    <2>2. failures[c] \in Nat
      BY DEF TypeOK
    <2>3. failures'[c] <= failures[c] + 1
      BY <2>1, <2>2 DEF FailuresAfter, Outcomes
    <2>4. <<r, call>> \in InFlight(c)
      BY <1>1, <1>5 DEF InFlight, Request
    <2>5. <<r, call>> \notin InFlight(c)'
      BY <1>2 DEF InFlight, TypeOK
    <2>6. InFlight(c)' \subseteq InFlight(c) \ {<<r, call>>}
      BY <1>3, <2>5
    <2> QED  BY <2>3, <2>4, <2>6 DEF CountStep
  <1> QED  BY <1>4, <1>5

LEMMA StepCounts ==
    ASSUME TypeOK, RequestsWhole, [Next]_vars, NEW c \in Collectors
    PROVE  CountStep(c)
  <1>1. CASE UNCHANGED <<req, failures>>
    BY <1>1 DEF CountStep, InFlight
  <1>2. ASSUME NEW r \in Requests, NEW z \in Zones, NEW core \in CoreZoneStatus(z),
               GetMetrics(r, z, core)
        PROVE  CountStep(c)
    <2>1. req'[r].calls = {} /\ req' = [req EXCEPT ![r] = req'[r]]
      BY <1>2 DEF GetMetrics, TypeOK, NoRequest
    <2> QED  BY <1>2, <2>1, InFlightKept DEF CountStep, GetMetrics
  <1>3. ASSUME NEW r \in Requests, RequestStep(r) PROVE CountStep(c)
    <2>0. req[r] \in Request
      BY DEF TypeOK
    <2>1. CASE Abort
      BY <1>1, <2>1 DEF Abort
    <2>2. ASSUME NEW d \in Collectors, RunCollector(r, d), ~Abort PROVE CountStep(c)
      <3>1. CASE d \in HasSubs
        <4>1. /\ req'[r].calls = {} /\ req' = [req EXCEPT ![r] = req'[r]]
              /\ failures'[c] = failures[c]
          BY <2>0, <2>2, <3>1 DEF RunCollector, OnlyRequest, TypeOK, Request
        <4> QED  BY <4>1, InFlightKept DEF CountStep
      <3>2. CASE d \notin HasSubs
        BY <2>2, <3>2, MetricGetCounts DEF RunCollector, OnlyRequest
      <3> QED  BY <3>1, <3>2
    <2>3. CASE GotSubCollectors(r) /\ ~Abort
      <3>1. PICK d \in req[r].current, subs \in SUBSET Subs : CachedMetricGet(r, d, subs)
        BY <2>3 DEF GotSubCollectors
      <3>2. d \in Collectors
        BY <2>0 DEF Request
      <3> QED  BY <2>3, <3>1, <3>2, MetricGetCounts DEF GotSubCollectors, OnlyRequest
    <2>4. CASE CollectorCallsBack(r)
      <3>1. PICK d \in req[r].current, call \in req[r].calls, outcome \in Outcomes :
              \E instance \in {call.instance, zones[req[r].zone].instance},
                 store \in Stores(d, outcome) :
                GotMetrics(r, d, call, instance, outcome, store)
        BY <2>4 DEF CollectorCallsBack
      <3> QED  BY <3>1, CallbackCounts
    <2>5. CASE \/ GetZoneInfo(r) \/ (FilterCollectors(r) /\ ~Abort)
               \/ CollectionFails(r) \/ AfterCollection(r) \/ ConfirmSanity(r)
      <3>1. /\ req' = [req EXCEPT ![r] = req'[r]]
            /\ req'[r].current = req[r].current /\ req'[r].calls = req[r].calls
        BY <2>0, <2>5 DEF GetZoneInfo, FilterCollectors, CollectionFails,
              AfterCollection, ConfirmSanity, Reply, TypeOK, Request
      <3>2. failures'[c] = failures[c]
        BY <2>5 DEF GetZoneInfo, FilterCollectors, CollectionFails, AfterCollection,
                    ConfirmSanity, OnlyRequest
      <3> QED  BY <3>1, <3>2, InFlightKept DEF CountStep
    <2>6. CASE OptionTTLRefused(r)
      BY <2>1, <2>6 DEF OptionTTLRefused
    <2>7. CASE Done(r)
      <3>1. req' = [req EXCEPT ![r] = NoRequest] /\ NoRequest.calls = {}
        BY <2>7 DEF Done, NoRequest
      <3> QED  BY <2>7, <3>1, InFlightKept DEF CountStep, Done
    <2> QED
      BY <1>3, <2>1, <2>2, <2>3, <2>4, <2>5, <2>6, <2>7 DEF RequestStep
  <1>4. CASE Restart
    BY <1>4 DEF Restart, CountStep
  <1>5. CASE \/ FileChanges \/ ReloadStep \/ Close
             \/ \E z \in Zones : ZoneStops(z) \/ ZoneStarts(z)
             \/ \E k \in CacheKeys : CacheExpires(k)
    BY <1>1, <1>5 DEF FileChanges, ReloadStep, ReloadStarts, RegisterCollectors,
          AfterRegistering, Close, ZoneStops, ZoneStarts, CacheExpires
  <1>6. CASE UNCHANGED vars
    BY <1>1, <1>6 DEF vars
  <1> QED  BY <1>2, <1>3, <1>4, <1>5, <1>6 DEF Next

\* However many requests fail together, a count of failures exceeds MAX_FAILS
\* by no more than the calls that were under way when it was reached.
THEOREM FailuresAreBounded == Spec => []FailuresBounded
  <1>1. Init => AllBounded
    <2> SUFFICES ASSUME Init, NEW c \in Collectors PROVE Bounded(c)
      BY DEF AllBounded
    <2>1. InFlight(c) = {}
      BY DEF Init, InFlight, NoRequest
    <2>2. failures[c] = 0 /\ Cardinality(InFlight(c)) = 0
      BY <2>1, FS_EmptySet DEF Init
    <2>3. AtMost(c) \in Nat /\ MAX_FAILS \in Nat \ {0}
      BY AtMostIs
    <2> QED  BY <2>2, <2>3 DEF Bounded
  <1>2. ASSUME TypeOK, TypeOK', RequestsWhole, RequestsWhole', AllBounded, [Next]_vars
        PROVE  AllBounded'
    <2>1. ASSUME NEW c \in Collectors PROVE Bounded(c)'
      BY <1>2, <2>1, StepCounts, CountStepKeepsBound DEF AllBounded
    <2> QED  BY <2>1 DEF AllBounded
  <1>3. AllBounded => FailuresBounded
    BY AtMostIs DEF AllBounded, Bounded, FailuresBounded
  <1> QED  BY <1>1, <1>2, <1>3, TypeCorrect, WholeHolds, PTL DEF Spec

-----------------------------------------------------------------------------
(* A request gets nearer its answer.                                       *)

\* What NeverSetBack says of a request that had the value p.
NotBack(q, p) ==
    \/ q = p
    \/ Nearer(q, p) /\ q.zone = p.zone /\ q.core = p.core

\* A step of the request itself that leaves the process alive.
LEMMA NearerAfterStep ==
    ASSUME TypeOK, RequestsWhole, NEW r \in Requests, RequestStep(r), ~Abort,
           req[r].pc \notin {"idle", "replied"}
    PROVE  NotBack(req'[r], req[r])
  <1> DEFINE p == req[r]
             q == req'[r]
  <1>1. p \in Request /\ Whole(p)
    BY DEF TypeOK, RequestsWhole
  <1>2. CASE GetZoneInfo(r)
    <2>1. /\ p.pc = "info" /\ q.pc \in {"filter", "replied"}
          /\ q.zone = p.zone /\ q.core = p.core
      BY <1>1, <1>2 DEF GetZoneInfo, Reply, TypeOK, Request
    <2> QED  BY <2>1 DEF NotBack, Nearer, PartsLeft
  <1>3. CASE FilterCollectors(r)
    <2>1. p.pc = "filter" /\ q.pc = "run" /\ q.zone = p.zone /\ q.core = p.core
      BY <1>1, <1>3 DEF FilterCollectors, TypeOK, Request
    <2> QED  BY <2>1 DEF NotBack, Nearer, PartsLeft
  <1>4. ASSUME NEW c \in p.todo, NEW subs, p.pc \in {"run", "subs"},
               CachedMetricGet(r, c, subs)
        PROVE  NotBack(q, p)
    <2>1. /\ q.pc = "run" /\ q.todo = p.todo \ {c}
          /\ q.zone = p.zone /\ q.core = p.core
      BY <1>1, <1>4 DEF CachedMetricGet, TypeOK, Request
    <2> QED  BY <1>4, <2>1 DEF NotBack, Nearer, PartsLeft, Fewer
  <1>5. ASSUME NEW c \in Collectors, RunCollector(r, c)
        PROVE  NotBack(q, p)
    <2>1. p.pc = "run" /\ c \in p.todo
      BY <1>5 DEF RunCollector
    <2>2. CASE c \in HasSubs
      <3>1. req' = [req EXCEPT ![r].pc = "subs", ![r].current = {c}]
        BY <1>5, <2>2 DEF RunCollector
      <3>2. /\ q.pc = "subs" /\ q.todo = p.todo
            /\ q.zone = p.zone /\ q.core = p.core
        BY <1>1, <3>1 DEF TypeOK, Request
      <3> QED  BY <2>1, <3>2 DEF NotBack, Nearer, PartsLeft
    <2>3. CASE c \notin HasSubs
      <3>1. CachedMetricGet(r, c, {NoSub})
        BY <1>5, <2>3 DEF RunCollector
      <3> QED  BY <1>4, <2>1, <3>1
    <2> QED  BY <2>2, <2>3
  <1>6. CASE GotSubCollectors(r)
    <2>1. PICK c \in p.current, subs \in SUBSET Subs : CachedMetricGet(r, c, subs)
      BY <1>6 DEF GotSubCollectors
    <2>2. p.pc = "subs" /\ c \in p.todo
      BY <1>1, <1>6 DEF GotSubCollectors, Whole
    <2> QED  BY <1>4, <2>1, <2>2
  <1>7. CASE CollectorCallsBack(r)
    <2>1. PICK c \in p.current, call \in p.calls, outcome \in Outcomes :
            \E instance \in {call.instance, zones[p.zone].instance},
               store \in Stores(c, outcome) :
              GotMetrics(r, c, call, instance, outcome, store)
      BY <1>7 DEF CollectorCallsBack
    <2>2. /\ q.pc = p.pc /\ q.todo = p.todo /\ q.calls = p.calls \ {call}
          /\ q.zone = p.zone /\ q.core = p.core
      BY <1>1, <2>1 DEF GotMetrics, TypeOK, Request
    <2> QED  BY <2>2 DEF NotBack, Nearer, Fewer
  <1>8. CASE CollectionFails(r) \/ AfterCollection(r)
    <2>1. /\ p.pc = "run" /\ q.pc \in {"confirm", "replied"}
          /\ q.zone = p.zone /\ q.core = p.core
      BY <1>1, <1>8 DEF CollectionFails, AfterCollection, Reply, TypeOK, Request
    <2> QED  BY <2>1 DEF NotBack, Nearer, PartsLeft
  <1>9. CASE ConfirmSanity(r)
    <2>1. p.pc = "confirm" /\ q.pc = "replied" /\ q.zone = p.zone /\ q.core = p.core
      BY <1>1, <1>9 DEF ConfirmSanity, Reply, TypeOK, Request
    <2> QED  BY <2>1 DEF NotBack, Nearer, PartsLeft
  <1> QED
    BY <1>2, <1>3, <1>5, <1>6, <1>7, <1>8, <1>9
       DEF RequestStep, OptionTTLRefused, Done

\* Only its own steps, and the end of its connection, change a request.
LEMMA OthersLeaveRequest ==
    ASSUME TypeOK, NEW r \in Requests, NEW s \in Requests \ {r}, RequestStep(s), ~Abort
    PROVE  req'[r] = req[r]
  <1>1. CASE GetZoneInfo(s) \/ CollectionFails(s) \/ AfterCollection(s)
             \/ ConfirmSanity(s) \/ Done(s) \/ FilterCollectors(s)
    BY <1>1 DEF TypeOK, GetZoneInfo, CollectionFails, AfterCollection, ConfirmSanity,
          Done, FilterCollectors, Reply
  <1>2. ASSUME NEW c, NEW subs, CachedMetricGet(s, c, subs)
        PROVE  req'[r] = req[r]
    BY <1>2 DEF TypeOK, CachedMetricGet
  <1>3. ASSUME NEW c \in Collectors, RunCollector(s, c)
        PROVE  req'[r] = req[r]
    BY <1>2, <1>3 DEF TypeOK, RunCollector
  <1>4. CASE GotSubCollectors(s)
    BY <1>2, <1>4 DEF GotSubCollectors
  <1>5. CASE CollectorCallsBack(s)
    <2>1. PICK c \in req[s].current, call \in req[s].calls, outcome \in Outcomes :
            \E instance \in {call.instance, zones[req[s].zone].instance},
               store \in Stores(c, outcome) :
              GotMetrics(s, c, call, instance, outcome, store)
      BY <1>5 DEF CollectorCallsBack
    <2> QED  BY <2>1 DEF TypeOK, GotMetrics
  <1> QED
    BY <1>1, <1>3, <1>4, <1>5 DEF RequestStep, OptionTTLRefused

\* Every step of every request takes it nearer its answer, and nothing else
\* touches it: with finitely many collectors and subCollectors a request takes
\* finitely many steps.
THEOREM RequestsAreNeverSetBack == Spec => NeverSetBack
  <1>1. ASSUME TypeOK, RequestsWhole, [Next]_vars, server = "listening",
               NEW r \in Requests, req[r].pc \notin {"idle", "replied"}
        PROVE  NotBack(req'[r], req[r])
    <2>1. CASE UNCHANGED req
      BY <2>1 DEF NotBack
    <2>2. CASE Abort
      BY <2>1, <2>2 DEF Abort
    <2>3. ASSUME NEW s \in Requests, NEW z \in Zones, NEW core \in CoreZoneStatus(z),
                 GetMetrics(s, z, core)
          PROVE  NotBack(req'[r], req[r])
      <3>1. r # s
        BY <1>1, <2>3 DEF GetMetrics
      <3>2. req'[r] = req[r]
        BY <1>1, <2>3, <3>1 DEF GetMetrics, TypeOK
      <3> QED  BY <3>2 DEF NotBack
    <2>4. ASSUME NEW s \in Requests, RequestStep(s), ~Abort
          PROVE  NotBack(req'[r], req[r])
      <3>1. CASE s = r
        BY <1>1, <2>4, <3>1, NearerAfterStep
      <3>2. CASE s # r
        BY <1>1, <2>4, <3>2, OthersLeaveRequest DEF NotBack
      <3> QED  BY <3>1, <3>2
    <2>5. CASE Restart
      BY <1>1, <2>5 DEF Restart
    <2>6. CASE \/ FileChanges \/ ReloadStep \/ Close
               \/ \E z \in Zones : ZoneStops(z) \/ ZoneStarts(z)
               \/ \E k \in CacheKeys : CacheExpires(k)
      BY <2>1, <2>6 DEF FileChanges, ReloadStep, ReloadStarts, RegisterCollectors,
            AfterRegistering, Close, ZoneStops, ZoneStarts, CacheExpires
    <2>7. CASE UNCHANGED vars
      BY <2>1, <2>7 DEF vars
    <2> QED  BY <1>1, <2>2, <2>3, <2>4, <2>5, <2>6, <2>7 DEF Next
  <1>2. TypeOK /\ RequestsWhole /\ [Next]_vars =>
          (server = "listening" =>
             \A r \in Requests : req[r].pc \notin {"idle", "replied"} =>
               \/ req'[r] = req[r]
               \/ /\ Nearer(req'[r], req[r])
                  /\ req'[r].zone = req[r].zone /\ req'[r].core = req[r].core)
    BY <1>1 DEF NotBack
  <1> QED  BY <1>2, TypeCorrect, WholeHolds, PTL DEF Spec, NeverSetBack
=============================================================================
