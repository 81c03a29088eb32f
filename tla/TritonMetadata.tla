--------------------------- MODULE TritonMetadata ---------------------------
(***************************************************************************)
(* lib/instrumenter/lib/triton-metrics.js, with the two callers it has:    *)
(* the endpoint, which asks whether a zone is a core zone when the request *)
(* does not say so in a header, and the triton_core collector, which runs  *)
(* for core zones and scrapes the metric ports the metadata names.  Both   *)
(* go through one cache entry per zone.                                    *)
(*                                                                         *)
(* A definition marked "slip" is no part of the specification: it is the   *)
(* definition after it with a plausible programming mistake.               *)
(***************************************************************************)
EXTENDS Integers, FiniteSets

CONSTANTS
    VMs,
    AdminZones,    \* owned by the admin user
    RoleZones,     \* tagged smartdc_role, which a customer can do as well
    EmptyRoleZones,\* whose tag smartdc_role is the empty string
    MantaZones,    \* core zones without that tag, which only the header tells
    Ports,
    NoPorts,       \* no admin nic or no metricPorts in the metadata
    BadPorts,      \* metricPorts that are no integers
    NoEntry,       \* the cache holds no live metadata of the zone
    Requests

ASSUME TritonAssumption ==
    /\ VMs # {}
    /\ MantaZones \subseteq AdminZones \ RoleZones
    /\ AdminZones \cup RoleZones \cup EmptyRoleZones \subseteq VMs
    /\ RoleZones \cap EmptyRoleZones = {}
    /\ NoPorts # BadPorts

VARIABLES
    metricPorts,   \* what vmadm knows of each zone's ports
    cache,         \* the entries under 'triton-metrics/<uuid>'
    req

vars == <<metricPorts, cache, req>>

TritonZones == AdminZones \cap RoleZones

CoreZones == TritonZones \cup MantaZones

\* The metricPorts of a zone: the ports, or what cannot be used.
PortLists == (SUBSET Ports \ {{}}) \cup {NoPorts, BadPorts}

Info == [isCoreZone : BOOLEAN, metricPorts : PortLists]

\* "other": the reply has no triton_core metrics, the collector did not run.
Outcomes == {"none", "other", "empty", "metrics", "notAvailable", "error"}

\* What x-joyent-cmon-opts says; it is absent from cmon before 1.6.0.
Headers == {"core", "notCore", "unparsable", "absent"}

Request ==
    [pc : {"idle", "endpoint", "vmadmOfEndpoint", "collector",
           "vmadmOfCollector", "scraping", "answered"},
     vm : VMs, header : Headers, isCoreZone : BOOLEAN,
     info : Info \cup {NoEntry}, pending : SUBSET Ports, successes : SUBSET Ports,
     outcome : Outcomes]

NoRequest ==
    [pc |-> "idle", vm |-> CHOOSE vm \in VMs : TRUE, header |-> "absent",
     isCoreZone |-> FALSE, info |-> NoEntry, pending |-> {}, successes |-> {},
     outcome |-> "none"]

Init ==
    /\ metricPorts \in [VMs -> PortLists]
    /\ cache = [vm \in VMs |-> NoEntry]
    /\ req = [r \in Requests |-> NoRequest]

-----------------------------------------------------------------------------
(* Around the agent.                                                       *)

MetadataChanges(vm) ==
    /\ metricPorts' \in {[metricPorts EXCEPT ![vm] = p] : p \in PortLists \ {metricPorts[vm]}}
    /\ UNCHANGED <<cache, req>>

\* CACHE_TTL seconds have passed.
CacheExpires(vm) ==
    /\ cache[vm] # NoEntry
    /\ cache' = [cache EXCEPT ![vm] = NoEntry]
    /\ UNCHANGED <<metricPorts, req>>

\* cmon sends requests; from 1.6.0 on it knows the core zones and says so.
Receive(r, vm, header) ==
    /\ req[r].pc = "idle"
    /\ header \in {IF vm \in CoreZones THEN "core" ELSE "notCore", "unparsable", "absent"}
    /\ req' = [req EXCEPT ![r] = [NoRequest EXCEPT !.pc = "endpoint", !.vm = vm,
                                                   !.header = header]]
    /\ UNCHANGED <<metricPorts, cache>>

Done(r) ==
    /\ req[r].pc = "answered"
    /\ req' = [req EXCEPT ![r] = NoRequest]
    /\ UNCHANGED <<metricPorts, cache>>

-----------------------------------------------------------------------------
(* getVmInfo and getTritonMetadata.                                        *)

RoleOnly(vm) == vm \in RoleZones                                     \* slip
ManualCheck(vm) == vm \in RoleZones /\ vm \in AdminZones

VmInfoWithPorts(vm, coreZoneConfirmed) ==                            \* slip
    [isCoreZone  |-> coreZoneConfirmed \/ ManualCheck(vm),
     metricPorts |-> metricPorts[vm]]

\* What a load of the zone's data yields.  Only a core zone's has the ports.
VmInfo(vm, coreZoneConfirmed) ==
    LET isCore == coreZoneConfirmed \/ ManualCheck(vm)
    IN  [isCoreZone  |-> isCore,
         metricPorts |-> IF isCore THEN metricPorts[vm] ELSE NoPorts]

\* The callers' ways on, with the metadata or without.
EndpointKnows(r, isCore) ==
    req' = [req EXCEPT ![r].pc = "collector", ![r].isCoreZone = isCore]

\* With the answer, all else that is local to the request is forgotten.
Answers(r, outcome) ==
    req' = [req EXCEPT ![r] = [NoRequest EXCEPT !.pc = "answered", !.outcome = outcome]]

Fails(r) == Answers(r, "error")

GotMetadataUnchecked(r, info) ==                                     \* slip
    IF info.metricPorts = BadPorts THEN Fails(r)
    ELSE req' = [req EXCEPT ![r].pc = "scraping", ![r].info = info,
                            ![r].pending = info.metricPorts]

\* getTritonMetrics has the metadata: the ports are checked before the first
\* of them is scraped.
GotMetadata(r, info) ==
    CASE info.metricPorts = NoPorts  -> Answers(r, "empty")
      [] info.metricPorts = BadPorts -> Fails(r)
      [] OTHER -> req' = [req EXCEPT ![r].pc = "scraping", ![r].info = info,
                                     ![r].pending = info.metricPorts]

-----------------------------------------------------------------------------
(* A request.                                                              *)

\* getCoreZoneStatus.
Endpoint(r) ==
    LET vm == req[r].vm
    IN  /\ req[r].pc = "endpoint"
        /\ CASE req[r].header \in {"core", "notCore"} ->
                  EndpointKnows(r, req[r].header = "core")
             [] req[r].header = "unparsable" -> Fails(r)
             [] req[r].header = "absent" /\ cache[vm] # NoEntry ->
                  EndpointKnows(r, cache[vm].isCoreZone)
             [] OTHER -> req' = [req EXCEPT ![r].pc = "vmadmOfEndpoint"]
        /\ UNCHANGED <<metricPorts, cache>>

\* vmadm answers the endpoint.
EndpointGotVm(r) ==
    LET info == VmInfo(req[r].vm, FALSE)
    IN  /\ req[r].pc = "vmadmOfEndpoint"
        /\ \/ Fails(r) /\ UNCHANGED cache
           \/ /\ req[r].vm \notin EmptyRoleZones
              /\ EndpointKnows(r, info.isCoreZone)
              /\ cache' = [cache EXCEPT ![req[r].vm] = info]
        /\ UNCHANGED metricPorts

\* Of an empty tag getVmInfo makes an isCoreZone that is no bool but the empty
\* string, which fails an assertion of getMetrics.  Nothing catches it: the
\* process ends, and starts again with no requests and nothing cached.
EmptyRoleAborts(r) ==
    /\ req[r].pc = "vmadmOfEndpoint"
    /\ req[r].vm \in EmptyRoleZones
    /\ cache' = [vm \in VMs |-> NoEntry]
    /\ req' = [s \in Requests |-> NoRequest]
    /\ UNCHANGED metricPorts

AnyZone(r) == TRUE                                                   \* slip
\* coreZoneOnly.
CollectorRuns(r) == req[r].isCoreZone

\* The triton_core collector, for which the zone is a confirmed core zone.
\* (Its own result is cached by the master collector: see Collector.)
TritonCore(r) ==
    LET vm == req[r].vm
    IN  /\ req[r].pc = "collector"
        /\ IF ~CollectorRuns(r) THEN Answers(r, "other")
           ELSE IF cache[vm] # NoEntry THEN GotMetadata(r, cache[vm])
           ELSE req' = [req EXCEPT ![r].pc = "vmadmOfCollector"]
        /\ UNCHANGED <<metricPorts, cache>>

\* vmadm answers the collector.
CollectorGotVm(r) ==
    LET info == VmInfo(req[r].vm, TRUE)
    IN  /\ req[r].pc = "vmadmOfCollector"
        /\ \/ Fails(r) /\ UNCHANGED cache
           \/ /\ GotMetadata(r, info)
              /\ cache' = [cache EXCEPT ![req[r].vm] = info]
        /\ UNCHANGED metricPorts

\* A port's metrics have come, or its request has failed; none is repeated.
PortAnswers(r, port, ok) ==
    /\ req[r].pc = "scraping"
    /\ port \in req[r].pending
    /\ req' = [req EXCEPT ![r].pending = @ \ {port},
                          ![r].successes = IF ok THEN @ \cup {port} ELSE @]
    /\ UNCHANGED <<metricPorts, cache>>

\* One port that has answered is enough; but all the answers are parsed as one
\* text, and what cannot be parsed is an error.
ScrapeOutcomes(r) ==
    IF req[r].successes = {} THEN {"notAvailable"} ELSE {"metrics", "empty", "error"}

GotAllMetrics(r) ==
    /\ req[r].pc = "scraping"
    /\ req[r].pending = {}
    /\ \E outcome \in ScrapeOutcomes(r) : Answers(r, outcome)
    /\ UNCHANGED <<metricPorts, cache>>

RequestStep(r) ==
    \/ Endpoint(r)
    \/ EndpointGotVm(r)
    \/ EmptyRoleAborts(r)
    \/ TritonCore(r)
    \/ CollectorGotVm(r)
    \/ \E port \in Ports, ok \in BOOLEAN : PortAnswers(r, port, ok)
    \/ GotAllMetrics(r)
    \/ Done(r)

Next ==
    \/ \E vm \in VMs : MetadataChanges(vm) \/ CacheExpires(vm)
    \/ \E r \in Requests, vm \in VMs, header \in Headers :
         Receive(r, vm, header)
    \/ \E r \in Requests : RequestStep(r)

Spec == Init /\ [][Next]_vars

-----------------------------------------------------------------------------
(* Properties                                                              *)

\* Types of the variables.  What is scraped are ports.
TypeOK ==
    /\ \A r \in Requests :
         req[r].pc = "scraping" => req[r].info.metricPorts \notin {NoPorts, BadPorts}
    /\ metricPorts \in [VMs -> PortLists]
    /\ cache \in [VMs -> Info \cup {NoEntry}]
    /\ req \in [Requests -> Request]

\* No port of a zone that is not a core zone is ever connected to, whoever has
\* filled the cache and with what, and whatever the header says: a customer's
\* zone may have metricPorts, and the tag smartdc_role, too.
OnlyCoreZonesScraped ==
    \A r \in Requests : req[r].pc = "scraping" => req[r].vm \in CoreZones

\* The metadata of a zone in the cache that names ports is that of a core zone,
\* in whichever of the two contexts it has been loaded (triton-metrics.js:71-74).
PortsOnlyOfCoreZones ==
    \A vm \in VMs : (cache[vm] # NoEntry /\ cache[vm].metricPorts # NoPorts)
      => vm \in CoreZones

\* Except for Manta's zones the two contexts, which share an entry, agree about
\* what goes into it: the manual check and the header never contradict.
ContextsAgree ==
    \A vm \in VMs \ MantaZones : cache[vm] # NoEntry
      => cache[vm].isCoreZone = (vm \in TritonZones)

\* endpoints/metrics.js:102-105: without the header a core Manta zone is not
\* identified as a core zone.
MantaNotIdentified ==
    \A r \in Requests : (req[r].header = "absent" /\ req[r].isCoreZone)
      => req[r].vm \notin MantaZones
=============================================================================
