---------------------------- MODULE TritonProofs ----------------------------
(***************************************************************************)
(* What holds of TritonMetadata for any zones, ports and requests.         *)
(*                                                                         *)
(* That only core zones are scraped is not inductive: a request scrapes    *)
(* what the cache says, and the cache was filled by another request that   *)
(* knew the zone to be a core zone in one of two ways.  CacheSound and     *)
(* RequestsSound say that either way is right.                             *)
(***************************************************************************)
EXTENDS TritonMetadata, TLAPS

\* Metadata that is right about the zone.
InfoSound(vm, info) ==
    /\ info.isCoreZone => vm \in CoreZones
    /\ vm \in TritonZones => info.isCoreZone
    /\ info.metricPorts # NoPorts => info.isCoreZone

CacheSound == \A vm \in VMs : cache[vm] # NoEntry => InfoSound(vm, cache[vm])

Sound(q) ==
    /\ q.header = "core" => q.vm \in CoreZones
    /\ q.isCoreZone => q.vm \in CoreZones
    /\ q.pc \in {"vmadmOfCollector", "scraping"} => q.isCoreZone
    /\ q.pc = "scraping" => q.info.metricPorts \notin {NoPorts, BadPorts}

RequestsSound == \A r \in Requests : Sound(req[r])

IInv == TypeOK /\ CacheSound /\ RequestsSound

USE TritonAssumption

-----------------------------------------------------------------------------
(* Helpers.                                                                *)

LEMMA NoRequestSound == NoRequest \in Request /\ Sound(NoRequest)
  BY DEF NoRequest, Request, Headers, Outcomes, Sound

LEMMA AnsweredSound ==
    ASSUME NEW outcome \in Outcomes
    PROVE  LET q == [NoRequest EXCEPT !.pc = "answered", !.outcome = outcome]
           IN  q \in Request /\ Sound(q)
  BY NoRequestSound DEF NoRequest, Request, Sound

\* A step of one request that leaves the cache alone or stores right metadata.
LEMMA RequestChanges ==
    ASSUME IInv, NEW r \in Requests, NEW q \in Request, Sound(q),
           req' = [req EXCEPT ![r] = q], UNCHANGED metricPorts,
           \/ UNCHANGED cache
           \/ \E vm \in VMs, info \in Info :
                cache' = [cache EXCEPT ![vm] = info] /\ InfoSound(vm, info)
    PROVE  IInv'
  <1>1. req' \in [Requests -> Request]  BY DEF IInv, TypeOK
  <1>2. ASSUME NEW s \in Requests PROVE Sound(req'[s])
    BY DEF IInv, TypeOK, RequestsSound
  <1>3. cache' \in [VMs -> Info \cup {NoEntry}]  BY DEF IInv, TypeOK
  <1>4. CacheSound'  BY DEF IInv, TypeOK, CacheSound
  <1>5. TypeOK'  BY <1>1, <1>2, <1>3 DEF IInv, TypeOK, Sound
  <1> QED  BY <1>2, <1>4, <1>5 DEF IInv, RequestsSound

LEMMA InfoMade ==
    ASSUME NEW isCore \in BOOLEAN, NEW ports \in PortLists
    PROVE  [isCoreZone |-> isCore, metricPorts |-> ports] \in Info
  BY DEF Info

\* What is loaded for a zone is right, if the confirmation was.
LEMMA VmInfoSound ==
    ASSUME TypeOK, NEW vm \in VMs, NEW confirmed \in BOOLEAN,
           confirmed => vm \in CoreZones
    PROVE  VmInfo(vm, confirmed) \in Info /\ InfoSound(vm, VmInfo(vm, confirmed))
  <1> DEFINE isCore == confirmed \/ ManualCheck(vm)
  <1>1. isCore \in BOOLEAN  BY Zenon
  <1>2. metricPorts[vm] \in PortLists /\ NoPorts \in PortLists
    BY DEF TypeOK, PortLists
  <1>3. isCore => vm \in CoreZones  BY DEF ManualCheck, CoreZones, TritonZones
  <1>4. vm \in TritonZones => isCore  BY DEF ManualCheck, TritonZones
  <1>5. VmInfo(vm, confirmed) = [isCoreZone |-> isCore,
             metricPorts |-> IF isCore THEN metricPorts[vm] ELSE NoPorts]
    BY DEF VmInfo
  <1> HIDE DEF isCore
  <1>6. VmInfo(vm, confirmed) \in Info
    <2>1. (IF isCore THEN metricPorts[vm] ELSE NoPorts) \in PortLists  BY <1>2
    <2> QED  BY <1>1, <1>5, <2>1, InfoMade, Zenon
  <1>7. InfoSound(vm, VmInfo(vm, confirmed))  BY <1>3, <1>4, <1>5 DEF InfoSound
  <1> QED  BY <1>6, <1>7

\* What getTritonMetrics does with right metadata.
LEMMA GotMetadataKeeps ==
    ASSUME IInv, NEW r \in Requests, NEW info \in Info, InfoSound(req[r].vm, info),
           req[r].isCoreZone, GotMetadata(r, info), UNCHANGED metricPorts,
           UNCHANGED cache \/ cache' = [cache EXCEPT ![req[r].vm] = info]
    PROVE  IInv'
  <1>1. req[r] \in Request /\ Sound(req[r])  BY DEF IInv, TypeOK, RequestsSound
  <1>2. req[r].vm \in VMs  BY <1>1 DEF Request
  <1>3. info.metricPorts \in PortLists  BY DEF Info
  <1>4. PICK q \in Request : Sound(q) /\ req' = [req EXCEPT ![r] = q]
    <2>1. ASSUME NEW outcome \in Outcomes, Answers(r, outcome)
          PROVE  \E q \in Request : Sound(q) /\ req' = [req EXCEPT ![r] = q]
      <3> DEFINE q == [NoRequest EXCEPT !.pc = "answered", !.outcome = outcome]
      <3>1. q \in Request /\ Sound(q)  BY AnsweredSound
      <3>2. req' = [req EXCEPT ![r] = q]  BY <2>1 DEF Answers
      <3> QED  BY <3>1, <3>2
    <2>2. CASE info.metricPorts \in {NoPorts, BadPorts}
      <3>1. Answers(r, "empty") \/ Answers(r, "error")
        BY <2>2 DEF GotMetadata, Fails
      <3> QED  BY <2>1, <3>1 DEF Outcomes
    <2>3. CASE info.metricPorts \notin {NoPorts, BadPorts}
      <3> DEFINE q == [req[r] EXCEPT !.pc = "scraping", !.info = info,
                                     !.pending = info.metricPorts]
      <3>1. info.metricPorts \in SUBSET Ports  BY <1>3, <2>3 DEF PortLists
      <3>2. q \in Request  BY <1>1, <3>1 DEF Request
      <3>3. Sound(q)  BY <1>1, <2>3 DEF Sound, Request
      <3>4. req' = [req EXCEPT ![r] = q]
        BY <2>3 DEF GotMetadata, IInv, TypeOK
      <3> QED  BY <3>2, <3>3, <3>4
    <2> QED  BY <2>2, <2>3
  <1> QED  BY <1>2, <1>4, RequestChanges

\* A request that has an answer, an error among them.
LEMMA AnswersKeeps ==
    ASSUME IInv, NEW r \in Requests, NEW outcome \in Outcomes, Answers(r, outcome),
           UNCHANGED <<metricPorts, cache>>
    PROVE  IInv'
  <1> DEFINE q == [NoRequest EXCEPT !.pc = "answered", !.outcome = outcome]
  <1>1. q \in Request /\ Sound(q)  BY AnsweredSound
  <1>2. req' = [req EXCEPT ![r] = q]  BY DEF Answers
  <1> HIDE DEF q
  <1> QED  BY <1>1, <1>2, RequestChanges

\* The endpoint has found out, rightly, whether the zone is a core zone.
LEMMA EndpointKnowsKeeps ==
    ASSUME IInv, NEW r \in Requests, NEW isCore \in BOOLEAN, EndpointKnows(r, isCore),
           isCore => req[r].vm \in CoreZones, UNCHANGED metricPorts,
           \/ UNCHANGED cache
           \/ \E vm \in VMs, info \in Info :
                cache' = [cache EXCEPT ![vm] = info] /\ InfoSound(vm, info)
    PROVE  IInv'
  <1> DEFINE q == [req[r] EXCEPT !.pc = "collector", !.isCoreZone = isCore]
  <1>1. req[r] \in Request /\ Sound(req[r])  BY DEF IInv, TypeOK, RequestsSound
  <1>2. q \in Request  BY <1>1 DEF Request
  <1>3. Sound(q)  BY <1>1 DEF Sound, Request
  <1>4. req' = [req EXCEPT ![r] = q]  BY DEF EndpointKnows, IInv, TypeOK
  <1> HIDE DEF q
  <1> QED  BY <1>2, <1>3, <1>4, RequestChanges

-----------------------------------------------------------------------------
(* The initial states and the steps.                                       *)

LEMMA InitHolds == Init => IInv
  <1> SUFFICES ASSUME Init PROVE IInv  OBVIOUS
  <1>1. req \in [Requests -> Request] /\ \A r \in Requests : req[r] = NoRequest
    BY NoRequestSound DEF Init
  <1>2. metricPorts \in [VMs -> PortLists] /\ cache \in [VMs -> Info \cup {NoEntry}]
    BY DEF Init
  <1>3. CacheSound  BY DEF Init, CacheSound
  <1>4. TypeOK  BY <1>1, <1>2, NoRequestSound DEF TypeOK, NoRequest
  <1> QED  BY <1>1, <1>3, <1>4, NoRequestSound DEF IInv, RequestsSound

LEMMA AroundKeeps ==
    ASSUME IInv, NEW vm \in VMs, MetadataChanges(vm) \/ CacheExpires(vm)
    PROVE  IInv'
  <1>1. CASE MetadataChanges(vm)
    <2>1. metricPorts' \in [VMs -> PortLists]
      BY <1>1 DEF MetadataChanges, IInv, TypeOK
    <2> QED
      BY <1>1, <2>1 DEF MetadataChanges, IInv, TypeOK, CacheSound, RequestsSound
  <1>2. CASE CacheExpires(vm)
    <2>1. cache' \in [VMs -> Info \cup {NoEntry}]
      BY <1>2 DEF CacheExpires, IInv, TypeOK
    <2>2. CacheSound'  BY <1>2 DEF CacheExpires, IInv, TypeOK, CacheSound
    <2> QED  BY <1>2, <2>1, <2>2 DEF CacheExpires, IInv, TypeOK, RequestsSound
  <1> QED  BY <1>1, <1>2

LEMMA ReceiveKeeps ==
    ASSUME IInv, NEW r \in Requests, NEW vm \in VMs, NEW header \in Headers,
           Receive(r, vm, header)
    PROVE  IInv'
  <1> DEFINE q == [NoRequest EXCEPT !.pc = "endpoint", !.vm = vm, !.header = header]
  <1>1. q \in Request  BY NoRequestSound DEF Request
  <1>2. header = "core" => vm \in CoreZones  BY DEF Receive
  <1>3. Sound(q)  BY <1>2 DEF Sound, NoRequest
  <1>4. req' = [req EXCEPT ![r] = q] /\ UNCHANGED <<metricPorts, cache>>
    BY DEF Receive
  <1> HIDE DEF q
  <1> QED  BY <1>1, <1>3, <1>4, RequestChanges

LEMMA DoneKeeps ==
    ASSUME IInv, NEW r \in Requests, Done(r)
    PROVE  IInv'
  BY NoRequestSound, RequestChanges DEF Done

LEMMA EndpointKeeps ==
    ASSUME IInv, NEW r \in Requests, Endpoint(r)
    PROVE  IInv'
  <1> DEFINE vm == req[r].vm
  <1>1. req[r] \in Request /\ Sound(req[r])  BY DEF IInv, TypeOK, RequestsSound
  <1>2. vm \in VMs  BY <1>1 DEF Request
  <1>3. CASE req[r].header \in {"core", "notCore"}
    <2>1. EndpointKnows(r, req[r].header = "core") /\ UNCHANGED <<metricPorts, cache>>
      BY <1>3, Zenon DEF Endpoint
    <2>2. req[r].header = "core" => vm \in CoreZones  BY <1>1 DEF Sound
    <2>3. (req[r].header = "core") \in BOOLEAN  BY Zenon
    <2> QED  BY <2>1, <2>2, <2>3, EndpointKnowsKeeps, Zenon
  <1>4. CASE req[r].header = "unparsable"
    <2>1. Answers(r, "error") /\ UNCHANGED <<metricPorts, cache>>
      BY <1>4 DEF Endpoint, Fails
    <2> QED  BY <2>1, AnswersKeeps DEF Outcomes
  <1>5. CASE req[r].header = "absent" /\ cache[vm] # NoEntry
    <2>1. EndpointKnows(r, cache[vm].isCoreZone) /\ UNCHANGED <<metricPorts, cache>>
      BY <1>5 DEF Endpoint
    <2>2. cache[vm] \in Info /\ InfoSound(vm, cache[vm])
      BY <1>2, <1>5 DEF IInv, TypeOK, CacheSound
    <2>3. cache[vm].isCoreZone \in BOOLEAN /\ (cache[vm].isCoreZone => vm \in CoreZones)
      BY <2>2 DEF Info, InfoSound
    <2> QED  BY <2>1, <2>3, EndpointKnowsKeeps
  <1>6. CASE req[r].header = "absent" /\ cache[vm] = NoEntry
    <2> DEFINE q == [req[r] EXCEPT !.pc = "vmadmOfEndpoint"]
    <2>1. q \in Request  BY <1>1 DEF Request
    <2>2. Sound(q)  BY <1>1 DEF Sound, Request
    <2>3. req' = [req EXCEPT ![r] = q] /\ UNCHANGED <<metricPorts, cache>>
      BY <1>6 DEF Endpoint, IInv, TypeOK
    <2> QED  BY <2>1, <2>2, <2>3, RequestChanges
  <1>7. req[r].header \in Headers  BY <1>1 DEF Request
  <1> QED  BY <1>3, <1>4, <1>5, <1>6, <1>7 DEF Headers

LEMMA EndpointGotVmKeeps ==
    ASSUME IInv, NEW r \in Requests, EndpointGotVm(r)
    PROVE  IInv'
  <1> DEFINE vm == req[r].vm
             info == VmInfo(vm, FALSE)
  <1>1. vm \in VMs  BY DEF IInv, TypeOK, Request
  <1>2. info \in Info /\ InfoSound(vm, info)  BY <1>1, VmInfoSound DEF IInv
  <1>3. CASE Fails(r) /\ UNCHANGED <<metricPorts, cache>>
    BY <1>3, AnswersKeeps DEF Fails, Outcomes
  <1>4. CASE /\ EndpointKnows(r, info.isCoreZone)
             /\ cache' = [cache EXCEPT ![vm] = info]
             /\ UNCHANGED metricPorts
    <2>1. info.isCoreZone \in BOOLEAN /\ (info.isCoreZone => vm \in CoreZones)
      BY <1>2 DEF Info, InfoSound
    <2> HIDE DEF info
    <2> QED  BY <1>1, <1>2, <1>4, <2>1, EndpointKnowsKeeps
  <1> QED  BY <1>3, <1>4 DEF EndpointGotVm

LEMMA EmptyRoleKeeps ==
    ASSUME IInv, NEW r \in Requests, EmptyRoleAborts(r)
    PROVE  IInv'
  <1>1. cache' = [vm \in VMs |-> NoEntry] /\ metricPorts' = metricPorts
    BY DEF EmptyRoleAborts
  <1>2. req' \in [Requests -> Request] /\ \A s \in Requests : req'[s] = NoRequest
    BY NoRequestSound DEF EmptyRoleAborts
  <1>3. TypeOK'  BY <1>1, <1>2, NoRequestSound DEF IInv, TypeOK, NoRequest
  <1>4. CacheSound'  BY <1>1 DEF CacheSound
  <1> QED  BY <1>2, <1>3, <1>4, NoRequestSound DEF IInv, RequestsSound

LEMMA TritonCoreKeeps ==
    ASSUME IInv, NEW r \in Requests, TritonCore(r)
    PROVE  IInv'
  <1> DEFINE vm == req[r].vm
  <1>1. req[r] \in Request /\ Sound(req[r])  BY DEF IInv, TypeOK, RequestsSound
  <1>2. vm \in VMs  BY <1>1 DEF Request
  <1>3. CASE ~CollectorRuns(r)
    <2>1. Answers(r, "other") /\ UNCHANGED <<metricPorts, cache>>
      BY <1>3 DEF TritonCore
    <2> QED  BY <2>1, AnswersKeeps DEF Outcomes
  <1>4. CASE CollectorRuns(r) /\ cache[vm] # NoEntry
    <2>1. GotMetadata(r, cache[vm]) /\ UNCHANGED <<metricPorts, cache>>
      BY <1>4 DEF TritonCore
    <2>2. cache[vm] \in Info /\ InfoSound(vm, cache[vm])
      BY <1>2, <1>4 DEF IInv, TypeOK, CacheSound
    <2>3. req[r].isCoreZone  BY <1>4 DEF CollectorRuns
    <2> QED  BY <2>1, <2>2, <2>3, GotMetadataKeeps
  <1>5. CASE CollectorRuns(r) /\ cache[vm] = NoEntry
    <2> DEFINE q == [req[r] EXCEPT !.pc = "vmadmOfCollector"]
    <2>1. q \in Request  BY <1>1 DEF Request
    <2>2. Sound(q)  BY <1>1, <1>5 DEF Sound, Request, CollectorRuns
    <2>3. req' = [req EXCEPT ![r] = q] /\ UNCHANGED <<metricPorts, cache>>
      BY <1>5 DEF TritonCore, IInv, TypeOK
    <2> QED  BY <2>1, <2>2, <2>3, RequestChanges
  <1> QED  BY <1>3, <1>4, <1>5

LEMMA CollectorGotVmKeeps ==
    ASSUME IInv, NEW r \in Requests, CollectorGotVm(r)
    PROVE  IInv'
  <1> DEFINE vm == req[r].vm
             info == VmInfo(vm, TRUE)
  <1>1. req[r] \in Request /\ Sound(req[r]) /\ req[r].pc = "vmadmOfCollector"
    BY DEF IInv, TypeOK, RequestsSound, CollectorGotVm
  <1>2. vm \in VMs /\ req[r].isCoreZone /\ vm \in CoreZones
    BY <1>1 DEF Request, Sound
  <1>3. info \in Info /\ InfoSound(vm, info)  BY <1>2, VmInfoSound DEF IInv
  <1>4. CASE Fails(r) /\ UNCHANGED <<metricPorts, cache>>
    BY <1>4, AnswersKeeps DEF Fails, Outcomes
  <1>5. CASE /\ GotMetadata(r, info)
             /\ cache' = [cache EXCEPT ![vm] = info]
             /\ UNCHANGED metricPorts
    <2> HIDE DEF info
    <2> QED  BY <1>2, <1>3, <1>5, GotMetadataKeeps
  <1> QED  BY <1>4, <1>5 DEF CollectorGotVm

LEMMA PortAnswersKeeps ==
    ASSUME IInv, NEW r \in Requests, NEW port \in Ports, NEW ok \in BOOLEAN,
           PortAnswers(r, port, ok)
    PROVE  IInv'
  <1> DEFINE successes == IF ok THEN req[r].successes \cup {port} ELSE req[r].successes
             q == [req[r] EXCEPT !.pending = @ \ {port}, !.successes = successes]
  <1>1. req[r] \in Request /\ Sound(req[r])  BY DEF IInv, TypeOK, RequestsSound
  <1>2. successes \in SUBSET Ports  BY <1>1 DEF Request
  <1>3. req' = [req EXCEPT ![r] = q] /\ UNCHANGED <<metricPorts, cache>>
    BY <1>1 DEF PortAnswers, IInv, TypeOK
  <1> HIDE DEF successes
  <1>4. q \in Request  BY <1>1, <1>2 DEF Request
  <1>5. Sound(q)  BY <1>1 DEF Sound, Request
  <1> QED  BY <1>3, <1>4, <1>5, RequestChanges

LEMMA GotAllMetricsKeeps ==
    ASSUME IInv, NEW r \in Requests, GotAllMetrics(r)
    PROVE  IInv'
  <1>1. PICK outcome \in ScrapeOutcomes(r) : Answers(r, outcome)
    BY DEF GotAllMetrics
  <1>2. outcome \in Outcomes  BY DEF ScrapeOutcomes, Outcomes
  <1> QED  BY <1>1, <1>2, AnswersKeeps DEF GotAllMetrics

-----------------------------------------------------------------------------
(* The invariant, and what follows from it.                                *)

LEMMA StepKeeps == IInv /\ [Next]_vars => IInv'
  <1> SUFFICES ASSUME IInv, [Next]_vars PROVE IInv'  OBVIOUS
  <1>1. ASSUME NEW vm \in VMs, MetadataChanges(vm) \/ CacheExpires(vm) PROVE IInv'
    BY <1>1, AroundKeeps
  <1>2. ASSUME NEW r \in Requests, NEW vm \in VMs, NEW header \in Headers,
               Receive(r, vm, header)
        PROVE  IInv'
    BY <1>2, ReceiveKeeps
  <1>3. ASSUME NEW r \in Requests, RequestStep(r) PROVE IInv'
    BY <1>3, EndpointKeeps, EndpointGotVmKeeps, EmptyRoleKeeps, TritonCoreKeeps,
       CollectorGotVmKeeps, PortAnswersKeeps, GotAllMetricsKeeps, DoneKeeps DEF RequestStep
  <1>4. CASE UNCHANGED vars
    BY <1>4 DEF vars, IInv, TypeOK, CacheSound, RequestsSound
  <1> QED  BY <1>1, <1>2, <1>3, <1>4 DEF Next

LEMMA Invariant == Spec => []IInv
  BY InitHolds, StepKeeps, PTL DEF Spec

\* Types of TritonMetadata's variables; what is scraped are ports.
THEOREM TypeCorrect == Spec => []TypeOK
  <1>1. IInv => TypeOK  BY DEF IInv
  <1> QED  BY <1>1, Invariant, PTL

\* No port of a customer's zone is ever scraped, whatever its metadata and tags
\* say, as long as cmon's header is right.
THEOREM CoreZonesScraped == Spec => []OnlyCoreZonesScraped
  <1>1. IInv => OnlyCoreZonesScraped
    BY DEF IInv, RequestsSound, Sound, OnlyCoreZonesScraped
  <1> QED  BY <1>1, Invariant, PTL

\* The ports of a customer's zone are not even kept.
THEOREM CoreZonesPorts == Spec => []PortsOnlyOfCoreZones
  <1>1. IInv => PortsOnlyOfCoreZones
    BY DEF IInv, CacheSound, InfoSound, PortsOnlyOfCoreZones
  <1> QED  BY <1>1, Invariant, PTL

\* But for Manta's zones it does not matter which context has filled the cache.
THEOREM ContextsDoAgree == Spec => []ContextsAgree
  <1>1. ASSUME IInv, NEW vm \in VMs \ MantaZones, cache[vm] # NoEntry
        PROVE  cache[vm].isCoreZone = (vm \in TritonZones)
    <2>1. cache[vm] \in Info /\ InfoSound(vm, cache[vm])
      BY <1>1 DEF IInv, TypeOK, CacheSound
    <2>2. cache[vm].isCoreZone \in BOOLEAN  BY <2>1 DEF Info
    <2>3. cache[vm].isCoreZone <=> vm \in TritonZones
      BY <2>1 DEF InfoSound, CoreZones
    <2> QED  BY <2>2, <2>3
  <1>2. IInv => ContextsAgree  BY <1>1 DEF ContextsAgree
  <1> QED  BY <1>2, Invariant, PTL
=============================================================================
