-------------------------- MODULE ZoneReplyProofs --------------------------
(***************************************************************************)
(* Theorems about ZoneReply: for any zones, links, ports and texts, and    *)
(* any number of restarts.                                                 *)
(***************************************************************************)
EXTENDS ZoneReply, PromParserProofs, FiniteSetTheorems

-----------------------------------------------------------------------------
(* Constants, collectors and pipelines                                     *)

LEMMA ThreeZones == VM # OtherVM /\ GZ # OtherVM /\ GZ # VM
<1>1. Cardinality({GZ, VM, OtherVM}) = 3
  BY ZoneReplyAssumption
<1>2. ASSUME NEW x, NEW y PROVE Cardinality({x, y}) <= 2
  <2>1. Cardinality({x}) = 1 /\ IsFiniteSet({x})
    BY FS_Singleton
  <2>2. Cardinality({x} \cup {y}) \in {1, 2}
    BY <2>1, FS_AddElement
  <2>3. {x} \cup {y} = {x, y}
    OBVIOUS
  <2> QED
    BY <2>2, <2>3
<1>3. ASSUME VM = OtherVM PROVE FALSE
  <2>1. {GZ, VM, OtherVM} = {GZ, VM}
    BY <1>3
  <2> QED
    BY <2>1, <1>1, <1>2
<1>4. ASSUME GZ = OtherVM PROVE FALSE
  <2>1. {GZ, VM, OtherVM} = {GZ, VM}
    BY <1>4
  <2> QED
    BY <2>1, <1>1, <1>2
<1>5. ASSUME GZ = VM PROVE FALSE
  <2>1. {GZ, VM, OtherVM} = {GZ, OtherVM}
    BY <1>5
  <2> QED
    BY <2>1, <1>1, <1>2
<1> QED
  BY <1>3, <1>4, <1>5

LEMMA CollectorNames ==
  Collectors = {"cpucap", "link", "memcap", "tcp", "zone_misc", "zone_vfs", "arcstats",
                "cpu_info", "cpu_util", "zpool", "triton_core", "zfs"}
BY DEF Collectors, KstatCollector

LEMMA PipelineType ==
  ASSUME NEW z, NEW core
  PROVE  Pipeline(z, core) \in Seq(Collectors)
<1>1. <<"arcstats", "cpu_info", "cpu_util", "zpool">> \in Seq(Collectors)
  BY CollectorNames
<1>2. <<"cpucap", "link", "memcap", "tcp", "triton_core", "zfs", "zone_misc",
        "zone_vfs">> \in Seq(Collectors)
  BY CollectorNames
<1>3. <<"cpucap", "link", "memcap", "tcp", "zfs", "zone_misc",
        "zone_vfs">> \in Seq(Collectors)
  BY CollectorNames
<1> QED
  BY <1>1, <1>2, <1>3 DEF Pipeline

\* link is the second collector of a zone, and none of the global zone.
LEMMA LinkIsSecond ==
  ASSUME NEW z, NEW core, NEW i \in 1..Len(Pipeline(z, core))
  PROVE  /\ Pipeline(z, core)[i] = "link" => i = 2
         /\ z = VM /\ i = 2 => Pipeline(z, core)[i] = "link"
<1>1. VM # GZ
  BY ThreeZones
<1>2. CASE z = GZ
  BY <1>1, <1>2 DEF Pipeline
<1>3. CASE z = VM /\ core
  BY <1>1, <1>3 DEF Pipeline
<1>4. CASE z # GZ /\ ~(z = VM /\ core)
  BY <1>1, <1>4 DEF Pipeline
<1> QED
  BY <1>2, <1>3, <1>4

\* The collector at the head of those to come takes its place after the others.
LEMMA NextCollector ==
  ASSUME NEW S, NEW c \in Seq(S), NEW s \in Seq(S), s # <<>>
  PROVE  /\ Append(c, Head(s)) \o Tail(s) = c \o s
         /\ Len(c) + 1 \in 1..Len(c \o s)
         /\ (c \o s)[Len(c) + 1] = Head(s)
OBVIOUS

LEMMA EarlierCollectors ==
  ASSUME NEW S, NEW c \in Seq(S), NEW s \in Seq(S), NEW i \in 1..Len(c)
  PROVE  i \in 1..Len(c \o s) /\ (c \o s)[i] = c[i]
OBVIOUS

-----------------------------------------------------------------------------
(* Readings of kstats                                                      *)

\* The labels a collector's kstats get.
LabelsFor(kstats, nics) ==
    [k \in kstats |-> [unit |-> k.unit, network |-> NetworkOf(nics, k.unit)]]

\* What is made of the kstats when they have been read.
ReadingOf(c, read, nics) == KstatsToMetrics(c, read, LabelsFor(read, nics))

LEMMA ReadingIs ==
  ASSUME NEW name, NEW nics, NEW reading \in Readings(name, nics)
  PROVE  \E data \in Data(KstatCollector[name]) : \E kstats \in Kstats(name, data) :
           reading = ReadingOf(KstatCollector[name],
                               Read(KstatCollector[name], request, kstats), nics)
BY DEF Readings, ReadingOf, LabelsFor

\* The kstats of one zone are told apart by their unit alone.
Same(data, z, instance, k) == k = Kstat(data, z, instance, k.unit)

LEMMA KstatFields ==
  ASSUME NEW data, NEW z, NEW instance, NEW unit
  PROVE  LET k == Kstat(data, z, instance, unit)
         IN  /\ k.data = data /\ k.zone = z /\ k.instance = instance /\ k.unit = unit
             /\ Same(data, z, instance, k)
BY DEF Kstat, Same

ReadByLink(data) ==
    IF request.zonename = VM /\ zone.up
    THEN {Kstat(data, VM, zone.instance, p) : p \in DOMAIN NicsOf[zone.instance]}
    ELSE {}

\* What link reads is what the zone has, and nothing of another zone.
LEMMA LinkReads ==
  ASSUME request.zonename \in {GZ, VM}, NEW data, NEW kstats \in Kstats("link", data)
  PROVE  Read(link, request, kstats) = ReadByLink(data)
<1> DEFINE own   == {Kstat(data, VM, zone.instance, u) : u \in DOMAIN NicsOf[zone.instance]}
<1> DEFINE other == {Kstat(data, OtherVM, MaxInstance + 1, u) : u \in OtherLinks}
<1>1. kstats = (IF zone.up THEN own ELSE {}) \cup other
  <2>1. KstatCollector["link"].by # "global"
    BY DEF KstatCollector, link, Zonewide
  <2> QED
    BY <2>1 DEF Kstats
<1>2. Read(link, request, kstats) = {k \in kstats : k.zone = request.zonename}
  BY DEF Read, link, Zonewide
<1>3. \A k \in own : k.zone = VM
  BY KstatFields
<1>4. \A k \in other : k.zone = OtherVM
  BY KstatFields
<1>5. ReadByLink(data) = IF request.zonename = VM /\ zone.up THEN own ELSE {}
  BY DEF ReadByLink
<1> HIDE DEF own, other
<1> QED
  BY <1>1, <1>2, <1>3, <1>4, <1>5, ThreeZones

\* link's metrics as their type has them.
LinkMetrics ==
    [key : KstatMap(link), label : [unit : PPAs, network : Networks]]

LinkNics == {NoNics} \cup {NicsOf[i] : i \in 1..MaxInstance}

LEMMA NetworkType ==
  ASSUME NEW nics \in LinkNics, NEW p
  PROVE  NetworkOf(nics, p) \in Networks
<1>1. CASE p \notin DOMAIN nics
  BY <1>1 DEF NetworkOf, Networks
<1>2. CASE p \in DOMAIN nics
  <2>1. nics # NoNics
    BY <1>2 DEF NoNics
  <2>2. PICK i \in 1..MaxInstance : nics = NicsOf[i]
    BY <2>1 DEF LinkNics
  <2>3. nics[p] \in Range(NicsOf[i])
    BY <1>2, <2>2 DEF Range
  <2> QED
    BY <1>2, <2>2, <2>3 DEF NetworkOf, Networks
<1> QED
  BY <1>1, <1>2

\* Of one zone there are not two kstats with the same link.
LEMMA LinkKeeps ==
  ASSUME request.zonename \in {GZ, VM}, zone.instance \in 1..MaxInstance,
         NEW nics \in LinkNics, NEW reading \in Readings("link", nics)
  PROVE  /\ reading.outcome \in {"failed", "notFound", "metrics"}
         /\ reading.metrics \subseteq LinkMetrics
         /\ request.zonename = VM /\ reading.outcome = "metrics" =>
              {metric.label : metric \in reading.metrics} =
                {[unit |-> p, network |-> NetworkOf(nics, p)] :
                   p \in DOMAIN NicsOf[zone.instance]}
<1>1. KstatCollector["link"] = link
  BY DEF KstatCollector
<1>2. PICK data \in Data(link) : \E kstats \in Kstats("link", data) :
        reading = ReadingOf(link, Read(link, request, kstats), nics)
  BY <1>1, ReadingIs
<1> DEFINE read == ReadByLink(data)
<1>3. reading = KstatsToMetrics(link, read, LabelsFor(read, nics))
  BY ONLY <1>2, LinkReads, request.zonename \in {GZ, VM} DEF ReadingOf
<1>4. \A k \in read : /\ Same(data, VM, zone.instance, k)
                      /\ k.data = data
                      /\ k.unit \in DOMAIN NicsOf[zone.instance]
  BY KstatFields DEF ReadByLink
<1>5. link.labelled /\ link.limits = {} /\ ~link.emptyOK /\ link.required = {"plain"}
        /\ KstatMap(link) = {"plain"}
  BY DEF link, Zonewide, KstatMap
<1>6. ~Throws(link, read)
  <2>1. ASSUME NEW j \in read, NEW k \in read, SameLabel(link, j, k) PROVE j = k
    BY <1>4, <2>1 DEF SameLabel, Same
  <2> QED
    BY <1>5, <2>1 DEF Throws, Asserts, LimitUnset, Unset
<1>7. reading.metrics = LoadMetrics(link, read, LabelsFor(read, nics))
  BY <1>3 DEF KstatsToMetrics
<1>8. reading.outcome = IF Missing(link, read) THEN "failed"
                        ELSE IF read = {} THEN "notFound" ELSE "metrics"
  <2>1. CASE Missing(link, read)
    <3>1. read # {}
      BY <2>1 DEF Missing
    <3> QED
      BY <1>3, <1>6, <2>1, <3>1 DEF KstatsToMetrics, Throws
  <2>2. CASE ~Missing(link, read) /\ read = {}
    BY <1>3, <1>5, <1>6, <2>2 DEF KstatsToMetrics, Throws
  <2>3. CASE ~Missing(link, read) /\ read # {}
    BY <1>3, <1>5, <1>6, <2>3 DEF KstatsToMetrics, Throws
  <2> QED
    BY <2>1, <2>2, <2>3
<1> HIDE DEF read
<1>9. reading.metrics \subseteq LinkMetrics
  <2> SUFFICES ASSUME NEW metric \in reading.metrics PROVE metric \in LinkMetrics
    OBVIOUS
  <2>1. PICK k \in read : metric \in [key : KstatMap(link) \cap DOMAIN k.data,
                                      label : {LabelsFor(read, nics)[k]}]
    BY <1>7 DEF LoadMetrics
  <2>2. LabelsFor(read, nics)[k] =
          [unit |-> k.unit, network |-> NetworkOf(nics, k.unit)]
    BY DEF LabelsFor
  <2>3. k.unit \in PPAs
    BY <1>4, ZoneReplyAssumption
  <2> QED
    BY <2>1, <2>2, <2>3, NetworkType DEF LinkMetrics
<1>10. ASSUME request.zonename = VM, reading.outcome = "metrics"
       PROVE  {metric.label : metric \in reading.metrics} =
                {[unit |-> p, network |-> NetworkOf(nics, p)] :
                   p \in DOMAIN NicsOf[zone.instance]}
  <2>1. ~Missing(link, read) /\ read # {}
    BY <1>8, <1>10
  <2>2. read = {Kstat(data, VM, zone.instance, p) : p \in DOMAIN NicsOf[zone.instance]}
    BY <2>1, <1>10 DEF ReadByLink, read
  <2>3. \A k \in read : KstatMap(link) \cap DOMAIN k.data = {"plain"}
    BY <2>1, <1>5 DEF Missing
  <2>4. reading.metrics =
          UNION {[key : {"plain"}, label : {LabelsFor(read, nics)[k]}] : k \in read}
    BY <1>7, <2>3 DEF LoadMetrics
  <2>5. {metric.label : metric \in reading.metrics} =
          {LabelsFor(read, nics)[k] : k \in read}
    <3>1. ASSUME NEW metric \in reading.metrics
          PROVE  \E k \in read : metric.label = LabelsFor(read, nics)[k]
      BY <2>4
    <3>2. ASSUME NEW k \in read
          PROVE  \E metric \in reading.metrics : metric.label = LabelsFor(read, nics)[k]
      <4> DEFINE metric == [key |-> "plain", label |-> LabelsFor(read, nics)[k]]
      <4>1. metric \in [key : {"plain"}, label : {LabelsFor(read, nics)[k]}]
        OBVIOUS
      <4> QED
        BY <2>4, <4>1
    <3> QED
      BY <3>1, <3>2
  <2>6. \A k \in read : LabelsFor(read, nics)[k] =
          [unit |-> k.unit, network |-> NetworkOf(nics, k.unit)]
    BY DEF LabelsFor
  <2>7. \A p \in DOMAIN NicsOf[zone.instance] :
          Kstat(data, VM, zone.instance, p) \in read
          /\ Kstat(data, VM, zone.instance, p).unit = p
    BY <2>2, KstatFields
  <2>8. \A k \in read : \E p \in DOMAIN NicsOf[zone.instance] :
          k = Kstat(data, VM, zone.instance, p) /\ k.unit = p
    BY <2>2, KstatFields
  <2> DEFINE wanted(p) == [unit |-> p, network |-> NetworkOf(nics, p)]
  <2>9. \A k \in read : LabelsFor(read, nics)[k] = wanted(k.unit)
    BY <2>6
  <2> HIDE DEF wanted
  <2>10. {LabelsFor(read, nics)[k] : k \in read} =
           {wanted(p) : p \in DOMAIN NicsOf[zone.instance]}
    BY <2>7, <2>8, <2>9
  <2> QED
    BY <2>5, <2>10 DEF wanted
<1> QED
  BY <1>8, <1>9, <1>10

-----------------------------------------------------------------------------
(* The inductive invariant                                                 *)

\* The variables but for the scrapes and the parser.
RequestTypeOK ==
    /\ zone \in [instance : 1..MaxInstance, up : BOOLEAN]
    /\ request \in [pc : {"idle", "run", "vminfod", "vmadm", "ports", "parse", "command",
                           "replied"},
                    zonename : {GZ, VM}, core : BOOLEAN,
                    instanceId : 0..MaxInstance, todo : Seq(Collectors)]
    /\ query \in [timer : {"off", "armed", "fired"},
                  vminfod : {"none", "asked", "read", "answered"},
                  nics : LinkNics, timedout : BOOLEAN]
    /\ results.called \in Seq(Collectors) /\ results.without \subseteq Collectors
    /\ results.link \subseteq LinkMetrics
    /\ reply \in {"none", "ok", "notFound"} \cup Thrown

PortsTypeOK ==
    ports \in [open : SUBSET Ports, silent : SUBSET Ports,
              answered : SUBSET [text : Seq(Line), from : Nat],
              joined : Seq(Line)]

\* A query that has yet to call back.
OpenQuery ==
    /\ ~query.timedout
    /\ query.timer = "armed" \/ query.vminfod \in {"asked", "read"}

\* The request waits for the first of the collectors to come; for link as long
\* as its query is open, and no longer.
InTurn ==
    /\ EachCallsBackOnce
    /\ request.pc = "replied" <=> reply # "none"
    /\ request.pc = "idle" => results = NoResults
    /\ request.pc \in {"vminfod", "vmadm", "ports", "parse", "command"} => request.todo # <<>>
    /\ request.pc = "vminfod" => Head(request.todo) = "link" /\ ~query.timedout
    /\ OpenQuery => request.pc = "vminfod"
    /\ request.pc = "command" => Head(request.todo) # "link"

UnderWay == request.pc \notin {"idle", "replied"}

\* The links of an instance with their networks, or with none.
Labelled(found, nics) ==
    LET labels == {metric.label : metric \in found}
    IN  \/ labels = {[unit |-> p, network |-> nics[p]] : p \in DOMAIN nics}
        \/ labels = {[unit |-> p, network |-> Unknown] : p \in DOMAIN nics}

\* As long as the zone is the instance the request began with, what vminfod
\* has read and what link has made of it are about this instance.
LinksKnown ==
    /\ UnderWay => request.instanceId <= zone.instance
    /\ request.pc = "vminfod" /\ query.vminfod = "read"
         /\ zone.instance = request.instanceId =>
           query.nics = NicsOf[request.instanceId]
    /\ Len(results.called) < 2 => results.link = {}
    /\ UnderWay /\ request.zonename = VM /\ zone.instance = request.instanceId
         /\ Len(results.called) >= 2 /\ "link" \notin results.without =>
           Labelled(results.link, NicsOf[request.instanceId])

RequestInv ==
    /\ RequestTypeOK
    /\ InTurn
    /\ LinksKnown
    /\ LabelsOfThisInstance
    /\ AbortsOnlyUnlimited

Inv == RequestInv /\ PortsTypeOK /\ ParserInv

LEMMA InvTypes == ASSUME Inv PROVE TypeOK
BY DEF Inv, RequestInv, RequestTypeOK, PortsTypeOK, ParserInv, ParserTypeOK, TypeOK,
       LinkNics, LinkMetrics

requestVars == <<zone, request, query, results, reply>>

LEMMA RequestInvKept == ASSUME RequestInv, UNCHANGED requestVars PROVE RequestInv'
BY DEF requestVars, RequestInv, RequestTypeOK, InTurn, EachCallsBackOnce, OpenQuery,
       LinksKnown, UnderWay, Labelled, LabelsOfThisInstance, AbortsOnlyUnlimited

LEMMA ParserInvKept == ASSUME ParserInv, UNCHANGED parserVars PROVE ParserInv'
BY DEF parserVars, ParserInv, ParserTypeOK, ReadSoFar, Progress, ParsesByBlocks, Parsed

LEMMA InvBegins == ASSUME Init PROVE Inv
<1> USE DEF Init
<1>1. RequestTypeOK
  <2>1. results.called \in Seq(Collectors)
    BY DEF NoResults
  <2>2. request.todo \in Seq(Collectors)
    BY DEF NoRequest
  <2> QED
    BY <2>1, ZoneReplyAssumption DEF RequestTypeOK, NoRequest, NoQuery, NoResults, LinkNics
<1>2. InTurn
  BY DEF InTurn, EachCallsBackOnce, OpenQuery, NoRequest, NoQuery
<1>3. LinksKnown
  BY DEF LinksKnown, UnderWay, NoRequest, NoResults
<1>4. LabelsOfThisInstance /\ AbortsOnlyUnlimited
  BY DEF LabelsOfThisInstance, AbortsOnlyUnlimited
<1>5. PortsTypeOK
  BY DEF PortsTypeOK, NoScrape
<1>6. ParserInv
  BY ParserOff
<1> QED
  BY <1>1, <1>2, <1>3, <1>4, <1>5, <1>6 DEF Inv, RequestInv

Outcomes == {"metrics", "empty", "failed", "notFound"}

LEMMA OutcomeIs ==
  ASSUME NEW c, NEW read, NEW nics
  PROVE  LET reading == ReadingOf(c, read, nics)
         IN  /\ reading.outcome \in Outcomes \cup Thrown
             /\ ~Asserts(c, read) => reading.outcome \in Outcomes \cup {"typeError"}
             /\ ~Throws(c, read) => reading.outcome \in Outcomes
<1> DEFINE reading == ReadingOf(c, read, nics)
<1>1. reading.outcome =
        CASE Asserts(c, read) -> "assertion"
          [] ~Asserts(c, read) /\ LimitUnset(c, read) -> "typeError"
          [] ~Throws(c, read) /\ Missing(c, read) -> "failed"
          [] read = {} -> IF c.emptyOK THEN "empty" ELSE "notFound"
          [] OTHER -> "metrics"
  BY DEF ReadingOf, KstatsToMetrics
<1>2. read = {} => ~Missing(c, read)
  BY DEF Missing
<1>3. read = {} => ~Throws(c, read)
  <2>1. Cardinality({}) = 0
    BY FS_EmptySet
  <2> QED
    BY <2>1 DEF Throws, Asserts, LimitUnset
<1> HIDE DEF reading
<1>a. Throws(c, read) <=> Asserts(c, read) \/ LimitUnset(c, read)
  BY DEF Throws
<1>b. CASE Asserts(c, read)
  BY <1>1, <1>3, <1>a, <1>b DEF Thrown, reading
<1>c. CASE ~Asserts(c, read) /\ LimitUnset(c, read)
  BY <1>1, <1>3, <1>a, <1>c DEF Thrown, reading
<1>5. CASE ~Throws(c, read) /\ Missing(c, read)
  BY <1>1, <1>2, <1>5, <1>a DEF Outcomes, reading
<1>6. CASE ~Throws(c, read) /\ read = {}
  BY <1>1, <1>2, <1>6, <1>a DEF Outcomes, reading
<1>7. CASE ~Throws(c, read) /\ ~Missing(c, read) /\ read # {}
  BY <1>1, <1>7, <1>a DEF Outcomes, reading
<1> QED
  BY <1>a, <1>b, <1>c, <1>5, <1>6, <1>7

\* What the collectors but link have in common: no more than one kstat unless
\* it is labelled, and no limits but for memcap.
LEMMA Unlimited ==
  ASSUME NEW name \in DOMAIN KstatCollector \ {"link"}
  PROVE  LET c == KstatCollector[name]
         IN  /\ name # "memcap" => c.limits = {}
             /\ \/ c.by = "instanceId"
                \/ c.by = "global" /\ (c.labelled \/ UnitsOf(name) = {"only"})
<1>1. name \in {"cpucap", "memcap", "tcp", "zone_misc", "zone_vfs", "arcstats",
                "cpu_info", "cpu_util", "zpool"}
  BY DEF KstatCollector
<1>2. CASE name \in {"cpucap", "tcp", "zone_misc", "zone_vfs"}
  <2>1. KstatCollector[name] \in {cpucap, tcp, zone_misc, zone_vfs}
    BY <1>2 DEF KstatCollector
  <2>2. cpucap.limits = {} /\ cpucap.by = "instanceId"
    BY DEF cpucap, Zonewide
  <2>3. Zonewide.limits = {} /\ Zonewide.by = "instanceId"
    BY DEF Zonewide
  <2> QED
    BY <2>1, <2>2, <2>3 DEF tcp, zone_misc, zone_vfs
<1>3. CASE name \in {"arcstats", "cpu_info"}
  <2>1. KstatCollector[name] \in {arcstats, cpu_info}
    BY <1>3 DEF KstatCollector
  <2>2. arcstats.limits = {} /\ arcstats.by = "global"
    BY DEF arcstats, Zonewide
  <2>3. cpu_info.limits = {} /\ cpu_info.by = "global"
    BY DEF cpu_info, Zonewide
  <2>4. UnitsOf(name) = {"only"}
    BY <1>3 DEF UnitsOf
  <2> QED
    BY <2>1, <2>2, <2>3, <2>4
<1>4. CASE name \in {"cpu_util", "zpool"}
  <2>1. KstatCollector[name] \in {cpu_util, zpool}
    BY <1>4 DEF KstatCollector
  <2>2. cpu_util.limits = {} /\ cpu_util.by = "global" /\ cpu_util.labelled = TRUE
    BY DEF cpu_util, Zonewide
  <2>3. zpool.limits = {} /\ zpool.by = "global" /\ zpool.labelled = TRUE
    BY DEF zpool, Zonewide
  <2> QED
    BY <2>1, <2>2, <2>3
<1>5. CASE name = "memcap"
  BY <1>5 DEF KstatCollector, memcap, Zonewide
<1> QED
  BY <1>1, <1>2, <1>3, <1>4, <1>5

\* They read kstats of one zone, which differ in their unit.
LEMMA ReadsOneZone ==
  ASSUME RequestTypeOK,
         NEW name \in DOMAIN KstatCollector \ {"link"},
         NEW data, NEW kstats \in Kstats(name, data)
  PROVE  LET c    == KstatCollector[name]
             read == Read(c, request, kstats)
         IN  \/ \A k \in read : Same(data, GZ, 0, k) /\ k.unit \in UnitsOf(name)
                               /\ c.by = "global"
             \/ read \subseteq {Kstat(data, VM, zone.instance, "only")}
<1> DEFINE c    == KstatCollector[name]
<1> DEFINE read == Read(c, request, kstats)
<1>1. CASE c.by = "global"
  <2>1. kstats = {Kstat(data, GZ, 0, u) : u \in UnitsOf(name)}
    BY <1>1 DEF Kstats
  <2>2. read = kstats
    BY <1>1 DEF Read
  <2> QED
    BY <1>1, <2>1, <2>2, KstatFields
<1>2. CASE c.by = "instanceId"
  <2> DEFINE own   == {Kstat(data, VM, zone.instance, u) : u \in {"only"}}
  <2> DEFINE other == {Kstat(data, OtherVM, MaxInstance + 1, u) : u \in {"only"}}
  <2>1. kstats \subseteq own \cup other
    BY <1>2 DEF Kstats
  <2>2. read = {k \in kstats : k.instance = request.instanceId}
    BY <1>2 DEF Read
  <2>3. \A k \in other : k.instance = MaxInstance + 1
    BY KstatFields
  <2>4. request.instanceId # MaxInstance + 1
    BY ZoneReplyAssumption DEF RequestTypeOK
  <2>5. own = {Kstat(data, VM, zone.instance, "only")}
    OBVIOUS
  <2> HIDE DEF own, other, read
  <2>6. read \subseteq own
    BY <2>1, <2>2, <2>3, <2>4
  <2> QED
    BY <2>5, <2>6 DEF read
<1> QED
  BY <1>1, <1>2, Unlimited

\* No assertion of theirs fails, and only memcap throws at all.
LEMMA OnlyLimitsThrow ==
  ASSUME RequestTypeOK,
         NEW name \in DOMAIN KstatCollector \ {"link"},
         NEW nics, NEW reading \in Readings(name, nics)
  PROVE  /\ reading.outcome \in Outcomes \cup {"typeError"}
         /\ name # "memcap" => reading.outcome \in Outcomes
<1> DEFINE c == KstatCollector[name]
<1>1. PICK data \in Data(c) : \E kstats \in Kstats(name, data) :
        reading = ReadingOf(c, Read(c, request, kstats), nics)
  BY ReadingIs
<1>2. PICK kstats \in Kstats(name, data) :
        reading = ReadingOf(c, Read(c, request, kstats), nics)
  BY <1>1
<1> DEFINE read == Read(c, request, kstats)
<1>3. ~Asserts(c, read) /\ (name # "memcap" => ~LimitUnset(c, read))
  <2>1. /\ name # "memcap" => c.limits = {}
        /\ \/ c.by = "instanceId"
           \/ c.by = "global" /\ (c.labelled \/ UnitsOf(name) = {"only"})
    BY Unlimited
  <2>2. name # "memcap" => ~LimitUnset(c, read)
    BY <2>1 DEF LimitUnset, Unset
  <2>3. \/ \A k \in read : Same(data, GZ, 0, k) /\ k.unit \in UnitsOf(name)
                            /\ c.by = "global"
        \/ read \subseteq {Kstat(data, VM, zone.instance, "only")}
    BY ReadsOneZone
  <2> HIDE DEF read, c
  <2>4. ASSUME NEW x, read \subseteq {x} PROVE ~(Cardinality(read) > 1)
    <3>1. read = {} \/ read = {x}
      BY <2>4
    <3>2. Cardinality({}) = 0 /\ Cardinality({x}) = 1
      BY FS_EmptySet, FS_Singleton
    <3> QED
      BY <3>1, <3>2
  <2>5. CASE read \subseteq {Kstat(data, VM, zone.instance, "only")}
    BY <2>2, <2>4, <2>5 DEF Asserts
  <2>6. CASE \A k \in read : Same(data, GZ, 0, k) /\ k.unit \in UnitsOf(name)
                            /\ c.by = "global"
    <3>1. ASSUME NEW j \in read, NEW k \in read, SameLabel(c, j, k) PROVE j = k
      BY <2>6, <3>1 DEF SameLabel, Same
    <3>2. CASE c.labelled
      BY <2>2, <3>1, <3>2 DEF Asserts
    <3>3. CASE read # {} /\ ~c.labelled
      <4>1. UnitsOf(name) = {"only"}
        BY <2>1, <2>6, <3>3
      <4>2. read \subseteq {Kstat(data, GZ, 0, "only")}
        BY <2>6, <4>1 DEF Same
      <4> QED
        BY <2>2, <2>4, <3>1, <4>2 DEF Asserts
    <3>4. CASE read = {}
      BY <2>2, <2>4, <3>4 DEF Asserts
    <3> QED
      BY <3>2, <3>3, <3>4
  <2> QED
    BY <2>3, <2>5, <2>6
<1> QED
  BY <1>2, <1>3, OutcomeIs DEF Throws

-----------------------------------------------------------------------------
(* A collector calls back                                                  *)

\* What every collector's turn has in common.
Turn(name) ==
    /\ UnderWay
    /\ request.todo # <<>>
    /\ Head(request.todo) = name

LEMMA TurnIs ==
  ASSUME RequestInv, NEW name, Turn(name)
  PROVE  /\ reply = "none"
         /\ results.called \o request.todo = Pipeline(request.zonename, request.core)
         /\ Append(results.called, name) \o Tail(request.todo) =
              Pipeline(request.zonename, request.core)
         /\ Len(results.called) \in Nat
         /\ name = "link" => Len(results.called) = 1
         /\ name # "link" /\ request.zonename = VM => Len(results.called) # 1
         /\ name \in Collectors
<1>1. reply = "none" /\ request.todo \in Seq(Collectors) /\ results.called \in Seq(Collectors)
  BY DEF RequestInv, RequestTypeOK, InTurn, Turn, UnderWay
<1>2. results.called \o request.todo = Pipeline(request.zonename, request.core)
  BY <1>1 DEF RequestInv, InTurn, EachCallsBackOnce, Turn, UnderWay
<1>3. /\ Append(results.called, name) \o Tail(request.todo) = results.called \o request.todo
      /\ Len(results.called) + 1 \in 1..Len(results.called \o request.todo)
      /\ (results.called \o request.todo)[Len(results.called) + 1] = name
  BY <1>1, NextCollector DEF Turn
<1>4. /\ name = "link" => Len(results.called) + 1 = 2
      /\ request.zonename = VM /\ Len(results.called) + 1 = 2 => name = "link"
  BY <1>2, <1>3, LinkIsSecond
<1>5. name \in Collectors
  BY <1>1 DEF Turn
<1>6. Len(results.called) \in Nat
  BY <1>1
<1>7. /\ name = "link" => Len(results.called) = 1
      /\ name # "link" /\ request.zonename = VM => Len(results.called) # 1
  <2>1. \A n \in Nat : n + 1 = 2 <=> n = 1
    OBVIOUS
  <2>2. Len(results.called) + 1 = 2 <=> Len(results.called) = 1
    BY <1>6, <2>1
  <2> QED
    BY <1>4, <2>2
<1> QED
  BY <1>1, <1>2, <1>3, <1>5, <1>6, <1>7

\* The reply is the reason why nothing is said of the links, or they are sound.
FoundBy(name, outcome, found) ==
    /\ outcome \in {"metrics", "empty", "failed", "notFound"}
    /\ found \subseteq LinkMetrics
    /\ IF name = "link"
       THEN request.zonename = VM /\ zone.instance = request.instanceId
              /\ outcome = "metrics" =>
                Labelled(found, NicsOf[request.instanceId])
       ELSE found = {}

LEMMA CallsBackKeeps ==
  ASSUME RequestInv, NEW name, NEW outcome, NEW found,
         Turn(name), FoundBy(name, outcome, found),
         CallsBack(name, outcome, found),
         zone' = zone, query' \in [timer : {"off", "armed", "fired"},
                                  vminfod : {"none", "asked", "read", "answered"},
                                  nics : LinkNics, timedout : BOOLEAN],
         ~OpenQuery'
  PROVE  RequestInv'
<1>1. RequestTypeOK /\ InTurn /\ LinksKnown /\ LabelsOfThisInstance
  BY DEF RequestInv
<1>2. /\ reply = "none"
      /\ Append(results.called, name) \o Tail(request.todo) =
           Pipeline(request.zonename, request.core)
      /\ Len(results.called) \in Nat
      /\ name = "link" => Len(results.called) = 1
      /\ name # "link" /\ request.zonename = VM => Len(results.called) # 1
      /\ name \in Collectors
  BY TurnIs
<1>3. /\ results'.called = Append(results.called, name)
      /\ results'.link = results.link \cup found
      /\ results'.without = IF outcome \in {"empty", "failed"}
                            THEN results.without \cup {name} ELSE results.without
  BY DEF CallsBack
<1>4. /\ request' \in [pc : {"run", "replied"}, zonename : {GZ, VM}, core : BOOLEAN,
                       instanceId : 0..MaxInstance, todo : Seq(Collectors)]
      /\ request'.zonename = request.zonename /\ request'.core = request.core
      /\ request'.instanceId = request.instanceId
      /\ \/ /\ request'.pc = "run" /\ reply' = "none"
            /\ request'.todo = Tail(request.todo) /\ outcome # "notFound"
         \/ /\ request'.pc = "replied" /\ reply' = "notFound" /\ outcome = "notFound"
  <2>1. request \in [pc : {"idle", "run", "vminfod", "vmadm", "ports", "parse", "command",
                           "replied"},
                    zonename : {GZ, VM}, core : BOOLEAN,
                    instanceId : 0..MaxInstance, todo : Seq(Collectors)]
        /\ request.todo # <<>>
    BY <1>1 DEF RequestTypeOK, Turn
  <2>2. CASE outcome = "notFound"
    BY <2>1, <2>2 DEF CallsBack
  <2>3. CASE outcome # "notFound"
    <3>1. request' = [request EXCEPT !.pc = "run", !.todo = Tail(@)] /\ reply' = "none"
      BY <1>2, <2>3 DEF CallsBack
    <3>2. Tail(request.todo) \in Seq(Collectors)
      BY <2>1
    <3> QED
      BY <2>1, <2>3, <3>1, <3>2
  <2> QED
    BY <2>2, <2>3
<1>5. RequestTypeOK'
  <2>1. results'.called \in Seq(Collectors)
    BY <1>1, <1>2, <1>3 DEF RequestTypeOK
  <2>2. results'.without \subseteq Collectors /\ results'.link \subseteq LinkMetrics'
    BY <1>1, <1>2, <1>3 DEF RequestTypeOK, FoundBy, LinkMetrics
  <2> QED
    BY <1>1, <1>4, <2>1, <2>2 DEF RequestTypeOK, LinkNics
<1>6. InTurn'
  BY <1>2, <1>3, <1>4 DEF InTurn, EachCallsBackOnce
<1>7. LinksKnown'
  <2>1. Len(results'.called) = Len(results.called) + 1
    BY <1>1, <1>3 DEF RequestTypeOK
  <2>2. (UnderWay => request.instanceId <= zone.instance)'
    BY <1>1, <1>4 DEF LinksKnown, Turn
  <2>3. (Len(results.called) < 2 => results.link = {})'
    BY <1>1, <1>2, <1>3, <2>1 DEF LinksKnown, FoundBy
  <2>4. (UnderWay /\ request.zonename = VM /\ zone.instance = request.instanceId
          /\ Len(results.called) >= 2 /\ "link" \notin results.without =>
            Labelled(results.link, NicsOf[request.instanceId]))'
    <3>1. CASE name = "link"
      <4>1. results'.link = found
        BY <1>1, <1>2, <1>3, <3>1 DEF LinksKnown
      <4>2. "link" \notin results'.without /\ request'.pc = "run" => outcome = "metrics"
        BY <1>3, <1>4, <3>1 DEF FoundBy
      <4> QED
        BY <1>4, <3>1, <4>1, <4>2 DEF FoundBy, UnderWay
    <3>2. CASE name # "link"
      <4>1. results'.link = results.link /\ results.without \subseteq results'.without
        BY <1>3, <3>2 DEF FoundBy
      <4>2. UnderWay /\ request.zonename = VM /\ zone.instance = request.instanceId
              /\ Len(results.called) >= 2 /\ "link" \notin results.without =>
                Labelled(results.link, NicsOf[request.instanceId])
        BY <1>1 DEF LinksKnown
      <4>3. request.zonename = VM /\ Len(results'.called) >= 2 => Len(results.called) >= 2
        <5>1. \A n \in Nat : n # 1 /\ n + 1 >= 2 => n >= 2
          OBVIOUS
        <5> QED
          BY <1>2, <2>1, <3>2, <5>1
      <4>4. UnderWay
        BY DEF Turn
      <4>5. SUFFICES ASSUME request'.zonename = VM, zone'.instance = request'.instanceId,
                            Len(results'.called) >= 2, "link" \notin results'.without
                     PROVE  Labelled(results'.link, NicsOf[request'.instanceId])
        OBVIOUS
      <4> QED
        BY <1>4, <4>1, <4>2, <4>3, <4>4, <4>5
    <3> QED
      BY <3>1, <3>2
  <2>5. request'.pc # "vminfod"
    BY <1>4
  <2> QED
    BY <2>2, <2>3, <2>4, <2>5 DEF LinksKnown
<1>8. LabelsOfThisInstance' /\ AbortsOnlyUnlimited'
  BY <1>4 DEF LabelsOfThisInstance, AbortsOnlyUnlimited
<1> QED
  BY <1>5, <1>6, <1>7, <1>8 DEF RequestInv

-----------------------------------------------------------------------------
(* The actions                                                             *)

Queries == [timer : {"off", "armed", "fired"},
            vminfod : {"none", "asked", "read", "answered"},
            nics : LinkNics, timedout : BOOLEAN]

LEMMA ZoneKeeps ==
  ASSUME RequestInv, ZoneStops \/ ZoneStarts
  PROVE  RequestInv'
<1>1. UNCHANGED <<request, query, results, reply>>
  BY DEF ZoneStops, ZoneStarts
<1>2. /\ zone' \in [instance : 1..MaxInstance, up : BOOLEAN]
      /\ zone.instance \in 1..MaxInstance
      /\ zone'.instance = zone.instance \/ zone'.instance = zone.instance + 1
  <2>1. zone \in [instance : 1..MaxInstance, up : BOOLEAN]
    BY DEF RequestInv, RequestTypeOK
  <2>2. CASE ZoneStops
    <3>1. zone' = [zone EXCEPT !.up = FALSE]
      BY <2>2 DEF ZoneStops
    <3> QED
      BY <2>1, <3>1
  <2>3. CASE ZoneStarts
    <3>1. zone.instance < MaxInstance /\ zone' = [instance |-> zone.instance + 1, up |-> TRUE]
      BY <2>3 DEF ZoneStarts
    <3>2. zone.instance + 1 \in 1..MaxInstance
      BY <2>1, <3>1, ZoneReplyAssumption
    <3> QED
      BY <2>1, <3>1, <3>2
  <2> QED
    BY <2>2, <2>3
<1>3. RequestTypeOK'
  BY <1>1, <1>2 DEF RequestInv, RequestTypeOK, LinkNics, LinkMetrics
<1>4. InTurn'
  BY <1>1 DEF RequestInv, InTurn, EachCallsBackOnce, OpenQuery
<1>5. request.instanceId \in 0..MaxInstance
  BY DEF RequestInv, RequestTypeOK
<1>6. UnderWay /\ zone'.instance = request.instanceId => zone.instance = request.instanceId
  BY <1>2, <1>5 DEF RequestInv, LinksKnown
<1>7. UnderWay => request.instanceId <= zone'.instance
  BY <1>2, <1>5, ZoneReplyAssumption DEF RequestInv, LinksKnown
<1>8. LinksKnown'
  BY <1>1, <1>6, <1>7 DEF RequestInv, LinksKnown, UnderWay
<1>9. LabelsOfThisInstance' /\ AbortsOnlyUnlimited'
  BY <1>1 DEF RequestInv, LabelsOfThisInstance, AbortsOnlyUnlimited
<1> QED
  BY <1>3, <1>4, <1>8, <1>9 DEF RequestInv

LEMMA GetMetricsKeeps ==
  ASSUME RequestInv, NEW z \in {GZ, VM}, NEW core \in BOOLEAN, GetMetrics(z, core)
  PROVE  RequestInv'
<1>1. UNCHANGED <<zone, query, results>> /\ request.pc = "idle" /\ results = NoResults
        /\ reply = "none" /\ ~OpenQuery
  BY DEF GetMetrics, RequestInv, InTurn
<1>2. Pipeline(z, core) \in Seq(Collectors)
  BY PipelineType
<1>3. /\ zone.instance \in 1..MaxInstance
      /\ query \in Queries
      /\ results.called \in Seq(Collectors) /\ results.without \subseteq Collectors
      /\ results.link \subseteq LinkMetrics
  BY DEF RequestInv, RequestTypeOK, Queries
<1>4. results.called = <<>> /\ results.link = {}
  BY <1>1 DEF NoResults
<1>5. \/ /\ reply' = "notFound"
         /\ request' = [NoRequest EXCEPT !.pc = "replied", !.zonename = z, !.core = core]
      \/ /\ request' = [pc |-> "run", zonename |-> z, core |-> core,
                        instanceId |-> IF z = GZ THEN 0 ELSE zone.instance,
                        todo |-> Pipeline(z, core)]
         /\ reply' = reply
  BY DEF GetMetrics
<1>6. /\ request' \in [pc : {"run", "replied"}, zonename : {GZ, VM}, core : BOOLEAN,
                       instanceId : 0..MaxInstance, todo : Seq(Collectors)]
      /\ \/ reply' = "notFound" /\ request'.pc = "replied"
         \/ /\ reply' = "none" /\ request'.pc = "run"
            /\ request'.todo = Pipeline(request'.zonename, request'.core)
            /\ request'.instanceId \in {0, zone.instance}
  <2>1. <<>> \in Seq(Collectors) /\ 0 \in 0..MaxInstance /\ zone.instance \in 0..MaxInstance
    BY <1>3, ZoneReplyAssumption
  <2>2. CASE reply' = "notFound"
             /\ request' = [NoRequest EXCEPT !.pc = "replied", !.zonename = z, !.core = core]
    <3>1. request' = [pc |-> "replied", zonename |-> z, core |-> core, instanceId |-> 0,
                      todo |-> <<>>]
      BY <2>2 DEF NoRequest
    <3>2. request'.pc = "replied"
      BY <3>1
    <3>3. request' \in [pc : {"run", "replied"}, zonename : {GZ, VM}, core : BOOLEAN,
                       instanceId : 0..MaxInstance, todo : Seq(Collectors)]
      BY <2>1, <3>1
    <3> QED
      BY <2>2, <3>2, <3>3
  <2>3. CASE request' = [pc |-> "run", zonename |-> z, core |-> core,
                         instanceId |-> IF z = GZ THEN 0 ELSE zone.instance,
                         todo |-> Pipeline(z, core)] /\ reply' = reply
    BY <1>1, <1>2, <2>1, <2>3
  <2> QED
    BY <1>5, <2>2, <2>3
<1>7. RequestTypeOK'
  BY <1>1, <1>3, <1>6 DEF RequestInv, RequestTypeOK, LinkNics, LinkMetrics
<1>8. InTurn'
  <2>1. <<>> \o Pipeline(request'.zonename, request'.core) =
          Pipeline(request'.zonename, request'.core)
    BY PipelineType
  <2> QED
    BY <1>1, <1>4, <1>6, <2>1 DEF InTurn, EachCallsBackOnce, OpenQuery
<1>9. LinksKnown'
  BY <1>1, <1>3, <1>4, <1>6 DEF LinksKnown, UnderWay
<1>10. LabelsOfThisInstance' /\ AbortsOnlyUnlimited'
  BY <1>6 DEF LabelsOfThisInstance, AbortsOnlyUnlimited
<1> QED
  BY <1>7, <1>8, <1>9, <1>10 DEF RequestInv

LEMMA AbortsKeeps ==
  ASSUME RequestInv, Turn("memcap"), ~OpenQuery, Aborts("typeError"),
         UNCHANGED <<zone, query>>
  PROVE  RequestInv'
<1>1. RequestTypeOK /\ InTurn /\ LinksKnown
  BY DEF RequestInv
<1>2. /\ request' = [request EXCEPT !.pc = "replied"]
      /\ reply' = "typeError" /\ results' = results
  BY DEF Aborts
<1>3. /\ request'.pc = "replied" /\ request'.todo = request.todo
      /\ request' \in [pc : {"replied"}, zonename : {GZ, VM}, core : BOOLEAN,
                       instanceId : 0..MaxInstance, todo : Seq(Collectors)]
  BY <1>1, <1>2 DEF RequestTypeOK
<1>4. RequestTypeOK'
  BY <1>1, <1>2, <1>3 DEF RequestTypeOK, LinkNics, LinkMetrics, Thrown
<1>5. InTurn'
  BY <1>2, <1>3 DEF InTurn, EachCallsBackOnce, OpenQuery
<1>6. LinksKnown'
  BY <1>1, <1>2, <1>3 DEF LinksKnown, UnderWay
<1>7. LabelsOfThisInstance' /\ AbortsOnlyUnlimited'
  BY <1>2, <1>3 DEF LabelsOfThisInstance, AbortsOnlyUnlimited, Turn
<1> QED
  BY <1>4, <1>5, <1>6, <1>7 DEF RequestInv

\* A collector other than link has called back.
LEMMA OtherCallsBack ==
  ASSUME RequestInv, NEW name, name # "link", Turn(name), ~OpenQuery,
         NEW outcome \in Outcomes, CallsBack(name, outcome, {}),
         UNCHANGED <<zone, query>>
  PROVE  RequestInv'
<1>1. FoundBy(name, outcome, {})
  BY DEF FoundBy, Outcomes
<1>2. query' \in Queries /\ ~OpenQuery'
  BY DEF RequestInv, RequestTypeOK, Queries, OpenQuery
<1> QED
  BY <1>1, <1>2, CallsBackKeeps DEF Queries

LEMMA AtIsTurn ==
  ASSUME RequestInv, NEW pc \in {"run", "vmadm", "ports", "parse", "command"}, NEW name, At(pc, name)
  PROVE  Turn(name) /\ ~OpenQuery
BY DEF RequestInv, InTurn, At, Turn, UnderWay

LEMMA OnlyKstatsKeeps ==
  ASSUME RequestInv, NEW name, OnlyKstats(name)
  PROVE  RequestInv'
<1>1. name \in DOMAIN KstatCollector \ {"link", "zpool"} /\ UNCHANGED <<zone, query>>
  BY DEF OnlyKstats
<1>2. Turn(name) /\ ~OpenQuery
  BY AtIsTurn DEF OnlyKstats
<1>3. PICK reading \in Readings(name, NoNics) :
        IF reading.outcome \in Thrown THEN Aborts(reading.outcome)
        ELSE CallsBack(name, reading.outcome, {})
  BY DEF OnlyKstats
<1>4. CASE reading.outcome \in Outcomes
  BY <1>1, <1>2, <1>3, <1>4, OtherCallsBack DEF Outcomes, Thrown
<1>5. CASE reading.outcome = "typeError"
  <2>1. "typeError" \notin Outcomes
    BY DEF Outcomes
  <2>2. name = "memcap"
    BY <1>1, <1>5, <2>1, OnlyLimitsThrow DEF RequestInv
  <2> QED
    BY <1>1, <1>2, <1>3, <1>5, <2>2, AbortsKeeps DEF Thrown
<1> QED
  BY <1>1, <1>4, <1>5, OnlyLimitsThrow DEF RequestInv

LEMMA ConfirmSanityKeeps ==
  ASSUME RequestInv, ConfirmSanity
  PROVE  RequestInv'
<1>1. RequestTypeOK /\ InTurn /\ LinksKnown
  BY DEF RequestInv
<1>2. /\ UNCHANGED <<zone, query, results>>
      /\ request.pc = "run" /\ request.todo = <<>>
      /\ request' = [request EXCEPT !.pc = "replied"]
      /\ reply' = IF SameInstance THEN "ok" ELSE "notFound"
  BY DEF ConfirmSanity
<1>3. /\ request'.pc = "replied" /\ request'.todo = request.todo
      /\ request'.zonename = request.zonename /\ request'.core = request.core
      /\ request'.instanceId = request.instanceId
      /\ request' \in [pc : {"replied"}, zonename : {GZ, VM}, core : BOOLEAN,
                       instanceId : 0..MaxInstance, todo : Seq(Collectors)]
  BY <1>1, <1>2 DEF RequestTypeOK
<1>4. RequestTypeOK'
  BY <1>1, <1>2, <1>3 DEF RequestTypeOK, LinkNics, LinkMetrics
<1>5. ~OpenQuery /\ reply = "none"
      /\ results.called \o request.todo = Pipeline(request.zonename, request.core)
  BY <1>1, <1>2 DEF InTurn, EachCallsBackOnce
<1>6. InTurn'
  BY <1>2, <1>3, <1>5 DEF InTurn, EachCallsBackOnce, OpenQuery
<1>7. LinksKnown'
  BY <1>1, <1>2, <1>3 DEF LinksKnown, UnderWay
<1>8. LabelsOfThisInstance'
  <2> SUFFICES ASSUME reply' = "ok", request'.zonename = VM, "link" \notin results'.without
               PROVE  Labelled(results.link, NicsOf[request.instanceId])
    BY <1>2, <1>3 DEF LabelsOfThisInstance, Labelled
  <2>1. zone.instance = request.instanceId
    BY <1>2, <1>3 DEF SameInstance
  <2>2. results.called = Pipeline(VM, request.core)
    BY <1>1, <1>2, <1>3, <1>5 DEF RequestTypeOK
  <2>3. Len(Pipeline(VM, request.core)) >= 2
    <3>1. CASE request.core
      BY <3>1, ThreeZones DEF Pipeline
    <3>2. CASE ~request.core
      BY <3>2, ThreeZones DEF Pipeline
    <3> QED
      BY <3>1, <3>2
  <2> QED
    BY <1>1, <1>2, <1>3, <2>1, <2>2, <2>3 DEF LinksKnown, UnderWay
<1>9. AbortsOnlyUnlimited'
  BY <1>2 DEF AbortsOnlyUnlimited
<1> QED
  BY <1>4, <1>6, <1>7, <1>8, <1>9 DEF RequestInv

LEMMA NextRequestKeeps ==
  ASSUME RequestInv, NextRequest
  PROVE  RequestInv'
<1>1. /\ zone' = zone /\ request' = NoRequest /\ query' = NoQuery
      /\ results' = NoResults /\ reply' = "none"
  BY DEF NextRequest
<1>2. RequestTypeOK'
  <2>1. results'.called \in Seq(Collectors) /\ results'.without \subseteq Collectors
          /\ results'.link \subseteq LinkMetrics'
    BY <1>1 DEF NoResults
  <2>2. request'.todo \in Seq(Collectors)
    BY <1>1 DEF NoRequest
  <2>3. query' \in Queries
    BY <1>1 DEF NoQuery, Queries, LinkNics
  <2>4. zone' \in [instance : 1..MaxInstance, up : BOOLEAN]
    BY <1>1 DEF RequestInv, RequestTypeOK
  <2>5. request' \in [pc : {"idle"}, zonename : {GZ, VM}, core : BOOLEAN,
                     instanceId : 0..MaxInstance, todo : Seq(Collectors)]
    BY <1>1, <2>2, ZoneReplyAssumption DEF NoRequest
  <2> QED
    BY <1>1, <2>1, <2>3, <2>4, <2>5 DEF RequestTypeOK, Queries, LinkNics, LinkMetrics
<1>3. InTurn'
  BY <1>1 DEF InTurn, EachCallsBackOnce, OpenQuery, NoRequest, NoQuery
<1>4. LinksKnown'
  BY <1>1 DEF LinksKnown, UnderWay, NoRequest, NoResults
<1>5. LabelsOfThisInstance' /\ AbortsOnlyUnlimited'
  BY <1>1 DEF LabelsOfThisInstance, AbortsOnlyUnlimited
<1> QED
  BY <1>2, <1>3, <1>4, <1>5 DEF RequestInv

\* The request goes on to wait for its collector.
LEMMA WaitsFor ==
  ASSUME RequestInv, NEW name, Turn(name), request.pc # "vminfod",
         NEW pc \in {"vminfod", "vmadm", "ports", "parse", "command"},
         request' = [request EXCEPT !.pc = pc],
         UNCHANGED <<zone, results, reply>>,
         IF pc = "vminfod"
         THEN /\ name = "link"
              /\ query' = [NoQuery EXCEPT !.timer = "armed", !.vminfod = "asked"]
         ELSE query' = query,
         pc = "command" => name # "link"
  PROVE  RequestInv'
<1>1. RequestTypeOK /\ InTurn /\ LinksKnown
  BY DEF RequestInv
<1>2. /\ request'.pc = pc /\ request'.todo = request.todo
      /\ request'.zonename = request.zonename /\ request'.core = request.core
      /\ request'.instanceId = request.instanceId
      /\ request' \in [pc : {pc}, zonename : {GZ, VM}, core : BOOLEAN,
                       instanceId : 0..MaxInstance, todo : Seq(Collectors)]
  BY <1>1 DEF RequestTypeOK
<1>3. query' \in Queries /\ (pc = "vminfod" => ~query'.timedout /\ query'.vminfod = "asked")
  BY <1>1 DEF RequestTypeOK, Queries, NoQuery, LinkNics
<1>4. RequestTypeOK'
  BY <1>1, <1>2, <1>3 DEF RequestTypeOK, LinkNics, LinkMetrics, Queries
<1>5. UnderWay /\ ~OpenQuery /\ reply = "none" /\ request.todo # <<>>
      /\ results.called \o request.todo = Pipeline(request.zonename, request.core)
  BY <1>1 DEF InTurn, EachCallsBackOnce, Turn, UnderWay
<1>6. InTurn'
  BY <1>2, <1>3, <1>5 DEF InTurn, EachCallsBackOnce, OpenQuery, Turn
<1>7. LinksKnown'
  BY <1>1, <1>2, <1>3, <1>5 DEF LinksKnown, UnderWay
<1>8. LabelsOfThisInstance' /\ AbortsOnlyUnlimited'
  BY <1>5 DEF LabelsOfThisInstance, AbortsOnlyUnlimited
<1> QED
  BY <1>4, <1>6, <1>7, <1>8 DEF RequestInv

\* Whichever of the timer and the answer comes first, and later the other.
LEMMA DoneKeeps ==
  ASSUME RequestInv, NEW nics \in LinkNics, NEW q \in Queries,
         q.timedout = query.timedout, query.timedout \/ OpenQuery,
         \/ nics = NoNics
         \/ request.pc = "vminfod" /\ zone.instance = request.instanceId =>
              nics = NicsOf[request.instanceId],
         Done(nics, q), zone' = zone
  PROVE  RequestInv'
<1>1. RequestTypeOK /\ InTurn /\ LinksKnown
  BY DEF RequestInv
<1>2. CASE query.timedout
  <2>1. query' = q /\ UNCHANGED <<request, results, reply>> /\ query'.timedout
    BY <1>2 DEF Done
  <2>2. RequestTypeOK'
    BY <1>1, <2>1 DEF RequestTypeOK, LinkNics, LinkMetrics, Queries
  <2>3. request.pc # "vminfod"
    BY <1>1, <1>2 DEF InTurn
  <2>4. InTurn' /\ LinksKnown'
    BY <1>1, <2>1, <2>3 DEF InTurn, EachCallsBackOnce, OpenQuery, LinksKnown, UnderWay
  <2>5. LabelsOfThisInstance' /\ AbortsOnlyUnlimited'
    BY <2>1 DEF RequestInv, LabelsOfThisInstance, AbortsOnlyUnlimited
  <2> QED
    BY <2>2, <2>4, <2>5 DEF RequestInv
<1>3. CASE ~query.timedout
  <2>1. request.pc = "vminfod" /\ Turn("link")
    BY <1>1, <1>3 DEF InTurn, Turn, UnderWay
  <2>2. query' = [q EXCEPT !.timedout = TRUE]
    BY <1>3 DEF Done
  <2>3. query' \in Queries /\ query'.timedout
    BY <2>2 DEF Queries
  <2>4. PICK reading \in Readings("link", nics) :
          IF reading.outcome \in Thrown THEN Aborts(reading.outcome)
          ELSE CallsBack("link", reading.outcome, reading.metrics)
    BY <1>3 DEF Done
  <2>5. /\ reading.outcome \in {"failed", "notFound", "metrics"}
        /\ reading.metrics \subseteq LinkMetrics
        /\ request.zonename = VM /\ reading.outcome = "metrics" =>
              {metric.label : metric \in reading.metrics} =
                {[unit |-> p, network |-> NetworkOf(nics, p)] :
                   p \in DOMAIN NicsOf[zone.instance]}
    BY <1>1, LinkKeeps DEF RequestTypeOK
  <2>6. ASSUME request.zonename = VM, zone.instance = request.instanceId,
               reading.outcome = "metrics"
        PROVE  Labelled(reading.metrics, NicsOf[request.instanceId])
    <3>1. CASE nics = NoNics
      <4>1. \A p : NetworkOf(nics, p) = Unknown
        BY <3>1 DEF NetworkOf, NoNics
      <4> QED
        BY <2>5, <2>6, <4>1 DEF Labelled
    <3>2. CASE nics = NicsOf[request.instanceId]
      <4>1. \A p \in DOMAIN nics : NetworkOf(nics, p) = nics[p]
        BY DEF NetworkOf
      <4> QED
        BY <2>5, <2>6, <3>2, <4>1 DEF Labelled
    <3> QED
      BY <2>1, <2>6, <3>1, <3>2
  <2>7. FoundBy("link", reading.outcome, reading.metrics)
    BY <2>5, <2>6 DEF FoundBy
  <2> QED
    BY <2>1, <2>3, <2>4, <2>5, <2>7, CallsBackKeeps DEF Queries, OpenQuery, Thrown
<1> QED
  BY <1>2, <1>3

LEMMA LinkActionsKeep ==
  ASSUME RequestInv, AskVminfod \/ TimerFires \/ VminfodReads \/ VminfodAnswers \/ VminfodFails
  PROVE  RequestInv'
<1>1. RequestTypeOK /\ InTurn /\ LinksKnown
  BY DEF RequestInv
<1>2. query \in Queries /\ NoNics \in LinkNics /\ query.nics \in LinkNics
  BY <1>1 DEF RequestTypeOK, Queries, LinkNics
<1>3. CASE AskVminfod
  <2>1. Turn("link") /\ request.pc # "vminfod"
    BY <1>3, AtIsTurn DEF AskVminfod, At
  <2> QED
    BY <1>3, <2>1, WaitsFor DEF AskVminfod
<1>4. CASE TimerFires
  <2> DEFINE q == [query EXCEPT !.timer = "fired"]
  <2>1. q \in Queries /\ q.timedout = query.timedout
    BY <1>2 DEF Queries
  <2>2. query.timedout \/ OpenQuery
    BY <1>4 DEF TimerFires, OpenQuery
  <2>3. Done(NoNics, q) /\ zone' = zone
    BY <1>4 DEF TimerFires
  <2> QED
    BY <1>2, <2>1, <2>2, <2>3, DoneKeeps
<1>5. CASE VminfodReads
  <2>1. /\ UNCHANGED <<zone, request, results, reply>>
        /\ OpenQuery
        /\ query' = [query EXCEPT !.vminfod = "read", !.nics = NicsOf[zone.instance]]
    BY <1>5 DEF VminfodReads, OpenQuery
  <2>2. query' \in Queries /\ query'.timedout = query.timedout
          /\ query'.nics = NicsOf[zone.instance]
    BY <1>1, <1>2, <2>1 DEF RequestTypeOK, Queries, LinkNics
  <2>3. RequestTypeOK'
    BY <1>1, <2>1, <2>2 DEF RequestTypeOK, LinkNics, LinkMetrics, Queries
  <2>4. InTurn' /\ LinksKnown'
    BY <1>1, <2>1, <2>2 DEF InTurn, EachCallsBackOnce, OpenQuery, LinksKnown, UnderWay
  <2>5. LabelsOfThisInstance' /\ AbortsOnlyUnlimited'
    BY <2>1 DEF RequestInv, LabelsOfThisInstance, AbortsOnlyUnlimited
  <2> QED
    BY <2>3, <2>4, <2>5 DEF RequestInv
<1>6. CASE VminfodAnswers
  <2> DEFINE q == [query EXCEPT !.vminfod = "answered"]
  <2>1. q \in Queries /\ q.timedout = query.timedout
    BY <1>2 DEF Queries
  <2>2. query.vminfod = "read" /\ (query.timedout \/ OpenQuery)
    BY <1>6 DEF VminfodAnswers, OpenQuery
  <2>3. Done(query.nics, q) /\ zone' = zone
    BY <1>6 DEF VminfodAnswers
  <2>4. request.pc = "vminfod" /\ zone.instance = request.instanceId =>
          query.nics = NicsOf[request.instanceId]
    BY <1>1, <2>2 DEF LinksKnown
  <2> QED
    BY <1>2, <2>1, <2>2, <2>3, <2>4, DoneKeeps
<1>7. CASE VminfodFails
  <2> DEFINE q == [query EXCEPT !.vminfod = "answered"]
  <2>1. q \in Queries /\ q.timedout = query.timedout
    BY <1>2 DEF Queries
  <2>2. query.timedout \/ OpenQuery
    BY <1>7 DEF VminfodFails, OpenQuery
  <2>3. Done(NoNics, q) /\ zone' = zone
    BY <1>7 DEF VminfodFails
  <2> QED
    BY <1>2, <2>1, <2>2, <2>3, DoneKeeps
<1> QED
  BY <1>3, <1>4, <1>5, <1>6, <1>7

\* zpool's kstats are read before its command is run.
LEMMA ForkZpoolKeeps ==
  ASSUME RequestInv, ForkZpool
  PROVE  RequestInv'
<1>1. Turn("zpool") /\ ~OpenQuery /\ request.pc # "vminfod" /\ UNCHANGED <<zone, query>>
  BY AtIsTurn DEF ForkZpool, At
<1>2. PICK reading \in Readings("zpool", NoNics) :
        CASE reading.outcome \in Thrown -> Aborts(reading.outcome)
          [] reading.outcome = "metrics" ->
               /\ request' = [request EXCEPT !.pc = "command"]
               /\ UNCHANGED <<results, reply>>
          [] OTHER -> CallsBack("zpool", reading.outcome, {})
  BY DEF ForkZpool
<1>3. "zpool" \in DOMAIN KstatCollector \ {"link"}
  BY DEF KstatCollector
<1>4. reading.outcome \in Outcomes
  BY <1>3, OnlyLimitsThrow DEF RequestInv
<1>5. CASE reading.outcome = "metrics"
  <2>1. request' = [request EXCEPT !.pc = "command"] /\ UNCHANGED <<results, reply>>
    BY <1>2, <1>5 DEF Thrown
  <2> QED
    BY <1>1, <2>1, WaitsFor
<1>6. CASE reading.outcome # "metrics"
  <2>1. CallsBack("zpool", reading.outcome, {})
    BY <1>2, <1>4, <1>6 DEF Outcomes, Thrown
  <2> QED
    BY <1>1, <1>4, <2>1, OtherCallsBack
<1> QED
  BY <1>5, <1>6

LEMMA CommandsKeep ==
  ASSUME RequestInv, ForkZfs \/ ForkZpool \/ CommandEnds
  PROVE  RequestInv'
<1>1. CASE ForkZfs
  <2>1. Turn("zfs") /\ request.pc # "vminfod"
    BY <1>1, AtIsTurn DEF ForkZfs, At
  <2> QED
    BY <1>1, <2>1, WaitsFor DEF ForkZfs
<1>2. CASE CommandEnds
  <2>1. request.pc = "command" /\ UNCHANGED <<zone, query>>
    BY <1>2 DEF CommandEnds
  <2>2. PICK outcome \in {"metrics", "failed"} : CallsBack(Head(request.todo), outcome, {})
    BY <1>2 DEF CommandEnds
  <2>3. Turn(Head(request.todo)) /\ ~OpenQuery /\ Head(request.todo) # "link"
    BY <2>1 DEF RequestInv, InTurn, Turn, UnderWay
  <2> QED
    BY <2>1, <2>2, <2>3, OtherCallsBack DEF Outcomes
<1> QED
  BY <1>1, <1>2, ForkZpoolKeeps

ScrapeActions ==
    \/ AskVmadm
    \/ \E pc \in {"run", "vmadm"} : ScrapePorts(pc) \/ NothingToScrape(pc)
    \/ \E p \in Ports : PortAnswers(p) \/ PortFails(p)
    \/ NoneAnswered
    \/ ParseAnswers
    \/ ParserStep
    \/ AnswersParsed

LEMMA ScrapeKeepsRequest ==
  ASSUME RequestInv, ScrapeActions
  PROVE  RequestInv'
<1>0. CASE AskVmadm
  <2>1. Turn("triton_core") /\ request.pc # "vminfod"
    BY <1>0, AtIsTurn DEF AskVmadm, At
  <2> QED
    BY <1>0, <2>1, WaitsFor DEF AskVmadm
<1>1. ASSUME NEW pc \in {"run", "vmadm"}, ScrapePorts(pc) PROVE RequestInv'
  <2>1. Turn("triton_core") /\ request.pc # "vminfod"
    BY <1>1, AtIsTurn DEF ScrapePorts, At
  <2> QED
    BY <1>1, <2>1, WaitsFor DEF ScrapePorts
<1>2. ASSUME NEW pc \in {"run", "vmadm"}, NothingToScrape(pc) PROVE RequestInv'
  <2>1. Turn("triton_core") /\ ~OpenQuery
    BY <1>2, AtIsTurn DEF NothingToScrape
  <2>2. PICK outcome \in {"failed", "empty"} : CallsBack("triton_core", outcome, {})
    BY <1>2 DEF NothingToScrape
  <2> QED
    BY <1>2, <2>1, <2>2, OtherCallsBack DEF NothingToScrape, Outcomes
<1>3. CASE (\E p \in Ports : PortAnswers(p) \/ PortFails(p)) \/ ParserStep
  BY <1>3, RequestInvKept DEF PortAnswers, PortFails, ParserStep, requestVars
<1>4. CASE NoneAnswered
  <2>1. Turn("triton_core") /\ ~OpenQuery
    BY <1>4, AtIsTurn DEF NoneAnswered, AllScraped
  <2> QED
    BY <1>4, <2>1, OtherCallsBack DEF NoneAnswered, Outcomes
<1>5. CASE ParseAnswers
  <2>1. Turn("triton_core") /\ request.pc # "vminfod"
    BY <1>5, AtIsTurn DEF ParseAnswers, AllScraped, At
  <2> QED
    BY <1>5, <2>1, WaitsFor DEF ParseAnswers
<1>6. CASE AnswersParsed
  <2>1. Turn("triton_core") /\ ~OpenQuery
    BY <1>6, AtIsTurn DEF AnswersParsed
  <2>2. TritonOutcome \in {"failed", "empty", "metrics"}
    BY DEF TritonOutcome
  <2> QED
    BY <1>6, <2>1, <2>2, OtherCallsBack DEF AnswersParsed, Outcomes
<1> QED
  BY <1>0, <1>1, <1>2, <1>3, <1>4, <1>5, <1>6 DEF ScrapeActions

LEMMA ScrapeKeepsPorts ==
  ASSUME PortsTypeOK, ScrapeActions
  PROVE  PortsTypeOK'
<1>1. CASE UNCHANGED ports
  BY <1>1 DEF PortsTypeOK
<1>2. CASE ports' = NoScrape
  BY <1>2 DEF PortsTypeOK, NoScrape
<1>3. ASSUME NEW pc, ScrapePorts(pc) PROVE PortsTypeOK'
  <2>1. PICK silent \in SUBSET Ports :
          ports' = [NoScrape EXCEPT !.open = Ports \ silent, !.silent = silent]
    BY <1>3 DEF ScrapePorts
  <2>2. ports' = [open |-> Ports \ silent, silent |-> silent, answered |-> {}, joined |-> <<>>]
    BY <2>1 DEF NoScrape
  <2>3. <<>> \in Seq(Line)
    OBVIOUS
  <2>4. {} \in SUBSET [text : Seq(Line), from : Nat] /\ Ports \ silent \in SUBSET Ports
    OBVIOUS
  <2> QED
    BY <2>2, <2>3, <2>4 DEF PortsTypeOK
<1>4. ASSUME NEW p \in Ports, PortAnswers(p) PROVE PortsTypeOK'
  <2>1. PICK t \in TextsOf[p] : ports' = [ports EXCEPT
           !.open     = @ \ {p},
           !.answered = @ \cup {[text |-> t, from |-> Len(ports.joined)]},
           !.joined   = @ \o t]
    BY <1>4 DEF PortAnswers
  <2>2. t \in Seq(Line)
    BY ZoneReplyAssumption
  <2>3. ports.joined \o t \in Seq(Line) /\ Len(ports.joined) \in Nat
    BY <2>2 DEF PortsTypeOK
  <2>4. [text |-> t, from |-> Len(ports.joined)] \in [text : Seq(Line), from : Nat]
    BY <2>2, <2>3
  <2> QED
    BY <2>1, <2>3, <2>4 DEF PortsTypeOK
<1>5. ASSUME NEW p \in Ports, PortFails(p) PROVE PortsTypeOK'
  BY <1>5 DEF PortFails, PortsTypeOK
<1> QED
  BY <1>1, <1>2, <1>3, <1>4, <1>5
     DEF ScrapeActions, AskVmadm, NothingToScrape, NoneAnswered, ParseAnswers, ParserStep,
         AnswersParsed

LEMMA ScrapeKeepsParser ==
  ASSUME PortsTypeOK, ParserInv, ScrapeActions
  PROVE  ParserInv'
<1>1. CASE UNCHANGED parserVars
  BY <1>1, ParserInvKept
<1>2. CASE ParseAnswers
  BY <1>2, ParseBegins DEF ParseAnswers, PortsTypeOK
<1>3. CASE ParserStep
  BY <1>3, ParserKeeps, NameAssumption DEF ParserStep
<1>4. CASE AnswersParsed
  BY <1>4, ParserForgets DEF AnswersParsed
<1> QED
  BY <1>1, <1>2, <1>3, <1>4
     DEF ScrapeActions, AskVmadm, ScrapePorts, NothingToScrape, PortAnswers, PortFails,
         NoneAnswered

-----------------------------------------------------------------------------
(* The theorems                                                            *)

LEMMA InvKept == ASSUME Inv, [Next]_vars PROVE Inv'
<1> USE DEF Inv
<1>1. CASE ScrapeActions
  BY <1>1, ScrapeKeepsRequest, ScrapeKeepsPorts, ScrapeKeepsParser
<1>2. CASE UNCHANGED <<ports, parserVars>> /\ RequestInv'
  <2>1. PortsTypeOK'
    BY <1>2 DEF PortsTypeOK
  <2> QED
    BY <1>2, <2>1, ParserInvKept
<1>3. CASE NextRequest
  <2>1. PortsTypeOK'
    BY <1>3 DEF NextRequest, NoScrape, PortsTypeOK
  <2> QED
    BY <1>3, <2>1, NextRequestKeeps, ParserInvKept DEF NextRequest
<1>4. CASE ZoneStops \/ ZoneStarts
  BY <1>2, <1>4, ZoneKeeps DEF ZoneStops, ZoneStarts
<1>5. ASSUME NEW z \in {GZ, VM}, NEW core \in BOOLEAN, GetMetrics(z, core) PROVE Inv'
  BY <1>2, <1>5, GetMetricsKeeps DEF GetMetrics
<1>6. ASSUME NEW name, OnlyKstats(name) PROVE Inv'
  BY <1>2, <1>6, OnlyKstatsKeeps DEF OnlyKstats
<1>7. CASE AskVminfod \/ TimerFires \/ VminfodReads \/ VminfodAnswers \/ VminfodFails
  BY <1>2, <1>7, LinkActionsKeep
     DEF AskVminfod, TimerFires, VminfodReads, VminfodAnswers, VminfodFails
<1>8. CASE ForkZfs \/ ForkZpool \/ CommandEnds
  BY <1>2, <1>8, CommandsKeep DEF ForkZfs, ForkZpool, CommandEnds
<1>9. CASE ConfirmSanity
  BY <1>2, <1>9, ConfirmSanityKeeps DEF ConfirmSanity
<1>10. CASE UNCHANGED vars
  BY <1>2, <1>10, RequestInvKept DEF vars, requestVars
<1> QED
  BY <1>1, <1>3, <1>4, <1>5, <1>6, <1>7, <1>8, <1>9, <1>10
     DEF Next, RequestStep, Due, VmadmEnds, ScrapeActions

LEMMA InvHolds == Spec => []Inv
<1>1. Init => Inv
  BY InvBegins
<1>2. Inv /\ [Next]_vars => Inv'
  BY InvKept
<1> QED
  BY <1>1, <1>2, PTL DEF Spec

\* The variables have their types, for any number of restarts.
THEOREM TypeCorrect == Spec => []TypeOK
<1>1. Inv => TypeOK
  BY InvTypes
<1> QED
  BY <1>1, InvHolds, PTL

\* Whatever the ports answer with, of any length, promToMetrics accepts it if
\* and only if each of its blocks has a TYPE line, but for HELP lines at its end
\* that come to nothing, and no line of it is refused, and it then finds the
\* metrics of the blocks (parse-common.js:60).
THEOREM TextsParsedByBlocks == Spec => []ParsesByBlocks
<1>1. Inv => ParsesByBlocks
  BY DEF Inv, ParserInv
<1> QED
  BY <1>1, InvHolds, PTL

\* Whichever of its timer and its answer comes first, link calls back once and
\* in its turn, and so does every other collector (link.js:63).
THEOREM CollectorsCallBackOnce == Spec => []EachCallsBackOnce
<1>1. Inv => EachCallsBackOnce
  BY DEF Inv, RequestInv, InTurn
<1> QED
  BY <1>1, InvHolds, PTL

\* The labels of a reply's links are those of the instance the request began
\* with, whatever becomes of the zone while vminfod is asked (link.js:154).
THEOREM LinksLabelledSoundly == Spec => []LabelsOfThisInstance
<1>1. Inv => LabelsOfThisInstance
  BY DEF Inv, RequestInv
<1> QED
  BY <1>1, InvHolds, PTL

\* No collector meets two kstats that it does not tell apart, so no assertion
\* about them fails; what ends the process is memcap's TypeError for an unset
\* limit (kstat-common.js:86).
THEOREM OnlyMemcapAborts == Spec => []AbortsOnlyUnlimited
<1>1. Inv => AbortsOnlyUnlimited
  BY DEF Inv, RequestInv
<1> QED
  BY <1>1, InvHolds, PTL

-----------------------------------------------------------------------------
(* Answers that are put together, parsed and served                        *)

\* The answers are put one after the other, and nothing else.
Joined ==
    /\ \A answer \in ports.answered : Part(answer.text, ports.joined, answer.from)
    /\ \A k \in 1..Len(ports.joined) : \E answer \in ports.answered :
         k \in (answer.from + 1)..(answer.from + Len(answer.text))

ParsesJoined ==
    request.pc = "parse" =>
      text = ports.joined /\ parser.status # "off" /\ ports.open = {}

WithoutCalled == results.without \subseteq Range(results.called)

Scraped == Joined /\ ParsesJoined /\ WithoutCalled

LEMMA ScrapedBegins == ASSUME Init PROVE Scraped
  <1>1. Joined
    BY DEF Init, NoScrape, Joined
  <1>2. ParsesJoined /\ WithoutCalled
    BY DEF Init, NoRequest, NoResults, ParsesJoined, WithoutCalled
  <1> QED  BY <1>1, <1>2 DEF Scraped

LEMMA JoinedAtEnd ==
  ASSUME NEW joined \in Seq(Line), NEW t \in Seq(Line)
  PROVE  /\ Part(t, joined \o t, Len(joined))
         /\ \A x, from : Part(x, joined, from) /\ x \in Seq(Line) =>
              Part(x, joined \o t, from)
  <1>1. Part(t, joined \o t, Len(joined))
    BY DEF Part
  <1>2. ASSUME NEW x \in Seq(Line), NEW from, Part(x, joined, from)
        PROVE  Part(x, joined \o t, from)
    <2>1. from \in Nat /\ from + Len(x) <= Len(joined)
      BY <1>2 DEF Part
    <2>2. \A i \in 1..Len(x) : from + i \in 1..Len(joined) /\ joined[from + i] = x[i]
      BY <1>2, <2>1 DEF Part
    <2>3. \A i \in 1..Len(joined) : (joined \o t)[i] = joined[i]
      OBVIOUS
    <2>4. Len(joined) <= Len(joined \o t) /\ Len(joined \o t) \in Nat /\ Len(joined) \in Nat
      OBVIOUS
    <2> QED  BY <2>1, <2>2, <2>3, <2>4 DEF Part
  <1> QED  BY <1>1, <1>2

LEMMA PortAnswersJoins ==
  ASSUME PortsTypeOK, Joined, NEW p \in Ports, PortAnswers(p)
  PROVE  Joined'
  <1> DEFINE joined == ports.joined
  <1>1. PICK t \in TextsOf[p] : ports' = [ports EXCEPT
           !.open     = @ \ {p},
           !.answered = @ \cup {[text |-> t, from |-> Len(joined)]},
           !.joined   = @ \o t]
    BY DEF PortAnswers
  <1> DEFINE new == [text |-> t, from |-> Len(joined)]
  <1>2. t \in Seq(Line) /\ joined \in Seq(Line)
    BY ZoneReplyAssumption DEF PortsTypeOK
  <1>3. ports'.answered = ports.answered \cup {new} /\ ports'.joined = joined \o t
    BY <1>1 DEF PortsTypeOK
  <1>4. \A answer \in ports.answered : answer.text \in Seq(Line)
    BY DEF PortsTypeOK
  <1>5. \A answer \in ports'.answered : Part(answer.text, joined \o t, answer.from)
    BY <1>2, <1>3, <1>4, JoinedAtEnd DEF Joined
  <1>6. ASSUME NEW k \in 1..Len(joined \o t)
        PROVE  \E answer \in ports'.answered :
                 k \in (answer.from + 1)..(answer.from + Len(answer.text))
    <2>1. CASE k <= Len(joined)
      <3>1. k \in 1..Len(joined)
        BY <1>2, <2>1
      <3> QED  BY <1>3, <3>1 DEF Joined
    <2>2. CASE k > Len(joined)
      <3>1. k \in (Len(joined) + 1)..(Len(joined) + Len(t))
        BY <1>2, <2>2
      <3> QED  BY <1>3, <3>1
    <2> QED  BY <1>2, <2>1, <2>2
  <1> QED  BY <1>3, <1>5, <1>6 DEF Joined

LEMMA JoinedKept == ASSUME Inv, Joined, [Next]_vars PROVE Joined'
  <1>1. CASE UNCHANGED ports
    BY <1>1 DEF Joined
  <1>2. CASE ports' = NoScrape
    BY <1>2 DEF Joined, NoScrape
  <1>3. ASSUME NEW pc, ScrapePorts(pc) PROVE Joined'
    <2>1. ports'.answered = {} /\ ports'.joined = <<>>
      BY <1>3 DEF ScrapePorts, NoScrape
    <2> QED  BY <2>1 DEF Joined
  <1>4. ASSUME NEW p \in Ports, PortFails(p) PROVE Joined'
    <2>1. ports'.answered = ports.answered /\ ports'.joined = ports.joined
      BY <1>4 DEF PortFails, Inv, PortsTypeOK
    <2> QED  BY <2>1 DEF Joined
  <1>5. ASSUME NEW p \in Ports, PortAnswers(p) PROVE Joined'
    BY <1>5, PortAnswersJoins DEF Inv
  <1> QED
    BY <1>1, <1>2, <1>3, <1>4, <1>5
       DEF vars, Next, RequestStep, Due, VmadmEnds, ZoneStops, ZoneStarts, GetMetrics,
           OnlyKstats, AskVminfod, TimerFires, VminfodReads, VminfodAnswers, VminfodFails,
           AskVmadm, NothingToScrape,
           NoneAnswered, ParseAnswers, ParserStep, AnswersParsed, ForkZfs, ForkZpool,
           CommandEnds, ConfirmSanity, NextRequest

\* Who calls back or aborts does not wait any more.
LEMMA WaitEnds ==
  ASSUME Inv, \/ \E outcome : Aborts(outcome)
              \/ \E name, outcome, found : CallsBack(name, outcome, found)
  PROVE  request'.pc \in {"run", "replied"}
  BY DEF Inv, RequestInv, RequestTypeOK, Aborts, CallsBack

LEMMA ParsesJoinedKept == ASSUME Inv, ParsesJoined, [Next]_vars PROVE ParsesJoined'
  <1>1. CASE request'.pc # "parse"
    BY <1>1 DEF ParsesJoined
  <1>2. CASE UNCHANGED <<request, ports, parserVars>>
    BY <1>2 DEF ParsesJoined, parserVars
  <1>3. request \in [pc : {"idle", "run", "vminfod", "vmadm", "ports", "parse", "command",
                           "replied"},
                     zonename : {GZ, VM}, core : BOOLEAN,
                     instanceId : 0..MaxInstance, todo : Seq(Collectors)]
    BY DEF Inv, RequestInv, RequestTypeOK
  <1>4. CASE ZoneStops \/ ZoneStarts \/ VminfodReads \/ UNCHANGED vars
    BY <1>2, <1>4 DEF ZoneStops, ZoneStarts, VminfodReads, vars
  <1>5. ASSUME NEW z \in {GZ, VM}, NEW core \in BOOLEAN, GetMetrics(z, core)
        PROVE  ParsesJoined'
    <2>1. \/ request' = [pc |-> "replied", zonename |-> z, core |-> core, instanceId |-> 0,
                         todo |-> <<>>]
          \/ request' = [pc |-> "run", zonename |-> z, core |-> core,
                         instanceId |-> IF z = GZ THEN 0 ELSE zone.instance,
                         todo |-> Pipeline(z, core)]
      BY <1>5 DEF GetMetrics, NoRequest
    <2>2. request'.pc # "parse"
      BY <2>1
    <2> QED  BY <1>1, <2>2
  <1>6. CASE NextRequest
    BY <1>1, <1>6 DEF NextRequest, NoRequest
  <1>7. ASSUME NEW name, OnlyKstats(name) PROVE ParsesJoined'
    <2>1. \/ \E outcome : Aborts(outcome)
          \/ \E outcome, found : CallsBack(name, outcome, found)
      BY <1>7 DEF OnlyKstats
    <2> QED  BY <1>1, <2>1, WaitEnds
  <1>8. CASE \/ AskVminfod \/ AskVmadm \/ ForkZfs \/ ConfirmSanity
             \/ \E pc \in {"run", "vmadm"} : ScrapePorts(pc)
    <2>1. request'.pc # "parse"
      BY <1>3, <1>8 DEF AskVminfod, AskVmadm, ScrapePorts, ForkZfs, ConfirmSanity
    <2> QED  BY <1>1, <2>1
  <1>9. ASSUME NEW nics, NEW q, Done(nics, q), UNCHANGED <<zone, ports, parserVars>>
        PROVE  ParsesJoined'
    <2>1. \/ UNCHANGED request
          \/ \E outcome : Aborts(outcome)
          \/ \E name, outcome, found : CallsBack(name, outcome, found)
      BY <1>9 DEF Done
    <2> QED  BY <1>1, <1>2, <1>9, <2>1, WaitEnds
  <1>10. CASE TimerFires \/ VminfodAnswers \/ VminfodFails
    BY <1>9, <1>10 DEF TimerFires, VminfodAnswers, VminfodFails
  <1>11. CASE \/ NoneAnswered \/ AnswersParsed \/ CommandEnds
              \/ \E pc \in {"run", "vmadm"} : NothingToScrape(pc)
    <2>1. \E name, outcome, found : CallsBack(name, outcome, found)
      BY <1>11 DEF NothingToScrape, NoneAnswered, AnswersParsed, CommandEnds
    <2> QED  BY <1>1, <2>1, WaitEnds
  <1>12. CASE ForkZpool
    <2>1. \/ \E outcome : Aborts(outcome)
          \/ \E name, outcome, found : CallsBack(name, outcome, found)
          \/ request' = [request EXCEPT !.pc = "command"]
      BY <1>12 DEF ForkZpool
    <2> QED  BY <1>1, <1>3, <2>1, WaitEnds
  <1>13. ASSUME NEW p \in Ports, PortAnswers(p) \/ PortFails(p) PROVE ParsesJoined'
    <2>1. p \in ports.open /\ request' = request
      BY <1>13 DEF PortAnswers, PortFails
    <2> QED  BY <1>1, <2>1 DEF ParsesJoined
  <1>14. CASE ParseAnswers
    <2>1. text' = ports.joined /\ parser'.status = "reading" /\ ports.open = {} /\ ports' = ports
      BY <1>14 DEF ParseAnswers, AllScraped, Parse, NotParsing
    <2> QED  BY <2>1 DEF ParsesJoined
  <1>15. CASE ParserStep
    <2>1. parser'.status # "off" /\ text' = text /\ UNCHANGED <<request, ports>>
      BY <1>15, ParserGoesOn DEF ParserStep, Inv, ParserInv
    <2> QED  BY <2>1 DEF ParsesJoined
  <1> QED
    BY <1>4, <1>5, <1>6, <1>7, <1>8, <1>10, <1>11, <1>12, <1>13, <1>14, <1>15
       DEF Next, RequestStep, Due, VmadmEnds

\* What a step makes of the results.
LEMMA ResultsGrow ==
  ASSUME Inv, [Next]_vars
  PROVE  \/ results' \in {results, NoResults}
         \/ \E name, outcome, found : CallsBack(name, outcome, found)
  <1>1. ASSUME NEW nics, NEW q, Done(nics, q)
        PROVE  results' = results \/ \E name, outcome, found : CallsBack(name, outcome, found)
    BY <1>1 DEF Done, Aborts
  <1>2. CASE TimerFires \/ VminfodAnswers \/ VminfodFails
    BY <1>1, <1>2 DEF TimerFires, VminfodAnswers, VminfodFails
  <1>3. ASSUME NEW name, OnlyKstats(name)
        PROVE  results' = results \/ \E outcome, found : CallsBack(name, outcome, found)
    BY <1>3 DEF OnlyKstats, Aborts
  <1>4. CASE ForkZpool
    BY <1>4 DEF ForkZpool, Aborts
  <1>5. CASE \/ NoneAnswered \/ AnswersParsed \/ CommandEnds
             \/ \E pc \in {"run", "vmadm"} : NothingToScrape(pc)
    BY <1>5 DEF NothingToScrape, NoneAnswered, AnswersParsed, CommandEnds
  <1>6. CASE UNCHANGED results
    BY <1>6
  <1>7. CASE NextRequest
    BY <1>7 DEF NextRequest
  <1> QED
    BY <1>2, <1>3, <1>4, <1>5, <1>6, <1>7
       DEF vars, Next, RequestStep, Due, VmadmEnds, ZoneStops, ZoneStarts, GetMetrics,
           AskVminfod, AskVmadm, VminfodReads, ScrapePorts, PortAnswers, PortFails, ParseAnswers, ParserStep,
           ForkZfs, ConfirmSanity

LEMMA WithoutCalledKept == ASSUME Inv, WithoutCalled, [Next]_vars PROVE WithoutCalled'
  <1>1. CASE results' = results
    BY <1>1 DEF WithoutCalled
  <1>2. CASE results' = NoResults
    BY <1>2 DEF WithoutCalled, NoResults
  <1>3. ASSUME NEW name, NEW outcome, NEW found, CallsBack(name, outcome, found)
        PROVE  WithoutCalled'
    <2>1. /\ results'.called = Append(results.called, name)
          /\ results'.without \subseteq results.without \cup {name}
      BY <1>3 DEF CallsBack
    <2> DEFINE S == Collectors \cup {name}
    <2>2. results.called \in Seq(Collectors)
      BY DEF Inv, RequestInv, RequestTypeOK
    <2>3. results.called \in Seq(S) /\ name \in S
      <3> HIDE DEF S
      <3>1. Collectors \subseteq S /\ name \in S
        BY DEF S
      <3> QED  BY <2>2, <3>1
    <2>4. Range(results'.called) = Range(results.called) \cup {name}
      <3> HIDE DEF S
      <3> QED  BY <2>1, <2>3, RangeAppend
    <2> QED  BY <2>1, <2>4 DEF WithoutCalled
  <1> QED  BY <1>1, <1>2, <1>3, ResultsGrow

\* triton_core is the fifth collector of a zone, if it is one.
LEMMA TritonIsFifth ==
  ASSUME NEW z, NEW core, NEW i \in 1..Len(Pipeline(z, core)),
         Pipeline(z, core)[i] = "triton_core"
  PROVE  i = 5
  <1>1. VM # GZ
    BY ThreeZones
  <1>2. CASE z = GZ
    BY <1>1, <1>2 DEF Pipeline
  <1>3. CASE z = VM /\ core
    BY <1>1, <1>3 DEF Pipeline
  <1>4. CASE z # GZ /\ ~(z = VM /\ core)
    BY <1>1, <1>4 DEF Pipeline
  <1> QED  BY <1>2, <1>3, <1>4

\* While it is at work it has not been called back for.
LEMMA TritonOnce ==
  ASSUME Inv, WithoutCalled, Turn("triton_core")
  PROVE  "triton_core" \notin results.without
  <1> DEFINE s == results.called
             line == s \o request.todo
  <1>1. s \in Seq(Collectors) /\ request.todo \in Seq(Collectors) /\ request.todo # <<>>
    BY DEF Inv, RequestInv, RequestTypeOK, Turn
  <1>2. line = Pipeline(request.zonename, request.core)
    BY TurnIs DEF Inv
  <1>3. Len(s) + 1 \in 1..Len(line) /\ line[Len(s) + 1] = "triton_core"
    BY <1>1, NextCollector DEF Turn
  <1>4. ASSUME NEW i \in 1..Len(s), s[i] = "triton_core" PROVE FALSE
    <2>1. i \in 1..Len(line) /\ line[i] = s[i]
      BY <1>1, EarlierCollectors
    <2>2. i = 5 /\ Len(s) + 1 = 5
      BY <1>2, <1>3, <1>4, <2>1, TritonIsFifth
    <2> QED  BY <1>1, <2>2
  <1>5. "triton_core" \notin Range(s)
    BY <1>1, <1>4 DEF Range
  <1> QED  BY <1>5 DEF WithoutCalled

LEMMA ScrapedKept == ASSUME Inv, Scraped, [Next]_vars PROVE Scraped'
  BY JoinedKept, ParsesJoinedKept, WithoutCalledKept DEF Scraped

LEMMA ValueIs ==
  ASSUME NEW metrics, NEW from, NEW x
  PROVE  x \in ValuesOf(metrics, from)
           <=> \E m \in metrics : \E i \in m.value : x = <<m.key, from + i>>
  BY DEF ValuesOf

\* Answers that could be served alone are served when they have been parsed.
LEMMA JoinedAnswersServed ==
  ASSUME Inv, Joined, \A answer \in ports.answered : Clean(answer.text)
  PROVE  /\ Accepted(ports.joined)
         /\ ValuesOf(MetricsOf(ports.joined), 0)
              = UNION {ValuesOf(MetricsOf(answer.text), answer.from) :
                         answer \in ports.answered}
  <1> DEFINE joined == ports.joined
             parts == ports.answered
  <1>1. \A answer \in parts : answer.text \in Seq(Line) /\ answer.from \in Nat
    BY DEF Inv, PortsTypeOK
  <1>2. PutTogether(parts, joined)
    BY <1>1 DEF PutTogether, Alone, Clean, OptionFree, Joined, Inv, PortsTypeOK
  <1>3. Alone(joined)
    BY <1>2, WholeIsAccepted
  <1>4. ASSUME NEW m \in MetricsOf(joined), NEW i \in m.value PROVE i \in Nat
    <2>1. i \in 1..Len(joined)
      BY <1>3, <1>4, ValuesAreUnderNames DEF Alone
    <2> QED  BY <2>1
  <1>5. ASSUME NEW x
        PROVE  x \in ValuesOf(MetricsOf(joined), 0)
                 <=> \E answer \in parts : x \in ValuesOf(MetricsOf(answer.text), answer.from)
    <2>1. ASSUME x \in ValuesOf(MetricsOf(joined), 0)
          PROVE  \E answer \in parts : x \in ValuesOf(MetricsOf(answer.text), answer.from)
      <3>1. PICK m \in MetricsOf(joined) : \E k \in m.value : x = <<m.key, 0 + k>>
        BY <2>1, ValueIs
      <3> PICK k \in m.value : x = <<m.key, 0 + k>>
        BY <3>1
      <3>2. x = <<m.key, k>>
        BY <1>4
      <3>3. PICK answer \in parts : \E n \in MetricsOf(answer.text) :
              m.key = n.key /\ \E i \in n.value : k = answer.from + i
        BY <1>2, ValuesOfWhole
      <3> QED  BY <3>2, <3>3, ValueIs
    <2>2. ASSUME NEW answer \in parts, x \in ValuesOf(MetricsOf(answer.text), answer.from)
          PROVE  x \in ValuesOf(MetricsOf(joined), 0)
      <3>1. PICK n \in MetricsOf(answer.text) :
              \E i \in n.value : x = <<n.key, answer.from + i>>
        BY <2>2, ValueIs
      <3> PICK i \in n.value : x = <<n.key, answer.from + i>>
        BY <3>1
      <3>2. PICK m \in MetricsOf(joined) : n.key = m.key /\ answer.from + i \in m.value
        BY <1>2, ValuesOfWhole
      <3>3. 0 + (answer.from + i) = answer.from + i
        BY <1>4, <3>2
      <3> QED  BY <3>2, <3>3, ValueIs
    <2> QED  BY <2>1, <2>2
  <1>6. ValuesOf(MetricsOf(joined), 0)
          = UNION {ValuesOf(MetricsOf(answer.text), answer.from) : answer \in parts}
    BY <1>5
  <1> QED  BY <1>3, <1>6 DEF Alone

Served ==
    (IF "triton_core" \in results'.without THEN {}
     ELSE ValuesOf(Range(parser.metrics), 0))
      = UNION {ValuesOf(MetricsOf(answer.text), answer.from) : answer \in ports.answered}

LEMMA ParsedAnswersServed ==
  ASSUME Inv, Scraped, AnswersParsed, \A answer \in ports.answered : Clean(answer.text)
  PROVE  Served
  <1> DEFINE metrics == MetricsOf(ports.joined)
  <1>1. /\ At("parse", "triton_core")
        /\ CallsBack("triton_core", TritonOutcome, {})
    BY DEF AnswersParsed
  <1>2. text = ports.joined /\ Parsed
    BY <1>1 DEF Scraped, ParsesJoined, At, Awaiting, Parsed, Inv, ParserInv, ParserTypeOK
  <1>3. /\ Accepted(text)
        /\ ValuesOf(metrics, 0)
             = UNION {ValuesOf(MetricsOf(answer.text), answer.from) :
                        answer \in ports.answered}
    BY <1>2, JoinedAnswersServed DEF Scraped
  <1>4. parser.status = "done" /\ Range(parser.metrics) = metrics
    BY <1>2, <1>3 DEF Inv, ParserInv, ParsesByBlocks
  <1>5. TritonOutcome = IF parser.metrics = <<>> THEN "empty" ELSE "metrics"
    BY <1>4 DEF TritonOutcome
  <1>6. "triton_core" \notin results.without
    BY <1>1, AtIsTurn, TritonOnce DEF Inv, Scraped
  <1>7. CASE parser.metrics = <<>>
    <2>1. "triton_core" \in results'.without
      BY <1>1, <1>5, <1>7 DEF CallsBack
    <2>2. metrics = {}
      BY <1>4, <1>7 DEF Range
    <2>3. ValuesOf(metrics, 0) = {}
      BY <2>2 DEF ValuesOf
    <2> QED  BY <1>3, <2>1, <2>3 DEF Served
  <1>8. CASE parser.metrics # <<>>
    <2>1. "triton_core" \notin results'.without
      BY <1>1, <1>5, <1>6, <1>8 DEF CallsBack
    <2> QED  BY <1>3, <1>4, <2>1 DEF Served
  <1> QED  BY <1>7, <1>8

LEMMA NoneAnsweredServed == ASSUME NoneAnswered PROVE Served
  <1>1. ports.answered = {} /\ "triton_core" \in results'.without
    BY DEF NoneAnswered, CallsBack
  <1> QED  BY <1>1 DEF Served

\* triton_core ends in no other way once it has begun to scrape.
LEMMA TritonEnds ==
  ASSUME Inv, [Next]_vars, TritonCoreEnds
  PROVE  NoneAnswered \/ AnswersParsed
  <1>1. request.pc \in {"ports", "parse"} /\ Len(results'.called) > Len(results.called)
    BY DEF TritonCoreEnds
  <1>2. results' # results /\ results' # NoResults
    <2>1. results.called \in Seq(Collectors)
      BY DEF Inv, RequestInv, RequestTypeOK
    <2>2. Len(results.called) \in Nat
      BY <2>1
    <2> QED  BY <1>1, <2>2 DEF NoResults
  <1>3. ~OpenQuery
    BY <1>1 DEF Inv, RequestInv, InTurn
  <1>4. ASSUME NEW nics, NEW q, Done(nics, q), query.timedout \/ OpenQuery PROVE FALSE
    BY <1>2, <1>3, <1>4 DEF Done
  <1>5. ~TimerFires /\ ~VminfodAnswers /\ ~VminfodFails
    BY <1>4 DEF TimerFires, VminfodAnswers, VminfodFails, OpenQuery
  <1> QED
    BY <1>1, <1>2, <1>5
       DEF vars, Next, RequestStep, Due, VmadmEnds, ZoneStops, ZoneStarts, GetMetrics,
           OnlyKstats, At, AskVminfod, AskVmadm, VminfodReads, ScrapePorts, NothingToScrape, PortAnswers, PortFails,
           ParseAnswers, ParserStep, ForkZfs, ForkZpool, CommandEnds, ConfirmSanity, NextRequest

\* However many ports there are, whatever they answer with and in which order,
\* texts that could be served alone are served together: each of their values
\* under the name it has in its own text (triton-metrics.js:108).
THEOREM TritonAnswersAreServed == Spec => AnswersAreServed
  <1>1. Inv /\ Scraped /\ [Next]_vars =>
          [TritonCoreEnds /\ (\A answer \in ports.answered : Clean(answer.text)) => Served]_vars
    BY TritonEnds, ParsedAnswersServed, NoneAnsweredServed
  <1>2. Init => Scraped
    BY ScrapedBegins
  <1>3. Inv /\ Scraped /\ [Next]_vars => Scraped'
    BY ScrapedKept
  <1> QED  BY <1>1, <1>2, <1>3, InvHolds, PTL DEF Spec, AnswersAreServed, Served
=============================================================================
