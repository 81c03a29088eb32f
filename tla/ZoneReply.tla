----------------------------- MODULE ZoneReply -----------------------------
(***************************************************************************)
(* What the reply to one request is made of: MasterCollector.getMetrics    *)
(* with the built-in collectors themselves.  Collector.tla leaves open     *)
(* what a collector calls back with; here each does what its file in       *)
(* collectors-vm or collectors-gz says, with the cache empty: the kstat    *)
(* readers, link with its query of vminfod under a timeout, triton_core    *)
(* with its scrape of the zone's metric ports and the parser, zfs and      *)
(* zpool with the command they wait for; triton_core's metadata alone may  *)
(* be cached.  ntp and the plugins have modules of their own.              *)
(*                                                                         *)
(* Node runs one callback at a time: an action is what the code does       *)
(* between two returns to the event loop, except that the synchronous loop *)
(* of the parser is one step a line and holds up everything of the agent.  *)
(*                                                                         *)
(* A definition marked "slip" is no part of the specification: it is the   *)
(* definition after it with a plausible programming mistake, and shows     *)
(* that a property would notice the mistake (PROJECT.json, "mutants").     *)
(***************************************************************************)
EXTENDS PromParser, KstatCommon

CONSTANTS
    GZ, VM, OtherVM,  \* the global zone, the zone asked for and another one
    MaxInstance,      \* bound on how often VM is started
    MaxTrouble,       \* bound on the collectors of a request without data
    PPAs,             \* numbers of links: net0, net1, ...
    NicsOf,           \* NicsOf[i]: the NICs of VM's instance i, as a function
                      \* from the links' numbers to their networks
    OtherLinks,       \* numbers of the links of OtherVM
    Unknown,          \* no network on a link's label
    Ports,            \* the metric ports in the zone's metadata
    TextsOf           \* TextsOf[p]: the texts port p may answer with

ASSUME ZoneReplyAssumption ==
    /\ Cardinality({GZ, VM, OtherVM}) = 3
    /\ MaxInstance \in Nat \ {0}
    /\ MaxTrouble \in Nat
    /\ IsFiniteSet(PPAs) /\ OtherLinks \subseteq PPAs
    /\ \A i \in 1..MaxInstance : DOMAIN NicsOf[i] \subseteq PPAs
    /\ \A i \in 1..MaxInstance : Unknown \notin Range(NicsOf[i])
    /\ IsFiniteSet(Ports)
    /\ \A p \in Ports : TextsOf[p] \subseteq Seq(Line)

VARIABLES
    zone,     \* the kernel's zone VM: its instance and whether it is running
    request,  \* zInfo, where the pipeline is and the collectors to come
    query,    \* link's query of vminfod: its timer, its answer, `timedout'
    ports,    \* triton_core's scrapes: what has become of each
    results,  \* what the collectors have called back with
    reply     \* what _afterGetMetrics is given

vars == <<zone, request, query, ports, results, reply, parserVars>>

NoNics == [ppa \in {} |-> Unknown]

NoQuery == [timer |-> "off", vminfod |-> "none", nics |-> NoNics, timedout |-> FALSE]

NoScrape == [open |-> {}, silent |-> {}, answered |-> {}, joined |-> <<>>]

NoResults == [called |-> <<>>, link |-> {}, without |-> {}]

NoRequest == [pc |-> "idle", zonename |-> GZ, core |-> FALSE, instanceId |-> 0,
              todo |-> <<>>]

Init ==
    /\ zone = [instance |-> 1, up |-> TRUE]
    /\ request = NoRequest
    /\ query = NoQuery
    /\ ports = NoScrape
    /\ results = NoResults
    /\ reply = "none"
    /\ text = <<>> /\ pos = 0 /\ parser = NotParsing

\* The collectors of a request after _filterCollectors, in the order in which
\* they are run.
Pipeline(z, core) ==
    CASE z = GZ         -> <<"arcstats", "cpu_info", "cpu_util", "zpool">>
      [] z = VM /\ core -> <<"cpucap", "link", "memcap", "tcp", "triton_core",
                             "zfs", "zone_misc", "zone_vfs">>
      [] OTHER          -> <<"cpucap", "link", "memcap", "tcp",
                             "zfs", "zone_misc", "zone_vfs">>

KstatCollector ==
    [cpucap |-> cpucap, link |-> link, memcap |-> memcap, tcp |-> tcp,
     zone_misc |-> zone_misc, zone_vfs |-> zone_vfs, arcstats |-> arcstats,
     cpu_info |-> cpu_info, cpu_util |-> cpu_util, zpool |-> zpool]

\* The parser is one synchronous loop.
Awaiting == parser.status # "reading"

At(pc, name) ==
    /\ Awaiting
    /\ request.pc = pc
    /\ request.todo # <<>>
    /\ Head(request.todo) = name

-----------------------------------------------------------------------------
(* The zone.                                                               *)

ZoneStops ==
    /\ Awaiting
    /\ zone.up
    /\ zone' = [zone EXCEPT !.up = FALSE]
    /\ UNCHANGED <<request, query, ports, results, reply, parserVars>>

\* A start gives the zone a new instanceId and new links; its configuration
\* changes only while it is stopped.
ZoneStarts ==
    /\ Awaiting
    /\ ~zone.up
    /\ zone.instance < MaxInstance
    /\ zone' = [instance |-> zone.instance + 1, up |-> TRUE]
    /\ UNCHANGED <<request, query, ports, results, reply, parserVars>>

\* MaxTrouble bounds the collectors of a request that come back without data
\* through no fault of triton_core's texts or ports.
Trouble == Cardinality(results.without) < MaxTrouble

\* What the data of a collector's kstats may be: every key there; a limit not
\* set; one key missing, which is trouble unless it is an optional one.
Data(c) ==
    LET all == [key \in KstatMap(c) |-> "set"]
        may == IF Trouble THEN KstatMap(c) ELSE c.optional
    IN  {all} \cup {[all EXCEPT ![key] = "unset"] : key \in c.limits}
              \cup {Restrict(all, KstatMap(c) \ {key}) : key \in may}

UnitsOf(name) ==
    CASE name = "cpu_util" -> {"cpu0", "cpu1"}
      [] name = "zpool"    -> {"vdev0", "vdev1"}
      [] OTHER             -> {"only"}

\* The kstats there are for a collector, all with the same keys.  Those of a
\* zone go with it; a zone without a cpu_cap has none for cpucap.
Kstats(name, data) ==
    LET own(units)   == {Kstat(data, VM, zone.instance, u) : u \in units}
        other(units) == {Kstat(data, OtherVM, MaxInstance + 1, u) : u \in units}
    IN  CASE name = "link" ->
               {(IF zone.up THEN own(DOMAIN NicsOf[zone.instance]) ELSE {})
                  \cup other(OtherLinks)}
          [] KstatCollector[name].by = "global" ->
               {{Kstat(data, GZ, 0, u) : u \in UnitsOf(name)}}
          [] OTHER ->
               {(IF zone.up THEN own({"only"}) ELSE {}) \cup other({"only"})}
                 \cup (IF name = "cpucap" /\ Trouble THEN {{}} ELSE {})

-----------------------------------------------------------------------------
(* The pipeline.                                                           *)

\* _getZoneInfo, _filterCollectors and the start of runCollectors.
GetMetrics(z, core) ==
    /\ request.pc = "idle"
    /\ IF z = VM /\ ~zone.up
       THEN /\ reply' = "notFound"
            /\ request' = [NoRequest EXCEPT !.pc = "replied", !.zonename = z,
                                            !.core = core]
       ELSE /\ request' = [pc |-> "run", zonename |-> z, core |-> core,
                           instanceId |-> IF z = GZ THEN 0 ELSE zone.instance,
                           todo |-> Pipeline(z, core)]
            /\ UNCHANGED reply
    /\ UNCHANGED <<zone, query, ports, results, parserVars>>

\* cachedMetricGet and runCollectors when the collector has called back: the
\* next one, or ENOTFOUND for the whole request.
CallsBack(name, outcome, found) ==
    /\ results' = [called  |-> Append(results.called, name),
                   link    |-> results.link \cup found,
                   without |-> IF outcome \in {"empty", "failed"}
                               THEN results.without \cup {name}
                               ELSE results.without]
    /\ IF outcome = "notFound"
       THEN /\ request' = [request EXCEPT !.pc = "replied"]
            /\ reply' = "notFound"
       ELSE /\ request' = [request EXCEPT !.pc = "run", !.todo = Tail(@)]
            /\ UNCHANGED reply

\* Nothing catches what the collector throws: the process ends.
Thrown == {"assertion", "typeError"}

Aborts(outcome) ==
    /\ request' = [request EXCEPT !.pc = "replied"]
    /\ reply' = outcome
    /\ UNCHANGED results

FirstNetwork(nics, ppa) ==                                            \* slip
    IF DOMAIN nics # {} THEN nics[CHOOSE p \in DOMAIN nics : TRUE] ELSE Unknown
\* _labelLink looks for the NIC whose interface the link is.
NetworkOf(nics, ppa) == IF ppa \in DOMAIN nics THEN nics[ppa] ELSE Unknown

\* What may come of a collector's reading of the kstats there are now, with
\* the NICs link knows of.
Readings(name, nics) ==
    LET c == KstatCollector[name]
        label(kstats) == [k \in kstats |->
           [unit |-> k.unit, network |-> NetworkOf(nics, k.unit)]]
        reading(kstats) == KstatsToMetrics(c, kstats, label(kstats))
    IN  {reading(Read(c, request, kstats)) : kstats \in UNION
           {Kstats(name, data) : data \in Data(c)}}

\* A collector that does no more than that.
OnlyKstats(name) ==
    /\ At("run", name)
    /\ name \in DOMAIN KstatCollector \ {"link", "zpool"}
    /\ \E reading \in Readings(name, NoNics) :
         IF reading.outcome \in Thrown THEN Aborts(reading.outcome)
         ELSE CallsBack(name, reading.outcome, {})
    /\ UNCHANGED <<zone, query, ports, parserVars>>

\* _confirmSanity: the zone runs and is the instance the request began with.
SameInstance ==
    request.zonename = VM => zone = [instance |-> request.instanceId, up |-> TRUE]

ConfirmSanity ==
    /\ Awaiting
    /\ request.pc = "run"
    /\ request.todo = <<>>
    /\ request' = [request EXCEPT !.pc = "replied"]
    /\ reply' = IF SameInstance THEN "ok" ELSE "notFound"
    /\ UNCHANGED <<zone, query, ports, results, parserVars>>

\* Another request, in a new process if the old one has aborted; the client may
\* have given up one that waits for a silent port.  A query of vminfod that is
\* still open can do nothing any more and is forgotten.
NextRequest ==
    /\ request.pc = "replied" \/ (request.pc = "ports" /\ ports.silent # {})
    /\ request' = NoRequest
    /\ query' = NoQuery
    /\ ports' = NoScrape
    /\ results' = NoResults
    /\ reply' = "none"
    /\ UNCHANGED <<zone, parserVars>>

-----------------------------------------------------------------------------
(* link.                                                                   *)

AskWithoutTimer ==                                                    \* slip
    /\ At("run", "link")
    /\ request' = [request EXCEPT !.pc = "vminfod"]
    /\ query' = [NoQuery EXCEPT !.vminfod = "asked"]
    /\ UNCHANGED <<zone, ports, results, reply, parserVars>>
\* getInstanceNicsInfo: the timer and the query are set off together.
AskVminfod ==
    /\ At("run", "link")
    /\ request' = [request EXCEPT !.pc = "vminfod"]
    /\ query' = [NoQuery EXCEPT !.timer = "armed", !.vminfod = "asked"]
    /\ UNCHANGED <<zone, ports, results, reply, parserVars>>

DoneTwice(nics, q) ==                                                 \* slip
    /\ query' = [q EXCEPT !.timedout = TRUE]
    /\ \E reading \in Readings("link", nics) :
         IF reading.outcome \in Thrown THEN Aborts(reading.outcome)
         ELSE CallsBack("link", reading.outcome, reading.metrics)
\* `done', called a second time or for the first.
Done(nics, q) ==
    IF query.timedout
    THEN query' = q /\ UNCHANGED <<request, results, reply>>
    ELSE /\ query' = [q EXCEPT !.timedout = TRUE]
         /\ \E reading \in Readings("link", nics) :
              IF reading.outcome \in Thrown THEN Aborts(reading.outcome)
              ELSE CallsBack("link", reading.outcome, reading.metrics)

TimerFires ==
    /\ Awaiting
    /\ query.timer = "armed"
    /\ Done(NoNics, [query EXCEPT !.timer = "fired"])
    /\ UNCHANGED <<zone, ports, parserVars>>

\* vminfod looks the zone up, some time before its answer is here.  Of an
\* answer that comes too late it does not matter what it says.
VminfodReads ==
    /\ Awaiting
    /\ query.vminfod = "asked"
    /\ ~query.timedout
    /\ query' = [query EXCEPT !.vminfod = "read", !.nics = NicsOf[zone.instance]]
    /\ UNCHANGED <<zone, request, ports, results, reply, parserVars>>

VminfodAnswers ==
    /\ Awaiting
    /\ query.vminfod = "read"
    /\ Done(query.nics, [query EXCEPT !.vminfod = "answered"])
    /\ UNCHANGED <<zone, ports, parserVars>>

\* No connection, an error or a zone vminfod does not know, and any late answer.
VminfodFails ==
    /\ Awaiting
    /\ query.vminfod = "asked"
    /\ Done(NoNics, [query EXCEPT !.vminfod = "answered"])
    /\ UNCHANGED <<zone, ports, parserVars>>

-----------------------------------------------------------------------------
(* triton_core.                                                            *)

\* getTritonMetadata has to ask vmadm, without a timeout, if the zone's metadata
\* is not cached.
AskVmadm ==
    /\ At("run", "triton_core")
    /\ request' = [request EXCEPT !.pc = "vmadm"]
    /\ UNCHANGED <<zone, query, ports, results, reply, parserVars>>

\* It answers, at "run" from the cache and at "vmadm" when vmadm has, with the
\* ports of the zone, some of which may accept a connection and never answer.
ScrapePorts(pc) ==
    /\ At(pc, "triton_core")
    /\ request' = [request EXCEPT !.pc = "ports"]
    /\ \E silent \in SUBSET Ports :
         ports' = [NoScrape EXCEPT !.open = Ports \ silent, !.silent = silent]
    /\ UNCHANGED <<zone, query, results, reply, parserVars>>

\* It fails, the ports are not numbers, or the zone has none.
NothingToScrape(pc) ==
    /\ At(pc, "triton_core")
    /\ Trouble
    /\ \E outcome \in {"failed", "empty"} : CallsBack("triton_core", outcome, {})
    /\ UNCHANGED <<zone, query, ports, parserVars>>

PortAnswers(p) ==
    /\ Awaiting
    /\ p \in ports.open
    /\ \E t \in TextsOf[p] :
         ports' = [ports EXCEPT
           !.open     = @ \ {p},
           !.answered = @ \cup {[text |-> t, from |-> Len(ports.joined)]},
           !.joined   = @ \o t]
    /\ UNCHANGED <<zone, request, query, results, reply, parserVars>>

PortFails(p) ==
    /\ Awaiting
    /\ p \in ports.open
    /\ ports' = [ports EXCEPT !.open = @ \ {p}]
    /\ UNCHANGED <<zone, request, query, results, reply, parserVars>>

AllScraped == At("ports", "triton_core") /\ ports.open = {} /\ ports.silent = {}

SomeFailed ==                                                         \* slip
    /\ AllScraped
    /\ Cardinality(ports.answered) < Cardinality(Ports)
    /\ CallsBack("triton_core", "empty", {})
    /\ ports' = NoScrape
    /\ UNCHANGED <<zone, query, parserVars>>
\* gotAllMetrics without a success: NotAvailable, which is no failure.
NoneAnswered ==
    /\ AllScraped
    /\ ports.answered = {}
    /\ CallsBack("triton_core", "empty", {})
    /\ ports' = NoScrape
    /\ UNCHANGED <<zone, query, parserVars>>

\* The answers of the others are parsed as one text.
ParseAnswers ==
    /\ AllScraped
    /\ ports.answered # {}
    /\ request' = [request EXCEPT !.pc = "parse"]
    /\ Parse(ports.joined)
    /\ UNCHANGED <<zone, query, ports, results, reply>>

ParserStep ==
    /\ ParseStep
    /\ UNCHANGED <<zone, request, query, ports, results, reply>>

\* What there is to serve when the parser is done.
TritonOutcome ==
    CASE parser.status = "failed" -> "failed"
      [] parser.status = "done" /\ parser.metrics = <<>> -> "empty"
      [] OTHER -> "metrics"

AnswersParsed ==
    /\ At("parse", "triton_core")
    /\ CallsBack("triton_core", TritonOutcome, {})
    /\ ports' = NoScrape
    /\ ForgetParse
    /\ UNCHANGED <<zone, query>>

-----------------------------------------------------------------------------
(* zfs and zpool.                                                          *)

ForkZfs ==
    /\ At("run", "zfs")
    /\ request' = [request EXCEPT !.pc = "command"]
    /\ UNCHANGED <<zone, query, ports, results, reply, parserVars>>

\* zpool's command is only run if its kstats could be read.
ForkZpool ==
    /\ At("run", "zpool")
    /\ \E reading \in Readings("zpool", NoNics) :
         CASE reading.outcome \in Thrown -> Aborts(reading.outcome)
           [] reading.outcome = "metrics" ->
                /\ request' = [request EXCEPT !.pc = "command"]
                /\ UNCHANGED <<results, reply>>
           [] OTHER -> CallsBack("zpool", reading.outcome, {})
    /\ UNCHANGED <<zone, query, ports, parserVars>>

\* An error, or a line that does not have the fields, loses the kstats too.
CommandEnds ==
    /\ Awaiting
    /\ request.pc = "command"
    /\ \E outcome \in {"metrics"} \cup (IF Trouble THEN {"failed"} ELSE {}) :
         CallsBack(Head(request.todo), outcome, {})
    /\ UNCHANGED <<zone, query, ports, parserVars>>

-----------------------------------------------------------------------------

\* What the event loop has to do now, or will have: its own work, a timer, the
\* answer of a port that is not silent.
Due ==
    \/ \E name \in DOMAIN KstatCollector : OnlyKstats(name)
    \/ AskVminfod
    \/ TimerFires
    \/ AskVmadm
    \/ ScrapePorts("run")
    \/ NothingToScrape("run")
    \/ \E p \in Ports : PortAnswers(p) \/ PortFails(p)
    \/ NoneAnswered
    \/ ParseAnswers
    \/ ParserStep
    \/ AnswersParsed
    \/ ForkZfs
    \/ ForkZpool
    \/ ConfirmSanity

VmadmEnds == ScrapePorts("vmadm") \/ NothingToScrape("vmadm")

RequestStep == Due \/ VmadmEnds \/ CommandEnds

Next ==
    \/ ZoneStops
    \/ ZoneStarts
    \/ GetMetrics(GZ, FALSE)
    \/ \E core \in BOOLEAN : GetMetrics(VM, core)
    \/ RequestStep
    \/ VminfodReads
    \/ VminfodAnswers
    \/ VminfodFails
    \/ NextRequest

Spec == Init /\ [][Next]_vars

\* The event loop runs what is due.  Nothing obliges vminfod to answer, and none
\* of the commands is forked with a timeout: not vmadm (triton-metrics.js:57),
\* zfs (lib/zfs.js:29) or zpool (zpool.js:142).
FairSpec == Spec /\ WF_vars(Due)

-----------------------------------------------------------------------------
(* Properties                                                              *)

Collectors == DOMAIN KstatCollector \cup {"triton_core", "zfs"}

Networks == {Unknown} \cup UNION {Range(NicsOf[i]) : i \in 1..MaxInstance}

\* Types of the variables.
TypeOK ==
    /\ zone \in [instance : 1..MaxInstance, up : BOOLEAN]
    /\ request \in [pc : {"idle", "run", "vminfod", "vmadm", "ports", "parse", "command",
                          "replied"},
                    zonename : {GZ, VM}, core : BOOLEAN,
                    instanceId : 0..MaxInstance, todo : Seq(Collectors)]
    /\ query \in [timer : {"off", "armed", "fired"},
                  vminfod : {"none", "asked", "read", "answered"},
                  nics : {NoNics} \cup {NicsOf[i] : i \in 1..MaxInstance},
                  timedout : BOOLEAN]
    /\ ports \in [open : SUBSET Ports, silent : SUBSET Ports,
                  answered : SUBSET [text : Seq(Line), from : Nat],
                  joined : Seq(Line)]
    /\ results.called \in Seq(Collectors) /\ results.without \subseteq Collectors
    /\ results.link \subseteq [key : KstatMap(link),
                               label : [unit : PPAs, network : Networks]]
    /\ reply \in {"none", "ok", "notFound"} \cup Thrown
    /\ text \in Seq(Line) /\ pos \in 0..Len(text)
    /\ parser.status \in {"off", "reading", "failed", "done"}

\* Every collector of the request calls back once, in its turn: what has called
\* back and what is to come is always the whole pipeline, though the timer and
\* the answer of link's query race and the later of them may come at any time,
\* in the middle of another collector or after the reply.
EachCallsBackOnce ==
    reply \in {"none", "ok"} /\ request.pc # "idle" =>
      results.called \o request.todo = Pipeline(request.zonename, request.core)

\* A reply labels each link of the zone with the network its NIC has in the
\* instance the reply is about, or all of them with none, and has no other
\* zone's link: though the kstats are read when vminfod has answered or is
\* given up, and the zone may be stopped and started before, between and after.
LabelsOfThisInstance ==
    reply = "ok" /\ request.zonename = VM /\ "link" \notin results.without =>
      LET nics   == NicsOf[request.instanceId]
          labels == {metric.label : metric \in results.link}
      IN  \/ labels = {[unit |-> p, network |-> nics[p]] : p \in DOMAIN nics}
          \/ labels = {[unit |-> p, network |-> Unknown] : p \in DOMAIN nics}

\* No assertion of kstat-common about the kstats fails, whichever zone's reader
\* and filter they went through and however the zone was restarted, and only
\* memcap ever throws a TypeError: toString of the limit of a zone that has
\* none (common.js:99, kstat-common.js:86).
AbortsOnlyUnlimited ==
    /\ reply # "assertion"
    /\ reply = "typeError" => Head(request.todo) = "memcap"

\* A text that could be served on its own, with no options.
Clean(t) ==
    Accepted(t) /\ \A i \in 1..Len(t) : t[i].kind \notin Options

\* The values a text would be served with alone, each with its metric's name.
ValuesOf(metrics, from) ==
    UNION {{<<m.key, from + i>> : i \in m.value} : m \in metrics}

TritonCoreEnds ==
    request.pc \in {"ports", "parse"} /\ Len(results'.called) > Len(results.called)

\* Some ports may fail, and the others answer in any order: if each that has
\* answered printed something that could be served on its own, then the reply
\* has all of it, every value under the name it had there, and nothing else.
AnswersAreServed ==
    [][TritonCoreEnds /\ (\A answer \in ports.answered : Clean(answer.text)) =>
         (IF "triton_core" \in results'.without THEN {}
          ELSE ValuesOf(Range(parser.metrics), 0))
           = UNION {ValuesOf(MetricsOf(answer.text), answer.from) :
                      answer \in ports.answered}]_vars

\* A request is answered though vminfod may never answer.  What can hold it up
\* is what has no timeout: a port that accepts the connection and stays silent,
\* or a vmadm, zfs or zpool command that never ends.
AnsweredUnlessHeldUp ==
    []<>(request.pc \notin {"vmadm", "command"}) =>
      (request.pc = "run" ~> reply # "none" \/ ports.silent # {})
=============================================================================
