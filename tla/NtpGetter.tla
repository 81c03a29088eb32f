----------------------------- MODULE NtpGetter -----------------------------
(***************************************************************************)
(* lib/instrumenter/lib/ntp.js and the collector in collectors-gz/ntp.js:  *)
(* two runs of ntpq, the first for the list of peers and the second for    *)
(* everything else, with ntpd stopping, starting and choosing other peers  *)
(* before, between and after them.  What ntpq prints is a choice of the    *)
(* outcomes the parser tells apart; the value of a metric is left out, and *)
(* of a peer its remote and its state are kept.                            *)
(***************************************************************************)
EXTENDS Functions

CONSTANTS
    Assids,   \* association ids ntpd may give its peers
    Remotes,  \* the peers' addresses
    NoPeer,
    States    \* the states a peer may be in, of NTP_PEER_STATES

NTP_PEER_STATES ==
    {"invalid", "falseticker", "overflow", "pruned", "candidate", "backup",
     "syspeer", "pps"}

ASSUME NtpAssumption ==
    /\ NoPeer \notin Assids \cup Remotes
    /\ States \subseteq NTP_PEER_STATES

VARIABLES
    ntpd,      \* the daemon: whether it runs, the peer each association is
               \* of, and the states of those there are
    restarted, \* whether it has started since the call began
    pc,        \* what getMetrics of the collector waits for, or its outcome
    ntpData    \* the ntpData of the call

Peer == [remote : Remotes, state : States]

vars == <<ntpd, restarted, pc, ntpData>>

\* Association ids count upwards while ntpd runs, so that one is never given to
\* two peers.
Numberings == Injection(Assids, Remotes)

\* At most one peer is the syspeer.
PeerStates ==
    {s \in UNION {[S -> States] : S \in SUBSET Assids} :
       \A a, b \in DOMAIN s : s[a] = "syspeer" /\ s[b] = "syspeer" => a = b}

NoPeers == [a \in {} |-> NoPeer]

Running == [up : {TRUE}, remote : Numberings, state : PeerStates]

PeersByRemote ==                                                     \* slip
    [p \in {ntpd.remote[a] : a \in DOMAIN ntpd.state} |->
       [remote |-> p, state |-> "invalid"]]
\* What apeers prints: a line for each peer.
APeers ==
    [a \in DOMAIN ntpd.state |-> [remote |-> ntpd.remote[a], state |-> ntpd.state[a]]]

\* The commands of the second run that every call gives; each prints a section
\* of its own.
Commands == {"iostats", "kerninfo", "monstats", "sysinfo", "sysstats"}

\* system: the sections that were read; syspeer and described: ntpData.syspeer,
\* its assid and the remote that readvar has described under that assid.
\* understood: no line has failed an assertion about it alone.
NoData ==
    [ntpd_available |-> TRUE, peers |-> NoPeers, system |-> {},
     syspeer |-> NoPeer, described |-> NoPeer, understood |-> TRUE]

Init ==
    /\ ntpd \in Running
    /\ restarted = FALSE
    /\ pc = "idle"
    /\ ntpData = NoData

-----------------------------------------------------------------------------
(* ntpd.                                                                   *)

NtpdStops ==
    /\ ntpd.up
    /\ ntpd' = [ntpd EXCEPT !.up = FALSE, !.state = NoPeers]
    /\ UNCHANGED <<restarted, pc, ntpData>>

\* A new process numbers its associations anew.
NtpdStarts ==
    /\ ~ntpd.up
    /\ ntpd' \in Running
    /\ restarted' = TRUE
    /\ UNCHANGED <<pc, ntpData>>

\* Peers come, go and change their state.
NtpdChanges ==
    /\ ntpd.up
    /\ \E state \in PeerStates : ntpd' = [ntpd EXCEPT !.state = state]
    /\ UNCHANGED <<restarted, pc, ntpData>>

-----------------------------------------------------------------------------
(* One call.                                                               *)

GetMetrics ==
    /\ pc = "idle"
    /\ pc' = "peers"
    /\ ntpData' = NoData
    /\ restarted' = FALSE
    /\ UNCHANGED ntpd

\* NTP_SYSTEM_METRICS has enabled metrics out of each section.
HasSystemMetrics(d) == d.system = Commands

\* NTP_SYSPEER_METRICS are all out of what readvar prints.
HasSyspeerMetrics(d) == d.syspeer # NoPeer => d.described # NoPeer

\* Every enabled metric has a value; pushMetric throws for one that has none.
HasEveryMetric(d) == HasSystemMetrics(d) /\ HasSyspeerMetrics(d)

DeliveredWithPeers(d) == d.peers # NoPeers                           \* slip
\* pipelineCb hands the data on, rather than an error: 'processed for time' is a
\* line of the sysstats section.
Delivered(d) == d.peers # NoPeers /\ "sysstats" \in d.system

\* pipelineCb and, in the same turn, the collector's callback.  The error it
\* makes of anything else has the name NotAvailableError.
PipelineCb(d) ==
    /\ ntpData' = d
    /\ pc' = IF ~Delivered(d) \/ ~d.ntpd_available THEN "notAvailable"
             ELSE IF HasEveryMetric(d) THEN "metrics"
             ELSE "aborted"

\* ntpq cannot be run, or its output begins with anything but the two headers.
QueryFails ==
    /\ pc \in {"peers", "extended"}
    /\ pc' = "notAvailable"
    /\ UNCHANGED <<ntpd, restarted, ntpData>>

\* Connection refused: ntpd_available is 0.  If that is the first run, the
\* second is left out.
Refused ==
    /\ pc \in {"peers", "extended"}
    /\ ~ntpd.up
    /\ PipelineCb([ntpData EXCEPT !.ntpd_available = FALSE])
    /\ UNCHANGED <<ntpd, restarted>>

\* What the character class at the start of PEER_REGEXP lets through, though
\* translateFlash has a case for each state.
Matched == {"invalid", "pruned", "candidate", "syspeer"}

\* addPeer for each line; a line that does not match fails an assertion, and so
\* may any line for its values: what the rest of a line holds is a choice.
GetNtpPeers ==
    /\ pc = "peers"
    /\ ntpd.up
    /\ \E understood \in BOOLEAN :
         /\ understood \/ APeers # NoPeers
         /\ ntpData' = [ntpData EXCEPT
               !.peers      = APeers,
               !.syspeer    = IF \E a \in DOMAIN APeers : APeers[a].state = "syspeer"
                              THEN CHOOSE a \in DOMAIN APeers : APeers[a].state = "syspeer"
                              ELSE NoPeer,
               !.understood = understood]
         /\ pc' = IF understood /\ \A a \in DOMAIN APeers : APeers[a].state \in Matched
                  THEN "extended" ELSE "aborted"
    /\ UNCHANGED <<ntpd, restarted>>

AnyPeer(assid) == DOMAIN ntpd.state                                  \* slip
\* The associations that answer to a readvar of the given assid.
ReadVar(assid) == DOMAIN ntpd.state \cap {assid}

\* The second run.  Any of its commands may go unanswered (ntpd stops between
\* two of them, or an answer is lost); that is told on stderr, which is only
\* compared with the message of a refused connection.  An assertion that a line
\* fails, in addStatLine or addProperty, is thrown before pipelineCb is reached.
AddExtendedData ==
    /\ pc = "extended"
    /\ \E sections \in SUBSET Commands,
         described \in {NoPeer} \cup
           (IF ntpData.syspeer = NoPeer THEN {}
            ELSE {ntpd.remote[a] : a \in ReadVar(ntpData.syspeer)}) :
         LET d == [ntpData EXCEPT !.system = sections, !.described = described]
         IN \/ PipelineCb(d)
            \/ /\ sections # {} \/ described # NoPeer
               /\ ntpData' = [d EXCEPT !.understood = FALSE]
               /\ pc' = "aborted"
    /\ UNCHANGED <<ntpd, restarted>>

\* The caller has its answer, or SMF has started the agent again.
Done ==
    /\ pc \in {"metrics", "notAvailable", "aborted"}
    /\ pc' = "idle"
    /\ ntpData' = NoData
    /\ UNCHANGED <<ntpd, restarted>>

Next ==
    \/ NtpdStops
    \/ NtpdStarts
    \/ NtpdChanges
    \/ GetMetrics
    \/ QueryFails
    \/ Refused
    \/ GetNtpPeers
    \/ AddExtendedData
    \/ Done

Spec == Init /\ [][Next]_vars

-----------------------------------------------------------------------------
(* Properties                                                              *)

\* Types of the variables.
TypeOK ==
    /\ ntpd \in [up : BOOLEAN, remote : Numberings, state : PeerStates]
    /\ restarted \in BOOLEAN
    /\ pc \in {"idle", "peers", "extended", "metrics", "notAvailable", "aborted"}
    /\ ntpData \in [ntpd_available : BOOLEAN, peers : UNION {[S -> Peer] : S \in SUBSET Assids},
                    system : SUBSET Commands, syspeer : Assids \cup {NoPeer},
                    described : Remotes \cup {NoPeer}, understood : BOOLEAN]

\* An ntpd that is off, in whichever of the two runs of ntpq it is noticed, or
\* that leaves the second run without its last section, costs the reply its NTP
\* metrics and not the agent its process (collectors-gz/ntp.js:895-897).  What
\* does end the process: a line that fails an assertion about it alone, a peer in
\* a state that PEER_REGEXP does not match, and an answer that has the sysstats
\* section and lacks another one, for instance that of a syspeer that was dropped
\* since the first run.
SurvivesUnavailable ==
    pc = "aborted" =>
      \/ ~ntpData.understood
      \/ \E a \in DOMAIN ntpData.peers : ntpData.peers[a].state \notin Matched
      \/ /\ ntpData.ntpd_available
         /\ "sysstats" \in ntpData.system
         /\ ntpData.system # Commands \/ ntpData.syspeer # NoPeer

\* The metrics of the syspeer are those of the peer the same reply lists as the
\* syspeer, although they are asked for later, by number, when ntpd may have
\* chosen another: the numbers hold as long as ntpd has not been started anew.
SyspeerIsTheListedOne ==
    pc = "metrics" /\ ntpData.syspeer # NoPeer /\ ~restarted =>
      ntpData.described = ntpData.peers[ntpData.syspeer].remote
=============================================================================
