----------------------------- MODULE NtpProofs -----------------------------
(***************************************************************************)
(* Theorems about NtpGetter, for any associations, peers and states.       *)
(***************************************************************************)
EXTENDS NtpGetter, TLAPS

Lists == UNION {[S -> Peer] : S \in SUBSET Assids}

\* What a call has read while it waits for the second run, or when its outcome
\* is known: the syspeer is in the list, and its number is still that of the same
\* peer unless ntpd has been started anew.
DataSound ==
    /\ ntpData.syspeer # NoPeer => ntpData.syspeer \in DOMAIN ntpData.peers
    /\ pc \in {"idle", "peers"} => ntpData = NoData
    /\ pc = "extended" => ntpData.ntpd_available
    /\ pc = "extended" /\ ~restarted =>
         \A a \in DOMAIN ntpData.peers :
           ntpData.peers[a].remote = ntpd.remote[a]

IInv == TypeOK /\ DataSound /\ SurvivesUnavailable /\ SyspeerIsTheListedOne

-----------------------------------------------------------------------------
(* Lemmas                                                                  *)

\* What apeers prints is a list of peers of the numbers ntpd has given.
LEMMA APeersType ==
  ASSUME TypeOK
  PROVE  /\ APeers \in Lists
         /\ DOMAIN APeers \subseteq Assids
         /\ \A a \in DOMAIN APeers : APeers[a].remote = ntpd.remote[a]
<1>1. PICK S \in SUBSET Assids : ntpd.state \in [S -> States]
  BY DEF TypeOK, PeerStates
<1>2. ntpd.remote \in [Assids -> Remotes]
  BY DEF TypeOK, Numberings, Injection
<1>3. APeers \in [S -> Peer]
  BY <1>1, <1>2 DEF APeers, Peer
<1> QED
  BY <1>1, <1>3 DEF APeers, Lists

\* No peers, which is what a call starts with and a stopped ntpd has.
LEMMA NoPeersType == NoPeers \in Lists /\ NoPeers \in PeerStates /\ DOMAIN NoPeers = {}
<1>1. NoPeers \in [{} -> Peer] /\ NoPeers \in [{} -> States] /\ DOMAIN NoPeers = {}
  BY DEF NoPeers
<1>2. {} \in SUBSET Assids
  OBVIOUS
<1> QED
  BY <1>1, <1>2 DEF Lists, PeerStates

\* pipelineCb and the collector's callback keep the invariant whatever the
\* second run has read, if its description of the syspeer is of the listed one.
LEMMA PipelineCbKeeps ==
  ASSUME IInv, pc \in {"peers", "extended"},
         NEW d, PipelineCb(d), UNCHANGED <<ntpd, restarted>>,
         d \in [ntpd_available : BOOLEAN, peers : Lists,
                system : SUBSET Commands, syspeer : Assids \cup {NoPeer},
                described : Remotes \cup {NoPeer}, understood : BOOLEAN],
         d.peers = ntpData.peers, d.syspeer = ntpData.syspeer,
         d.syspeer # NoPeer /\ d.described # NoPeer /\ ~restarted =>
           d.described = d.peers[d.syspeer].remote
  PROVE  IInv'
<1>1. ntpData' = d /\ pc' \in {"metrics", "notAvailable", "aborted"}
  BY DEF PipelineCb
<1>2. TypeOK'
  BY <1>1 DEF IInv, TypeOK, Lists
<1>3. DataSound'
  BY <1>1 DEF IInv, DataSound
<1>4. SurvivesUnavailable'
  <2>1. CASE pc' = "aborted"
    <3>1. Delivered(d) /\ d.ntpd_available /\ ~HasEveryMetric(d)
      BY <2>1 DEF PipelineCb
    <3>2. "sysstats" \in d.system /\ (d.system # Commands \/ d.syspeer # NoPeer)
      BY <3>1 DEF Delivered, HasEveryMetric, HasSystemMetrics, HasSyspeerMetrics
    <3> QED
      BY <1>1, <3>1, <3>2 DEF SurvivesUnavailable
  <2>2. CASE pc' # "aborted"
    BY <2>2 DEF SurvivesUnavailable
  <2> QED
    BY <2>1, <2>2
<1>5. SyspeerIsTheListedOne'
  <2>1. CASE pc' = "metrics"
    <3>1. HasEveryMetric(d)
      BY <2>1 DEF PipelineCb
    <3> QED
      BY <1>1, <3>1 DEF HasEveryMetric, HasSyspeerMetrics, SyspeerIsTheListedOne
  <2>2. CASE pc' # "metrics"
    BY <2>2 DEF SyspeerIsTheListedOne
  <2> QED
    BY <2>1, <2>2
<1> QED
  BY <1>2, <1>3, <1>4, <1>5 DEF IInv

-----------------------------------------------------------------------------
(* The invariant                                                           *)

\* The invariant holds in the beginning.
LEMMA InitIInv == Init => IInv
<1> SUFFICES ASSUME Init PROVE IInv
  OBVIOUS
<1>1. NoData \in [ntpd_available : BOOLEAN, peers : Lists,
                  system : SUBSET Commands, syspeer : Assids \cup {NoPeer},
                  described : Remotes \cup {NoPeer}, understood : BOOLEAN]
  BY NoPeersType DEF NoData
<1>2. TypeOK
  BY <1>1 DEF Init, Running, TypeOK, Lists
<1>3. NoData.syspeer = NoPeer
  BY DEF NoData
<1> QED
  BY <1>2, <1>3 DEF Init, IInv, DataSound, SurvivesUnavailable, SyspeerIsTheListedOne

\* Every step keeps the invariant.
LEMMA NextIInv == IInv /\ [Next]_vars => IInv'
<1> SUFFICES ASSUME IInv, [Next]_vars PROVE IInv'
  OBVIOUS
<1>T. TypeOK
  BY DEF IInv
<1>D. ntpData \in [ntpd_available : BOOLEAN, peers : Lists,
                   system : SUBSET Commands, syspeer : Assids \cup {NoPeer},
                   described : Remotes \cup {NoPeer}, understood : BOOLEAN]
  BY <1>T DEF TypeOK, Lists
<1>1. CASE NtpdStops
  <2>1. ntpd' = [ntpd EXCEPT !.up = FALSE, !.state = NoPeers] /\ ntpd'.remote = ntpd.remote
    BY <1>1, <1>T DEF NtpdStops, TypeOK
  <2>2. ntpd' \in [up : BOOLEAN, remote : Numberings, state : PeerStates]
    BY <2>1, <1>T, NoPeersType DEF TypeOK
  <2> QED
    BY <1>1, <2>1, <2>2
       DEF NtpdStops, IInv, TypeOK, DataSound, SurvivesUnavailable,
           SyspeerIsTheListedOne
<1>2. CASE NtpdStarts
  <2>1. ntpd' \in [up : BOOLEAN, remote : Numberings, state : PeerStates]
    BY <1>2 DEF NtpdStarts, Running
  <2> QED
    BY <1>2, <2>1
       DEF NtpdStarts, IInv, TypeOK, DataSound, SurvivesUnavailable,
           SyspeerIsTheListedOne
<1>3. CASE NtpdChanges
  <2>1. ntpd' \in [up : BOOLEAN, remote : Numberings, state : PeerStates]
        /\ ntpd'.remote = ntpd.remote
    BY <1>3, <1>T DEF NtpdChanges, TypeOK
  <2> QED
    BY <1>3, <2>1
       DEF NtpdChanges, IInv, TypeOK, DataSound, SurvivesUnavailable,
           SyspeerIsTheListedOne
<1>4. CASE GetMetrics
  <2>1. ntpData' = ntpData
    BY <1>4 DEF GetMetrics, IInv, DataSound
  <2> QED
    BY <1>4, <2>1
       DEF GetMetrics, IInv, TypeOK, DataSound, SurvivesUnavailable,
           SyspeerIsTheListedOne
<1>5. CASE QueryFails
  BY <1>5 DEF QueryFails, IInv, TypeOK, DataSound, SurvivesUnavailable, SyspeerIsTheListedOne
<1>6. CASE Refused
  <2> DEFINE d == [ntpData EXCEPT !.ntpd_available = FALSE]
  <2>1. d \in [ntpd_available : BOOLEAN, peers : Lists,
               system : SUBSET Commands, syspeer : Assids \cup {NoPeer},
               described : Remotes \cup {NoPeer}, understood : BOOLEAN]
        /\ d.peers = ntpData.peers /\ d.syspeer = ntpData.syspeer
        /\ ~d.ntpd_available
    BY <1>D
  <2>2. ntpData' = d /\ pc' = "notAvailable" /\ UNCHANGED <<ntpd, restarted>>
    BY <1>6, <2>1 DEF Refused, PipelineCb
  <2>3. TypeOK'
    BY <2>1, <2>2, <1>T DEF TypeOK, Lists
  <2> HIDE DEF d
  <2> QED
    BY <2>1, <2>2, <2>3 DEF IInv, DataSound, SurvivesUnavailable, SyspeerIsTheListedOne
<1>7. CASE GetNtpPeers
  <2> DEFINE sys == IF \E a \in DOMAIN APeers : APeers[a].state = "syspeer"
                    THEN CHOOSE a \in DOMAIN APeers : APeers[a].state = "syspeer"
                    ELSE NoPeer
  <2>1. sys \in DOMAIN APeers \cup {NoPeer}
    OBVIOUS
  <2>2. PICK understood \in BOOLEAN :
          /\ ntpData' = [ntpData EXCEPT !.peers = APeers, !.syspeer = sys,
                                       !.understood = understood]
          /\ pc' = IF understood /\ \A a \in DOMAIN APeers : APeers[a].state \in Matched
                   THEN "extended" ELSE "aborted"
          /\ UNCHANGED <<ntpd, restarted>>
    BY <1>7 DEF GetNtpPeers
  <2>3. /\ ntpData' \in [ntpd_available : BOOLEAN, peers : Lists,
                         system : SUBSET Commands, syspeer : Assids \cup {NoPeer},
                         described : Remotes \cup {NoPeer}, understood : BOOLEAN]
        /\ ntpData'.peers = APeers /\ ntpData'.syspeer = sys
        /\ ntpData'.ntpd_available = ntpData.ntpd_available
        /\ ntpData'.understood = understood
    BY <1>D, <1>T, <2>1, <2>2, APeersType
  <2>4. ntpData.ntpd_available
    BY <1>7 DEF GetNtpPeers, IInv, DataSound, NoData
  <2>5. TypeOK'
    BY <2>2, <2>3, <1>T DEF TypeOK, Lists
  <2>6. DataSound'
    BY <2>1, <2>2, <2>3, <2>4, <1>T, APeersType DEF DataSound
  <2> HIDE DEF sys
  <2>7. SurvivesUnavailable' /\ SyspeerIsTheListedOne'
    BY <2>2, <2>3 DEF SurvivesUnavailable, SyspeerIsTheListedOne
  <2> QED
    BY <2>5, <2>6, <2>7 DEF IInv
<1>8. CASE AddExtendedData
  <2>1. PICK sections \in SUBSET Commands,
             described \in {NoPeer} \cup
               (IF ntpData.syspeer = NoPeer THEN {}
                ELSE {ntpd.remote[a] : a \in ReadVar(ntpData.syspeer)}) :
          LET d == [ntpData EXCEPT !.system = sections, !.described = described]
          IN \/ PipelineCb(d)
             \/ /\ ntpData' = [d EXCEPT !.understood = FALSE]
                /\ pc' = "aborted"
    BY <1>8 DEF AddExtendedData
  <2> DEFINE d == [ntpData EXCEPT !.system = sections, !.described = described]
  <2>2. ASSUME described # NoPeer
        PROVE  ntpData.syspeer # NoPeer /\ described = ntpd.remote[ntpData.syspeer]
    BY <2>1, <2>2 DEF ReadVar
  <2>3. described \in Remotes \cup {NoPeer}
    <3>1. ntpd.remote \in [Assids -> Remotes]
      BY <1>T DEF TypeOK, Numberings, Injection
    <3> QED
      BY <2>2, <3>1, <1>D
  <2>4. d \in [ntpd_available : BOOLEAN, peers : Lists,
               system : SUBSET Commands, syspeer : Assids \cup {NoPeer},
               described : Remotes \cup {NoPeer}, understood : BOOLEAN]
        /\ d.peers = ntpData.peers /\ d.syspeer = ntpData.syspeer
        /\ d.described = described
    BY <1>D, <2>3
  <2>5. pc = "extended" /\ UNCHANGED <<ntpd, restarted>>
    BY <1>8 DEF AddExtendedData
  <2>6. d.syspeer # NoPeer /\ d.described # NoPeer /\ ~restarted =>
          d.described = d.peers[d.syspeer].remote
    BY <2>2, <2>4, <2>5 DEF IInv, DataSound
  <2>7. PipelineCb(d) \/ (ntpData' = [d EXCEPT !.understood = FALSE] /\ pc' = "aborted")
    BY <2>1
  <2> HIDE DEF d
  <2>8. CASE PipelineCb(d)
    BY <2>4, <2>5, <2>6, <2>8, PipelineCbKeeps
  <2>9. CASE ntpData' = [d EXCEPT !.understood = FALSE] /\ pc' = "aborted"
    <3>1. /\ ntpData' \in [ntpd_available : BOOLEAN, peers : Lists,
                           system : SUBSET Commands, syspeer : Assids \cup {NoPeer},
                           described : Remotes \cup {NoPeer}, understood : BOOLEAN]
          /\ ntpData'.peers = ntpData.peers /\ ntpData'.syspeer = ntpData.syspeer
          /\ ~ntpData'.understood
      BY <2>4, <2>9
    <3>2. TypeOK'
      BY <2>5, <2>9, <3>1, <1>T DEF TypeOK, Lists
    <3> QED
      BY <2>9, <3>1, <3>2
         DEF IInv, DataSound, SurvivesUnavailable, SyspeerIsTheListedOne
  <2> QED
    BY <2>7, <2>8, <2>9
<1>9. CASE Done
  <2>1. NoData \in [ntpd_available : BOOLEAN, peers : Lists,
                    system : SUBSET Commands, syspeer : Assids \cup {NoPeer},
                    described : Remotes \cup {NoPeer}, understood : BOOLEAN]
        /\ NoData.syspeer = NoPeer
    BY NoPeersType DEF NoData
  <2>2. TypeOK'
    BY <1>9, <2>1, <1>T DEF Done, TypeOK, Lists
  <2> QED
    BY <1>9, <2>1, <2>2 DEF Done, IInv, DataSound, SurvivesUnavailable, SyspeerIsTheListedOne
<1>10. CASE UNCHANGED vars
  BY <1>10 DEF vars, IInv, TypeOK, DataSound, SurvivesUnavailable, SyspeerIsTheListedOne
<1> QED
  BY <1>1, <1>2, <1>3, <1>4, <1>5, <1>6, <1>7, <1>8, <1>9, <1>10 DEF Next

\* The invariant holds in every state.
LEMMA Invariance == Spec => []IInv
<1> QED
  BY InitIInv, NextIInv, PTL DEF Spec

-----------------------------------------------------------------------------
(* Theorems                                                                *)

\* The types of the variables; in particular the data of a call are of peers
\* and sections there are.
THEOREM TypeCorrect == Spec => []TypeOK
<1>1. IInv => TypeOK
  BY DEF IInv
<1> QED
  BY <1>1, Invariance, PTL

\* Neither an ntpd that is off nor one that leaves out its last section ends the
\* process.
THEOREM UnavailableSurvived == Spec => []SurvivesUnavailable
<1>1. IInv => SurvivesUnavailable
  BY DEF IInv
<1> QED
  BY <1>1, Invariance, PTL

\* The metrics of the syspeer are those of the peer that is listed as such.
THEOREM SyspeerIsListed == Spec => []SyspeerIsTheListedOne
<1>1. IInv => SyspeerIsTheListedOne
  BY DEF IInv
<1> QED
  BY <1>1, Invariance, PTL
=============================================================================
