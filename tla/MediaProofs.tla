---------------------------- MODULE MediaProofs ----------------------------
(***************************************************************************)
(* What holds of a meeting's media and of live voice.                      *)
(*                                                                         *)
(* MeetingMedia: no device outlives its stream, no connection but a bare   *)
(* one outlives the stream it was made for, and every connection comes to  *)
(* send what the participant chose, for any participants and any bounds on *)
(* what happens.  All of this is about one controller at a time: what      *)
(* others do reaches it as signals only.  Two that nobody disturbs miss    *)
(* each other only by an offer that nobody heard; this is about the two    *)
(* ends of a connection and what is on its way between them.               *)
(*                                                                         *)
(* VoiceSession: what is dictated is written once and in the order of      *)
(* speech, on no card before the one it was said for, for any bounds.      *)
(***************************************************************************)
EXTENDS MeetingMedia, VoiceSession, SelectionProofs, FiniteSetTheorems, TLAPS

Queues == [Participants -> [Participants -> Seq(Signal)]]
Channels == [Participants -> [Participants -> {"none", "joining", "joined", "lost"}]]
PeerRecords == [Participants -> [Participants -> PeerRecord \union {None}]]

-----------------------------------------------------------------------------
(* Types of what the operators make.                                       *)

LEMMA SignalTypes ==
  /\ Left \in Signal
  /\ \A p \in Participants : \A n, m \in Nat :
       /\ Ready(p) \in Signal /\ Offer(p, n) \in Signal
       /\ Answer(p, n, m) \in Signal /\ Candidate(p, n) \in Signal
  /\ Ready(None) \in Signal
  BY DEF Left, Ready, Offer, Answer, Candidate, Signal

LEMMA OnTopicType ==
  ASSUME TypeOK, NEW p \in Participants, NEW signals \in Seq(Signal)
  PROVE  OnTopic(p, signals) \in Queues
<1>1. \A s \in Participants : net[p][s] \o signals \in Seq(Signal)
  BY DEF TypeOK
<1>2. [s \in Participants |->
         IF s # p /\ Joined(s, p) THEN net[p][s] \o signals ELSE net[p][s]]
       \in [Participants -> Seq(Signal)]
  BY <1>1 DEF TypeOK
<1> QED  BY <1>2 DEF OnTopic, Queues, TypeOK

LEMMA DroppedType ==
  ASSUME NEW queues \in Queues, NEW p \in Participants, NEW S
  PROVE  Dropped(queues, p, S) \in Queues
<1>1. << >> \in Seq(Signal)
  OBVIOUS
<1>2. \A q \in Participants : [queues[q] EXCEPT ![p] = << >>] \in [Participants -> Seq(Signal)]
  BY <1>1 DEF Queues
<1> QED  BY <1>2 DEF Dropped, Queues

LEMMA SendType ==
  ASSUME TypeOK, NEW p \in Participants, NEW signals \in Seq(Signal), Send(p, signals)
  PROVE  net' \in Queues /\ shows' \in [Participants -> Shown] /\ faults' \in Nat
<1>1. net' = net \/ net' = OnTopic(p, signals)
  BY DEF Send
<1>2. net' \in Queues
  <2>1. net \in Queues
    BY DEF TypeOK, Queues
  <2> QED  BY <1>1, <2>1, OnTopicType
<1>3. shows' \in [Participants -> Shown]
  BY DEF Send, Shown, TypeOK
<1>4. faults' \in Nat
  BY DEF Send, Fault, TypeOK
<1> QED  BY <1>2, <1>3, <1>4

LEMMA SyncType ==
  ASSUME TypeOK, NEW p \in Participants, NEW S, SyncChannels(p, S)
  PROVE  chan' \in Channels /\ net' \in Queues
<1>1. net' \in Queues
  BY DroppedType DEF SyncChannels, TypeOK, Queues
<1>2. [q \in Participants |-> IF q \notin S THEN "none"
                              ELSE IF chan[p][q] = "none" THEN "joining" ELSE chan[p][q]]
        \in [Participants -> {"none", "joining", "joined", "lost"}]
  BY DEF TypeOK
<1> QED  BY <1>1, <1>2 DEF SyncChannels, Channels, TypeOK

LEMMA CleanupType ==
  ASSUME TypeOK, NEW p \in Participants, NEW announce \in BOOLEAN, Cleanup(p, announce)
  PROVE  /\ chan' \in Channels /\ net' \in Queues /\ peers' \in PeerRecords
         /\ devices' \in [Participants -> SUBSET Nat] /\ stream' \in [Participants -> Nat]
         /\ camera' \in [Participants -> BOOLEAN]
<1>1. <<Left>> \in Seq(Signal)
  BY SignalTypes
<1>2. net' \in Queues
  <2>1. net \in Queues /\ OnTopic(p, <<Left>>) \in Queues
    BY <1>1, OnTopicType DEF TypeOK, Queues
  <2> QED  BY <2>1, DroppedType DEF Cleanup
<1>3. chan' \in Channels
  BY DEF Cleanup, Channels, TypeOK
<1>4. NoPeers \in [Participants -> PeerRecord \union {None}]
  BY DEF NoPeers
<1>5. peers' \in PeerRecords
  BY <1>4 DEF Cleanup, PeerRecords, TypeOK
<1>6. /\ devices' \in [Participants -> SUBSET Nat] /\ stream' \in [Participants -> Nat]
      /\ camera' \in [Participants -> BOOLEAN]
  BY DEF Cleanup, TypeOK
<1> QED  BY <1>2, <1>3, <1>5, <1>6

LEMMA DepartType ==
  ASSUME TypeOK, NEW p \in Participants, Depart(p)
  PROVE  /\ chan' \in Channels /\ net' \in Queues /\ peers' \in PeerRecords
         /\ devices' \in [Participants -> SUBSET Nat] /\ stream' \in [Participants -> Nat]
         /\ camera' \in [Participants -> BOOLEAN]
         /\ life' \in [Participants -> Nat] /\ faults' \in Nat
<1>1. Cleanup(p, TRUE) \/ Cleanup(p, FALSE)
  BY DEF Depart
<1>2. life' \in [Participants -> Nat]
  BY DEF Depart, TypeOK
<1>3. faults' = faults \/ faults' = faults + 1
  BY DEF Depart, Fault
<1>4. faults' \in Nat
  BY <1>3 DEF TypeOK
<1> QED  BY <1>1, <1>2, <1>4, CleanupType

\* What a queued item is.
LEMMA WorkTypes ==
  ASSUME NEW w \in Work
  PROVE  /\ IsSignal(w) => /\ w \in [from : Participants, signal : Signal]
                           /\ w.signal.kind \in {"ready", "left", "offer", "answer", "ice"}
         /\ ~ IsSignal(w) => w \in [on : BOOLEAN, of : Nat]
  BY DEF Work, IsSignal, Signal

LEMMA DoneType ==
  ASSUME TypeOK, NEW p \in Participants, work[p] # << >>, Done(p)
  PROVE  /\ work' \in [Participants -> Seq(Work)]
         /\ step' \in [Participants -> Step \union {None}]
<1>1. work[p] \in Seq(Work)
  BY DEF TypeOK
<1>2. Tail(work[p]) \in Seq(Work)
  BY <1>1
<1> QED  BY <1>2 DEF Done, TypeOK

LEMMA ThrowsType ==
  ASSUME TypeOK, NEW p \in Participants, work[p] # << >>, Throws(p)
  PROVE  /\ work' \in [Participants -> Seq(Work)]
         /\ step' \in [Participants -> Step \union {None}]
         /\ shows' \in [Participants -> Shown]
<1>1. shows' \in [Participants -> Shown]
  BY DEF Throws, Shown, TypeOK
<1> QED  BY <1>1, DoneType DEF Throws

LEMMA PutPeerType ==
  ASSUME TypeOK, NEW p \in Participants, NEW q \in Participants,
         NEW r \in PeerRecord \union {None}, PutPeer(p, q, r)
  PROVE  peers' \in PeerRecords
<1>1. [peers[p] EXCEPT ![q] = r] \in [Participants -> PeerRecord \union {None}]
  BY DEF TypeOK
<1> QED  BY <1>1 DEF PutPeer, PeerRecords, TypeOK

LEMMA NewPeerType ==
  ASSUME TypeOK, NEW p \in Participants
  PROVE  NewPeer(p) \in PeerRecord
  BY DEF NewPeer, PeerRecord, TypeOK

\* What Proceed leaves behind in each of its cases.
LEMMA ProceedCases ==
  ASSUME NEW p \in Participants, NEW q \in Participants, NEW item \in Signal,
         item.kind # "left", NEW r \in PeerRecord, Proceed(p, q, item, r)
  PROVE  \/ /\ PutPeer(p, q, r) /\ Busy(p, [at |-> "offering", id |-> r.id])
            /\ UNCHANGED <<net, shows, faults>>
         \/ /\ PutPeer(p, q, r) /\ Busy(p, [at |-> "describing", id |-> r.id])
            /\ UNCHANGED <<net, shows, faults>>
         \/ PutPeer(p, q, r) /\ Done(p) /\ UNCHANGED <<net, shows, faults>>
         \/ PutPeer(p, q, r) /\ Done(p) /\ Send(p, <<Ready(q)>>)
         \/ /\ PutPeer(p, q, [r EXCEPT !.pendingIce = @ \union {item.by}]) /\ Done(p)
            /\ UNCHANGED <<net, shows, faults>>
         \/ /\ PutPeer(p, q, [r EXCEPT !.ice = @ \union {item.by}]) /\ Done(p)
            /\ UNCHANGED <<net, shows, faults>>
         \/ PutPeer(p, q, r) /\ Throws(p) /\ UNCHANGED <<net, faults>>
<1>1. item.kind \in {"ready", "offer", "answer", "ice"}
  BY DEF Signal
<1>2. CASE item.kind = "ready" /\ Offers(p, q) /\ r.local = "none"
  BY <1>2 DEF Proceed
<1>3. CASE item.kind = "ready" /\ Offers(p, q) /\ r.local # "none"
  BY <1>3 DEF Proceed
<1>4. CASE item.kind = "ready" /\ ~Offers(p, q)
  BY <1>4 DEF Proceed
<1>5. CASE item.kind \in {"offer", "answer"}
  BY <1>5 DEF Proceed
<1>6. CASE item.kind = "ice" /\ r.remote = 0
  BY <1>6 DEF Proceed
<1>7. CASE item.kind = "ice" /\ r.remote = item.by
  <2>1. CASE r.remote = 0
    BY <1>6, <1>7, <2>1
  <2>2. CASE r.remote # 0
    BY <1>7, <2>2 DEF Proceed
  <2> QED  BY <2>1, <2>2
<1>8. CASE item.kind = "ice" /\ r.remote \notin {0, item.by}
  BY <1>8 DEF Proceed
<1> QED  BY <1>1, <1>2, <1>3, <1>4, <1>5, <1>6, <1>7, <1>8

-----------------------------------------------------------------------------
(* Types in every step.                                                    *)

\* A handler that awaits works on the first queued item, a signal.
Underway(p) ==
  step[p] # None => /\ work[p] # << >> /\ IsSignal(Head(work[p]))
                    /\ Head(work[p]).signal.kind # "left"

LEMMA HeadType ==
  ASSUME TypeOK, NEW p \in Participants, work[p] # << >>
  PROVE  Head(work[p]) \in Work
<1>1. work[p] \in Seq(Work)
  BY DEF TypeOK
<1> QED  BY <1>1

LEMMA StartTypes ==
  ASSUME TypeOK, NEW p \in Participants, Starts(p)
  PROVE  TypeOK'
<1> USE DEF lifecycle, signalling, negotiation, bounds
<1>1. ASSUME Start(p)
      PROVE  TypeOK'
  <2>1. [life |-> life[p], at |-> "servers"] \in Starting
    BY DEF Starting, TypeOK
  <2>2. starting' \in [Participants -> Starting \union {None}]
        /\ shows' \in [Participants -> Shown]
    BY <1>1, <2>1 DEF Start, Shown, TypeOK
  <2> QED  BY <1>1, <2>2 DEF Start, TypeOK
\* Moving on within a start.
<1>2. ASSUME starting[p] # None, NEW what \in {"servers", "permission", "auth", "cleanup"}
      PROVE  [starting EXCEPT ![p].at = what] \in [Participants -> Starting \union {None}]
  <2>1. starting[p] \in Starting
    BY <1>2 DEF TypeOK
  <2>2. [starting[p] EXCEPT !.at = what] \in Starting
    BY <2>1 DEF Starting
  <2> QED  BY <2>2 DEF TypeOK
<1>3. [starting EXCEPT ![p] = None] \in [Participants -> Starting \union {None}]
  BY DEF TypeOK
<1>4. ASSUME ServersResolved(p)
      PROVE  TypeOK'
  <2>1. starting' \in [Participants -> Starting \union {None}]
    BY <1>2, <1>3, <1>4 DEF ServersResolved, Awaits
  <2>2. shows' \in [Participants -> Shown]
    BY <1>4 DEF ServersResolved, Shown, TypeOK
  <2> QED  BY <1>4, <2>1, <2>2 DEF ServersResolved, TypeOK
<1>5. ASSUME MediaGranted(p)
      PROVE  TypeOK'
  <2>1. starting' \in [Participants -> Starting \union {None}]
    BY <1>2, <1>3, <1>5 DEF MediaGranted, Awaits
  <2>2. shows' \in [Participants -> Shown]
    BY <1>5 DEF MediaGranted, Shown, TypeOK
  <2>3. acquired' \in [Participants -> Nat]
    BY <1>5 DEF MediaGranted, TypeOK
  <2>4. camera' = camera \/ camera' = [camera EXCEPT ![p] = TRUE]
    BY <1>5 DEF MediaGranted
  <2>5. camera' \in [Participants -> BOOLEAN]
    BY <2>4 DEF TypeOK
  <2>6. acquired[p] + 1 \in Nat /\ devices[p] \union {acquired[p] + 1} \in SUBSET Nat
    BY DEF TypeOK
  <2>7. stream' \in [Participants -> Nat]
    BY <1>5, <2>6 DEF MediaGranted, TypeOK
  <2>8. devices' = devices \/ devices' = [devices EXCEPT ![p] = devices[p] \union {acquired[p] + 1}]
    BY <1>5 DEF MediaGranted
  <2>9. devices' \in [Participants -> SUBSET Nat]
    BY <2>6, <2>8 DEF TypeOK
  <2> QED  BY <1>5, <2>1, <2>2, <2>3, <2>5, <2>7, <2>9 DEF MediaGranted, TypeOK
<1>6. ASSUME MediaDenied(p)
      PROVE  TypeOK'
  <2>1. shows' \in [Participants -> Shown] /\ faults' \in Nat
    BY <1>6 DEF MediaDenied, Fault, Shown, TypeOK
  <2> QED  BY <1>3, <1>6, <2>1 DEF MediaDenied, TypeOK
<1>7. ASSUME Authorized(p)
      PROVE  TypeOK'
  <2>1. chan' \in Channels /\ net' \in Queues
    <3>1. chan \in Channels /\ net \in Queues
      BY DEF TypeOK, Channels, Queues
    <3> QED  BY <1>7, <3>1, SyncType DEF Authorized
  <2> QED  BY <1>3, <1>7, <2>1 DEF Authorized, TypeOK, Channels, Queues
<1>8. ASSUME AuthFails(p)
      PROVE  TypeOK'
  <2>1. /\ chan' \in Channels /\ net' \in Queues /\ peers' \in PeerRecords
        /\ devices' \in [Participants -> SUBSET Nat] /\ stream' \in [Participants -> Nat]
        /\ camera' \in [Participants -> BOOLEAN]
    <3>1. /\ chan \in Channels /\ net \in Queues /\ peers \in PeerRecords
          /\ devices \in [Participants -> SUBSET Nat] /\ stream \in [Participants -> Nat]
          /\ camera \in [Participants -> BOOLEAN]
      BY DEF TypeOK, Channels, Queues, PeerRecords
    <3> QED  BY <1>8, <3>1, CleanupType DEF AuthFails
  <2>2. starting' \in [Participants -> Starting \union {None}]
    BY <1>2, <1>3, <1>8 DEF AuthFails, Awaits
  <2>3. shows' \in [Participants -> Shown]
    BY <1>8 DEF AuthFails, Shown, TypeOK
  <2>4. faults' \in Nat
    BY <1>8 DEF AuthFails, Fault, TypeOK
  <2> QED
    BY <1>8, <2>1, <2>2, <2>3, <2>4 DEF AuthFails, TypeOK, Channels, Queues, PeerRecords
<1>9. ASSUME CleanedUp(p)
      PROVE  TypeOK'
  <2>1. shows' \in [Participants -> Shown]
    BY <1>9 DEF CleanedUp, Shown, TypeOK
  <2> QED  BY <1>3, <1>9, <2>1 DEF CleanedUp, TypeOK
<1> QED
  BY <1>1, <1>4, <1>5, <1>6, <1>7, <1>8, <1>9 DEF Starts

LEMMA EventTypes ==
  ASSUME TypeOK, NEW p \in Participants,
         \/ Stop(p) \/ Dispose(p) \/ SetCamera(p)
         \/ \E S \in SUBSET Participants :
              \/ \E over \in BOOLEAN : Excluded(p, S, over)
              \/ RosterChanges(p, S)
  PROVE  TypeOK'
<1> USE DEF lifecycle, signalling, negotiation, bounds
<1>1. ASSUME Event(p)
      PROVE  events' \in Nat
  BY <1>1 DEF Event, TypeOK
<1>2. ASSUME Stop(p)
      PROVE  TypeOK'
  <2>1. shows' \in [Participants -> Shown]
    BY <1>2 DEF Stop, Shown, TypeOK
  <2>2. Depart(p) /\ Event(p)
    BY <1>2 DEF Stop
  <2> QED
    BY <1>1, <1>2, <2>1, <2>2, DepartType DEF Stop, TypeOK, Channels, Queues, PeerRecords
<1>3. ASSUME Dispose(p)
      PROVE  TypeOK'
  <2>1. shows' \in [Participants -> Shown] /\ disposed' \in [Participants -> BOOLEAN]
    BY <1>3 DEF Dispose, Shown, TypeOK
  <2>2. Depart(p) /\ Event(p)
    BY <1>3 DEF Dispose
  <2> QED
    BY <1>1, <1>3, <2>1, <2>2, DepartType DEF Dispose, TypeOK, Channels, Queues, PeerRecords
<1>4. ASSUME NEW S \in SUBSET Participants, NEW over \in BOOLEAN, Excluded(p, S, over)
      PROVE  TypeOK'
  <2>1. shows' \in [Participants -> Shown] /\ allowed' \in [Participants -> SUBSET Participants]
    BY <1>4 DEF Excluded, Shown, TypeOK
  <2>2. Depart(p) /\ events' \in Nat
    BY <1>1, <1>4 DEF Excluded
  <2>3. UNCHANGED <<acquired, starting, disposed, work, step, made, limit, switches>>
    BY <1>4 DEF Excluded
  <2> QED
    BY <2>1, <2>2, <2>3, DepartType DEF TypeOK, Channels, Queues, PeerRecords
<1>5. ASSUME NEW S \in SUBSET Participants, RosterChanges(p, S)
      PROVE  TypeOK'
  <2>1. shows' \in [Participants -> Shown] /\ allowed' \in [Participants -> SUBSET Participants]
    BY <1>5 DEF RosterChanges, Shown, TypeOK
  <2>2. events' \in Nat
    BY <1>1, <1>5 DEF RosterChanges, TypeOK
  <2>3. chan' \in Channels /\ net' \in Queues
    <3>1. chan \in Channels /\ net \in Queues
      BY DEF TypeOK, Channels, Queues
    <3> QED  BY <1>5, <3>1, SyncType DEF RosterChanges
  <2>4. peers' \in PeerRecords
    <3>1. [q \in Participants |-> IF q \in S THEN peers[p][q] ELSE None]
            \in [Participants -> PeerRecord \union {None}]
      BY DEF TypeOK
    <3> QED  BY <1>5, <3>1 DEF RosterChanges, PeerRecords, TypeOK
  <2>5. UNCHANGED <<lifecycle, work, step, made, limit, switches, faults>>
    BY <1>5 DEF RosterChanges
  <2> QED
    BY <2>1, <2>2, <2>3, <2>4, <2>5 DEF TypeOK, Channels, Queues, PeerRecords
<1>6. ASSUME SetCamera(p)
      PROVE  TypeOK'
  <2>1. camera' \in [Participants -> BOOLEAN] /\ switches' \in Nat
    BY <1>6 DEF SetCamera, TypeOK
  <2>2. [on |-> ~camera[p], of |-> stream[p]] \in Work
    BY DEF Work, TypeOK
  <2>3. work' \in [Participants -> Seq(Work)]
    <3>1. Append(work[p], [on |-> ~camera[p], of |-> stream[p]]) \in Seq(Work)
      BY <2>2 DEF TypeOK
    <3> QED  BY <1>6, <3>1 DEF SetCamera, TypeOK
  <2> QED  BY <1>6, <2>1, <2>3 DEF SetCamera, TypeOK
<1> QED
  BY <1>2, <1>3, <1>4, <1>5, <1>6

LEMMA ChannelTypes ==
  ASSUME TypeOK, NEW p \in Participants, NEW q \in Participants,
         \/ Subscribed(p, q) \/ ChannelFails(p, q) \/ Deliver(q, p)
         \/ CandidateFound(p, q) \/ Connect(p, q) \/ ConnectionFails(p, q)
  PROVE  TypeOK'
<1> USE DEF lifecycle, signalling, negotiation, bounds
<1>0. net \in Queues
  BY DEF TypeOK, Queues
<1>1. ASSUME NEW state \in {"joined", "lost"}
      PROVE  [chan EXCEPT ![p][q] = state] \in Channels
  <2>1. [chan[p] EXCEPT ![q] = state]
          \in [Participants -> {"none", "joining", "joined", "lost"}]
    BY DEF TypeOK
  <2> QED  BY <2>1 DEF Channels, TypeOK
<1>2. ASSUME Subscribed(p, q)
      PROVE  TypeOK'
  <2>1. chan' \in Channels
    BY <1>1, <1>2 DEF Subscribed
  <2>2. CASE q = p
    <3>1. shows' \in [Participants -> Shown]
      BY <1>2, <2>2 DEF Subscribed, Shown, TypeOK
    <3>2. faults' = faults \/ faults' = faults + 1
      BY <1>2, <2>2 DEF Subscribed, Fault
    <3>3. shows' \in [Participants -> Shown] /\ faults' \in Nat
      BY <3>1, <3>2, SMTT(30) DEF TypeOK
    <3>4. \A s \in Participants :
            /\ net[p][s] \in Seq(Signal)
            /\ net[p][s] \o <<Ready(None), Ready(s)>> \in Seq(Signal)
            /\ net[p][s] \o <<Ready(None)>> \in Seq(Signal)
      <4>1. ASSUME NEW s \in Participants
            PROVE  <<Ready(None), Ready(s)>> \in Seq(Signal) /\ <<Ready(None)>> \in Seq(Signal)
        BY SignalTypes
      <4> QED  BY <4>1 DEF TypeOK
    <3>5. [s \in Participants |->
             IF s = p \/ ~Joined(s, p) THEN net[p][s]
             ELSE net[p][s] \o (IF Joined(p, s) THEN <<Ready(None), Ready(s)>>
                                              ELSE <<Ready(None)>>)]
            \in [Participants -> Seq(Signal)]
      BY <3>4
    <3>6. net' \in Queues
      BY <1>0, <1>2, <2>2, <3>5 DEF Subscribed, Queues
    <3> QED  BY <1>2, <2>1, <3>3, <3>6 DEF Subscribed, TypeOK, Channels, Queues
  <2>3. CASE q # p
    <3>1. Announcement(p, q) \in Seq(Signal)
      BY SignalTypes DEF Announcement
    <3>2. Send(p, Announcement(p, q))
      BY <1>2, <2>3 DEF Subscribed
    <3>3. net' \in Queues /\ shows' \in [Participants -> Shown] /\ faults' \in Nat
      BY <3>1, <3>2, SendType
    <3> QED  BY <1>2, <2>1, <3>3 DEF Subscribed, TypeOK, Channels, Queues
  <2> QED  BY <2>2, <2>3
<1>3. ASSUME ChannelFails(p, q)
      PROVE  TypeOK'
  <2>1. chan' \in Channels
    BY <1>1, <1>3 DEF ChannelFails
  <2>2. net' \in Queues
    <3>1. [net[q] EXCEPT ![p] = << >>] \in [Participants -> Seq(Signal)]
      BY DEF TypeOK
    <3> QED  BY <1>0, <1>3, <3>1 DEF ChannelFails, Queues
  <2>3. shows' \in [Participants -> Shown]
    BY <1>3 DEF ChannelFails, Shown, TypeOK
  <2>4. faults' \in Nat
    BY <1>3, SMTT(30) DEF ChannelFails, Fault, TypeOK
  <2> QED  BY <1>3, <2>1, <2>2, <2>3, <2>4 DEF ChannelFails, TypeOK, Channels, Queues
<1>4. ASSUME Deliver(q, p)
      PROVE  TypeOK'
  <2>1. net[q][p] \in Seq(Signal) /\ net[q][p] # << >>
    BY <1>4 DEF Deliver, TypeOK
  <2>2. Head(net[q][p]) \in Signal /\ Tail(net[q][p]) \in Seq(Signal)
    BY <2>1
  <2>3. net' \in Queues
    <3>1. [net[q] EXCEPT ![p] = Tail(@)] \in [Participants -> Seq(Signal)]
      BY <2>2 DEF TypeOK
    <3> QED  BY <1>0, <1>4, <3>1 DEF Deliver, Queues
  <2>4. work' \in [Participants -> Seq(Work)]
    <3>1. [from |-> q, signal |-> Head(net[q][p])] \in Work
      BY <2>2 DEF Work
    <3>2. Append(work[p], [from |-> q, signal |-> Head(net[q][p])]) \in Seq(Work)
      BY <3>1 DEF TypeOK
    <3> QED  BY <1>4, <3>2 DEF Deliver, TypeOK
  <2> QED  BY <1>4, <2>3, <2>4 DEF Deliver, TypeOK, Queues
<1>5. ASSUME CandidateFound(p, q)
      PROVE  TypeOK'
  <2>1. peers[p][q] \in PeerRecord
    BY <1>5 DEF CandidateFound, MayFind, TypeOK
  <2>2. [peers[p][q] EXCEPT !.sent = TRUE] \in PeerRecord /\ peers[p][q].id \in Nat
    BY <2>1 DEF PeerRecord
  <2>3. peers' \in PeerRecords
    BY <1>5, <2>2, PutPeerType DEF CandidateFound
  <2>4. <<Candidate(q, peers[p][q].id)>> \in Seq(Signal)
    BY <2>2, SignalTypes
  <2>5. net' \in Queues /\ shows' \in [Participants -> Shown] /\ faults' \in Nat
    BY <1>5, <2>4, SendType DEF CandidateFound
  <2> QED  BY <1>5, <2>3, <2>5 DEF CandidateFound, TypeOK, Queues, PeerRecords
<1>6. ASSUME Connect(p, q)
      PROVE  TypeOK'
  <2>1. peers[p][q] \in PeerRecord
    BY <1>6 DEF Connect, MayConnect, TypeOK
  <2>2. [peers[p][q] EXCEPT !.connected = TRUE] \in PeerRecord
    BY <2>1 DEF PeerRecord
  <2>3. peers' \in PeerRecords
    BY <1>6, <2>2, PutPeerType DEF Connect
  <2> QED  BY <1>6, <2>3 DEF Connect, TypeOK, PeerRecords
<1>7. ASSUME ConnectionFails(p, q)
      PROVE  TypeOK'
  <2>1. peers' \in PeerRecords
    BY <1>7, PutPeerType DEF ConnectionFails
  <2>2. faults' \in Nat
    BY <1>7, SMTT(30) DEF ConnectionFails, Fault, TypeOK
  <2> QED  BY <1>7, <2>1, <2>2 DEF ConnectionFails, TypeOK, PeerRecords
<1> QED  BY <1>2, <1>3, <1>4, <1>5, <1>6, <1>7

\* The awaits that handlers enter.
LEMMA StepTypes ==
  /\ \A n \in Nat : /\ [at |-> "servers", id |-> n] \in Step
                    /\ [at |-> "offering", id |-> n] \in Step
                    /\ [at |-> "describing", id |-> n] \in Step
  /\ \A r \in PeerRecord : [at |-> "detaching", peer |-> r] \in Step
  BY DEF Step

LEMMA BusyType ==
  ASSUME TypeOK, NEW p \in Participants, NEW s \in Step, Busy(p, s)
  PROVE  /\ work' \in [Participants -> Seq(Work)]
         /\ step' \in [Participants -> Step \union {None}]
  BY DEF Busy, TypeOK

LEMMA ProceedType ==
  ASSUME TypeOK, NEW p \in Participants, work[p] # << >>,
         NEW q \in Participants, NEW item \in Signal, item.kind # "left",
         NEW r \in PeerRecord, Proceed(p, q, item, r)
  PROVE  /\ work' \in [Participants -> Seq(Work)]
         /\ step' \in [Participants -> Step \union {None}]
         /\ peers' \in PeerRecords /\ net' \in Queues
         /\ shows' \in [Participants -> Shown] /\ faults' \in Nat
<1>1. net \in Queues /\ shows \in [Participants -> Shown] /\ faults \in Nat
  BY DEF TypeOK, Queues
<1>2. /\ r.id \in Nat /\ item.by \in Nat
      /\ [r EXCEPT !.pendingIce = @ \union {item.by}] \in PeerRecord
      /\ [r EXCEPT !.ice = @ \union {item.by}] \in PeerRecord
  BY DEF PeerRecord, Signal
<1>3. <<Ready(q)>> \in Seq(Signal)
  BY SignalTypes
<1>4. [at |-> "offering", id |-> r.id] \in Step /\ [at |-> "describing", id |-> r.id] \in Step
  BY <1>2, StepTypes
<1>5. CASE \/ Busy(p, [at |-> "offering", id |-> r.id])
           \/ Busy(p, [at |-> "describing", id |-> r.id])
           \/ Done(p) \/ Throws(p)
  <2>1. /\ work' \in [Participants -> Seq(Work)]
        /\ step' \in [Participants -> Step \union {None}]
    BY <1>4, <1>5, BusyType, DoneType, ThrowsType
  <2>2. peers' \in PeerRecords
    BY <1>2, ProceedCases, PutPeerType
  <2>3. net' \in Queues /\ shows' \in [Participants -> Shown] /\ faults' \in Nat
    BY <1>1, <1>3, ProceedCases, SendType, ThrowsType
  <2> QED  BY <2>1, <2>2, <2>3
<1> QED  BY <1>5, ProceedCases

\* The signal that a handler works on.
LEMMA HandledSignal ==
  ASSUME TypeOK, NEW p \in Participants, work[p] # << >>, IsSignal(Head(work[p]))
  PROVE  Head(work[p]).from \in Participants /\ Head(work[p]).signal \in Signal
         /\ Head(work[p]).signal.by \in Nat
  BY HeadType, WorkTypes DEF Signal

LEMMA PeerOf ==
  ASSUME TypeOK, NEW p \in Participants, NEW q \in Participants, peers[p][q] # None
  PROVE  peers[p][q] \in PeerRecord
  BY DEF TypeOK

LEMMA HandlerTypes ==
  ASSUME TypeOK, NEW p \in Participants, Underway(p), Handles(p)
  PROVE  TypeOK'
<1> USE DEF lifecycle, signalling, negotiation, bounds
<1>0. net \in Queues /\ shows \in [Participants -> Shown] /\ faults \in Nat
      /\ peers \in PeerRecords
  BY DEF TypeOK, Queues, PeerRecords
<1>1. ASSUME IgnoreSignal(p)
      PROVE  TypeOK'
  BY <1>1, DoneType DEF IgnoreSignal, Idle, TypeOK
<1>2. ASSUME HandleLeft(p)
      PROVE  TypeOK'
  <2>1. peers' \in PeerRecords
    BY <1>2, HandledSignal, PutPeerType DEF HandleLeft, Idle
  <2> QED  BY <1>2, <2>1, DoneType DEF HandleLeft, Idle, TypeOK, PeerRecords
<1>3. ASSUME HandleSignal(p)
      PROVE  TypeOK'
  <2> DEFINE w == Head(work[p])
  <2>1. /\ work[p] # << >> /\ IsSignal(w) /\ w.signal.kind # "left"
        /\ peers[p][w.from] # None /\ Proceed(p, w.from, w.signal, peers[p][w.from])
    BY <1>3 DEF HandleSignal, Idle
  <2>2. w.from \in Participants /\ w.signal \in Signal
    BY <2>1, HandledSignal
  <2> HIDE DEF w
  <2>3. peers[p][w.from] \in PeerRecord
    BY <2>1, <2>2, PeerOf
  <2>4. /\ work' \in [Participants -> Seq(Work)]
        /\ step' \in [Participants -> Step \union {None}]
        /\ peers' \in PeerRecords /\ net' \in Queues
        /\ shows' \in [Participants -> Shown] /\ faults' \in Nat
    BY <2>1, <2>2, <2>3, ProceedType
  <2> QED  BY <1>3, <2>4 DEF HandleSignal, TypeOK, Queues, PeerRecords
<1>4. ASSUME AskServers(p)
      PROVE  TypeOK'
  BY <1>4, StepTypes, BusyType DEF AskServers, TypeOK
<1>5. ASSUME UseServers(p)
      PROVE  TypeOK'
  <2> DEFINE w == Head(work[p])
             idle == disposed[p] \/ stream[p] = 0 \/ w.from \notin allowed[p]
  <2>1. work[p] # << >> /\ IsSignal(w) /\ w.signal.kind # "left"
    BY <1>5 DEF UseServers, At, Underway
  <2>2. w.from \in Participants /\ w.signal \in Signal
    BY <2>1, HandledSignal
  <2>3. /\ work' \in [Participants -> Seq(Work)]
        /\ step' \in [Participants -> Step \union {None}]
        /\ peers' \in PeerRecords /\ net' \in Queues
        /\ shows' \in [Participants -> Shown] /\ faults' \in Nat
        /\ made' \in [Participants -> Nat]
    <3>1. made' \in [Participants -> Nat]
      <4>1. made' = made \/ made' = [made EXCEPT ![p] = @ + 1]
        BY <1>5 DEF UseServers
      <4>2. made \in [Participants -> Nat]
        BY DEF TypeOK
      <4> QED  BY <4>1, <4>2
    <3>2. CASE idle
      <4>1. Done(p) /\ UNCHANGED <<net, shows, faults, peers>>
        BY <1>5, <3>2 DEF UseServers
      <4> QED  BY <1>0, <2>1, <3>1, <4>1, DoneType
    <3>3. CASE ~ idle /\ camera[p]
      <4>1. Proceed(p, w.from, w.signal, NewPeer(p))
        BY <1>5, <3>3 DEF UseServers
      <4> QED  BY <2>1, <2>2, <3>1, <4>1, NewPeerType, ProceedType
    <3>4. CASE ~ idle /\ ~ camera[p]
      <4>1. /\ Busy(p, [at |-> "detaching", peer |-> NewPeer(p)])
            /\ UNCHANGED <<net, shows, faults, peers>>
        BY <1>5, <3>4 DEF UseServers
      <4>2. [at |-> "detaching", peer |-> NewPeer(p)] \in Step
        BY NewPeerType, StepTypes
      <4> QED  BY <1>0, <3>1, <4>1, <4>2, BusyType
    <3> QED  BY <3>2, <3>3, <3>4
  <2>4. UNCHANGED <<allowed, lifecycle, chan, limit, switches, events>>
    BY <1>5 DEF UseServers
  <2> QED  BY <2>3, <2>4 DEF TypeOK, Queues, PeerRecords
<1>6. ASSUME Detached(p)
      PROVE  TypeOK'
  <2> DEFINE w == Head(work[p])
  <2>1. /\ work[p] # << >> /\ IsSignal(w) /\ w.signal.kind # "left"
        /\ step[p] # None /\ step[p].at = "detaching"
    BY <1>6 DEF Detached, At, Underway
  <2>2. w.from \in Participants /\ w.signal \in Signal
    BY <2>1, HandledSignal
  <2>3. step[p].peer \in PeerRecord
    <3>1. step[p] \in Step
      BY <2>1 DEF TypeOK
    <3> QED  BY <2>1, <3>1 DEF Step
  <2>4. /\ work' \in [Participants -> Seq(Work)]
        /\ step' \in [Participants -> Step \union {None}]
        /\ peers' \in PeerRecords /\ net' \in Queues
        /\ shows' \in [Participants -> Shown] /\ faults' \in Nat
    <3>1. CASE Proceed(p, w.from, w.signal, step[p].peer)
      BY <2>1, <2>2, <2>3, <3>1, ProceedType
    <3>2. CASE Fault /\ Throws(p) /\ UNCHANGED <<net, peers>>
      <4>1. faults' \in Nat
        BY <3>2 DEF Fault, TypeOK
      <4> QED  BY <1>0, <2>1, <3>2, <4>1, ThrowsType
    <3> QED  BY <1>6, <3>1, <3>2 DEF Detached
  <2>5. UNCHANGED <<allowed, lifecycle, chan, made, limit, switches, events>>
    BY <1>6 DEF Detached
  <2> QED  BY <2>4, <2>5 DEF TypeOK, Queues, PeerRecords
<1>7. ASSUME NEW what \in {"servers", "offering", "describing"}, At(p, what)
      PROVE  step[p].id \in Nat
  <2>1. step[p] \in Step /\ step[p].at # "detaching"
    BY <1>7 DEF At, TypeOK
  <2> QED  BY <2>1 DEF Step
<1>8. ASSUME OfferMade(p)
      PROVE  TypeOK'
  <2> DEFINE q == Head(work[p]).from
  <2>1. work[p] # << >> /\ IsSignal(Head(work[p]))
    BY <1>8 DEF OfferMade, At, Underway
  <2>2. q \in Participants /\ step[p].id \in Nat
    BY <1>7, <1>8, <2>1, HandledSignal DEF OfferMade
  <2>3. /\ work' \in [Participants -> Seq(Work)]
        /\ step' \in [Participants -> Step \union {None}]
        /\ peers' \in PeerRecords /\ net' \in Queues
        /\ shows' \in [Participants -> Shown] /\ faults' \in Nat
    <3>1. CASE Closed(p)
      <4>1. Throws(p) /\ UNCHANGED <<net, faults, peers>>
        BY <1>8, <3>1 DEF OfferMade
      <4> QED  BY <1>0, <2>1, <4>1, ThrowsType
    <3>2. CASE ~ Closed(p)
      <4>1. /\ PutPeer(p, q, [peers[p][q] EXCEPT !.local = "offer"])
            /\ Send(p, <<Offer(q, step[p].id)>>) /\ Done(p)
        BY <1>8, <3>2 DEF OfferMade
      <4>2. peers[p][q] \in PeerRecord
        BY <2>2, <3>2, PeerOf DEF Closed
      <4>3. [peers[p][q] EXCEPT !.local = "offer"] \in PeerRecord
        BY <4>2 DEF PeerRecord
      <4>4. <<Offer(q, step[p].id)>> \in Seq(Signal)
        BY <2>2, SignalTypes
      <4> QED  BY <2>1, <2>2, <4>1, <4>3, <4>4, PutPeerType, SendType, DoneType
    <3> QED  BY <3>1, <3>2
  <2>4. UNCHANGED <<allowed, lifecycle, chan, made, limit, switches, events>>
    BY <1>8 DEF OfferMade
  <2> QED  BY <2>3, <2>4 DEF TypeOK, Queues, PeerRecords
<1>9. ASSUME Describe(p)
      PROVE  TypeOK'
  <2> DEFINE q == Head(work[p]).from
             item == Head(work[p]).signal
             r == peers[p][q]
             described == [r EXCEPT !.remote = item.by, !.pendingIce = {},
                                    !.ice = @ \union (r.pendingIce \intersect {item.by})]
  <2>1. work[p] # << >> /\ IsSignal(Head(work[p]))
    BY <1>9 DEF Describe, At, Underway
  <2>2. q \in Participants /\ item \in Signal /\ item.by \in Nat
    BY <2>1, HandledSignal
  <2>3. /\ work' \in [Participants -> Seq(Work)]
        /\ step' \in [Participants -> Step \union {None}]
        /\ peers' \in PeerRecords /\ net' \in Queues
        /\ shows' \in [Participants -> Shown] /\ faults' \in Nat
    <3>1. CASE Throws(p) /\ UNCHANGED <<net, faults, peers>>
      BY <1>0, <2>1, <3>1, ThrowsType
    <3>2. CASE ~ Closed(p)
      <4>1. r \in PeerRecord
        BY <2>2, <3>2, PeerOf DEF Closed
      <4>2. /\ described \in PeerRecord
            /\ [described EXCEPT !.local = "answer"] \in PeerRecord
            /\ r.id \in Nat
        BY <2>2, <4>1 DEF PeerRecord
      <4>3. <<Answer(q, r.id, item.by)>> \in Seq(Signal)
        BY <2>2, <4>2, SignalTypes
      <4>4. \/ Throws(p) /\ UNCHANGED <<net, faults, peers>>
            \/ PutPeer(p, q, described) /\ Throws(p) /\ UNCHANGED <<net, faults>>
            \/ PutPeer(p, q, described) /\ Done(p) /\ UNCHANGED <<net, shows, faults>>
            \/ /\ PutPeer(p, q, [described EXCEPT !.local = "answer"])
               /\ Send(p, <<Answer(q, r.id, item.by)>>)
               /\ Done(p)
        BY <1>9, <3>2 DEF Describe
      <4> HIDE DEF described
      <4>5. [described EXCEPT !.local = "answer"] \in PeerRecord /\ described \in PeerRecord
        BY <4>2
      <4> QED
        BY <1>0, <2>1, <2>2, <3>1, <4>3, <4>4, <4>5, PutPeerType, SendType, DoneType,
           ThrowsType
    <3> QED  BY <1>9, <3>1, <3>2 DEF Describe
  <2>4. UNCHANGED <<allowed, lifecycle, chan, made, limit, switches, events>>
    BY <1>9 DEF Describe
  <2> QED  BY <2>3, <2>4 DEF TypeOK, Queues, PeerRecords
<1>10. ASSUME SwitchSenders(p)
       PROVE  TypeOK'
  <2> DEFINE w == Head(work[p])
             On(q) == IF peers[p][q] = None THEN None ELSE [peers[p][q] EXCEPT !.video = w.on]
  <2>1. work[p] # << >> /\ ~ IsSignal(w)
    BY <1>10 DEF SwitchSenders, Idle
  <2>2. w.on \in BOOLEAN
    BY <2>1, HeadType, WorkTypes
  <2>3. \A q \in Participants : On(q) \in PeerRecord \union {None}
    <3>1. ASSUME NEW q \in Participants, peers[p][q] # None
          PROVE  [peers[p][q] EXCEPT !.video = w.on] \in PeerRecord
      <4>1. peers[p][q] \in PeerRecord
        BY <3>1, PeerOf
      <4> HIDE DEF w
      <4> QED  BY <2>2, <4>1 DEF PeerRecord
    <3> QED  BY <3>1
  <2>4. peers' \in PeerRecords
    <3>1. \/ peers' = peers
          \/ peers' = [peers EXCEPT ![p] = [q \in Participants |-> On(q)]]
          \/ \E lost \in PeersOf(p) :
               peers' = [peers EXCEPT ![p] = [q \in Participants |->
                                                IF q = lost THEN None ELSE On(q)]]
      BY <1>10 DEF SwitchSenders
    <3> HIDE DEF On
    <3> QED  BY <1>0, <2>3, <3>1 DEF PeerRecords
  <2>5. faults' \in Nat
    BY <1>10 DEF SwitchSenders, Fault, TypeOK
  <2>6. Done(p) /\ UNCHANGED <<allowed, lifecycle, shows, signalling, made, limit, switches, events>>
    BY <1>10 DEF SwitchSenders
  <2> QED  BY <2>1, <2>4, <2>5, <2>6, DoneType DEF TypeOK, PeerRecords
<1> QED
  BY <1>1, <1>2, <1>3, <1>4, <1>5, <1>6, <1>8, <1>9, <1>10 DEF Handles

-----------------------------------------------------------------------------
(* The controllers one by one.                                             *)

\* What is held is the stream, and nothing is acquired over a stream.
Held(p) ==
  /\ devices[p] = {stream[p]} \ {0}
  /\ stream[p] =< acquired[p]
  /\ Awaits(p, "servers") \/ Awaits(p, "permission") => stream[p] = 0
  /\ disposed[p] => stream[p] = 0

\* Queued switches of the stream's camera; those of earlier streams are skipped.
Pending(p) ==
  { i \in 1 .. Len(work[p]) : ~ IsSignal(work[p][i]) /\ work[p][i].of = stream[p] }

SwitchesSound(p) ==
  \A i \in 1 .. Len(work[p]) : ~ IsSignal(work[p][i]) => work[p][i].of \in 1 .. acquired[p]

\* The last of them is the participant's choice.
LastDecides(p) ==
  \A i \in Pending(p) : (\A j \in Pending(p) : j =< i) => work[p][i].on = camera[p]

\* A peer record was made for a stream, for an earlier one only if bare, and
\* sends what was chosen unless a switch is still to come.
PeerSound(p, r) ==
  /\ r.of \in 1 .. acquired[p]
  /\ r.of # stream[p] => r.bare
  /\ r.of = stream[p] /\ Pending(p) = {} => r.video = camera[p]

PeersSound(p) ==
  /\ \A q \in Participants : peers[p][q] # None => PeerSound(p, peers[p][q])
  /\ At(p, "detaching") => PeerSound(p, step[p].peer) /\ step[p].peer.bare

Controller(p) ==
  Underway(p) /\ Held(p) /\ SwitchesSound(p) /\ LastDecides(p) /\ PeersSound(p)

MediaInv == TypeOK /\ \A p \in Participants : Controller(p)

Kept(p) ==
  UNCHANGED <<disposed[p], acquired[p], stream[p], devices[p], starting[p], camera[p],
              work[p], step[p], peers[p]>>

LEMMA KeptStays ==
  ASSUME NEW p \in Participants, Kept(p), Controller(p)
  PROVE  Controller(p)'
<1>1. Underway(p)' /\ Held(p)' /\ SwitchesSound(p)'
  BY DEF Kept, Controller, Underway, Held, Awaits, SwitchesSound
<1>2. Pending(p)' = Pending(p)
  BY DEF Kept, Pending
<1>3. LastDecides(p)'
  BY <1>2 DEF Kept, Controller, LastDecides
<1>4. PeersSound(p)'
  BY <1>2 DEF Kept, Controller, PeersSound, PeerSound, At
<1> QED  BY <1>1, <1>3, <1>4 DEF Controller

-----------------------------------------------------------------------------
(* What one controller's queue and peers do to it.                         *)

\* Nothing of the start, the stream and the camera changes.
Settles(p) ==
  UNCHANGED <<disposed[p], acquired[p], stream[p], devices[p], starting[p], camera[p]>>

\* Every peer after this step satisfies what is asked of one before it.
CarriesOn(p) == \A q \in Participants : peers'[p][q] # None => PeerSound(p, peers'[p][q])

LEMMA HeldStays ==
  ASSUME NEW p \in Participants, Settles(p), Held(p)
  PROVE  Held(p)'
  BY DEF Settles, Held, Awaits

\* A signal joins the queue.
LEMMA SignalJoins ==
  ASSUME TypeOK, NEW p \in Participants, Settles(p), Controller(p),
         NEW w, IsSignal(w), work'[p] = Append(work[p], w),
         UNCHANGED <<step[p], peers[p]>>
  PROVE  Controller(p)'
<1>1. work[p] \in Seq(Work)
  BY DEF TypeOK
<1>2. /\ Len(work'[p]) = Len(work[p]) + 1 /\ Len(work[p]) \in Nat
      /\ \A i \in 1 .. Len(work[p]) : work'[p][i] = work[p][i]
      /\ work'[p][Len(work[p]) + 1] = w
      /\ work[p] # << >> => work'[p] # << >> /\ Head(work'[p]) = Head(work[p])
  BY <1>1
<1>3. Pending(p)' = Pending(p)
  BY <1>2 DEF Pending, Settles
<1>4. Underway(p)'
  BY <1>2 DEF Underway, Controller
<1>5. SwitchesSound(p)'
  BY <1>2 DEF SwitchesSound, Settles, Controller
<1>6. LastDecides(p)'
  <2>1. Pending(p) \subseteq 1 .. Len(work[p])
    BY DEF Pending
  <2> QED  BY <1>2, <1>3, <2>1 DEF LastDecides, Settles, Controller
<1>7. PeersSound(p)'
  BY <1>3 DEF PeersSound, PeerSound, At, Settles, Controller
<1> QED  BY <1>4, <1>5, <1>6, <1>7, HeldStays DEF Controller

\* Peers change while the queue stays.
LEMMA PeersChange ==
  ASSUME NEW p \in Participants, Settles(p), Controller(p), CarriesOn(p),
         work'[p] = work[p], Underway(p)',
         At(p, "detaching")' => PeerSound(p, step'[p].peer) /\ step'[p].peer.bare
  PROVE  Controller(p)'
<1>1. Pending(p)' = Pending(p)
  BY DEF Pending, Settles
<1>2. SwitchesSound(p)' /\ LastDecides(p)'
  BY <1>1 DEF SwitchesSound, LastDecides, Settles, Controller
<1>3. PeersSound(p)'
  BY <1>1 DEF PeersSound, CarriesOn, PeerSound, At, Settles
<1> QED  BY <1>2, <1>3, HeldStays DEF Controller

LEMMA TailOfQueue ==
  ASSUME TypeOK, NEW p \in Participants, work[p] # << >>, work'[p] = Tail(work[p]),
         Settles(p)
  PROVE  /\ Len(work[p]) \in Nat \ {0} /\ Len(work'[p]) = Len(work[p]) - 1
         /\ \A i \in 1 .. Len(work'[p]) : work'[p][i] = work[p][i + 1]
         /\ work[p][1] = Head(work[p])
         /\ Pending(p)' = { i \in 1 .. Len(work'[p]) : i + 1 \in Pending(p) }
<1>1. work[p] \in Seq(Work)
  BY DEF TypeOK
<1>2. /\ Len(work[p]) \in Nat \ {0} /\ Len(work'[p]) = Len(work[p]) - 1
      /\ \A i \in 1 .. Len(work'[p]) : work'[p][i] = work[p][i + 1]
      /\ work[p][1] = Head(work[p])
  BY <1>1
<1>3. \A i \in 1 .. Len(work'[p]) : i + 1 \in 1 .. Len(work[p])
  BY <1>2
<1>4. Pending(p)' = { i \in 1 .. Len(work'[p]) : i + 1 \in Pending(p) }
  BY <1>2, <1>3 DEF Pending, Settles
<1> QED  BY <1>2, <1>4

\* A finished item leaves the queue: a switch that is not the last of the
\* stream's still decides nothing.
LEMMA QueueShrinks ==
  ASSUME TypeOK, NEW p \in Participants, Settles(p), Controller(p),
         work[p] # << >>, Done(p)
  PROVE  Underway(p)' /\ SwitchesSound(p)' /\ LastDecides(p)' /\ ~ At(p, "detaching")'
<1>1. work'[p] = Tail(work[p]) /\ step'[p] = None
  BY DEF Done, TypeOK
<1>2. Underway(p)' /\ ~ At(p, "detaching")'
  BY <1>1 DEF Underway, At
<1>3. /\ Len(work[p]) \in Nat \ {0} /\ Len(work'[p]) = Len(work[p]) - 1
      /\ \A i \in 1 .. Len(work'[p]) : work'[p][i] = work[p][i + 1]
      /\ Pending(p)' = { i \in 1 .. Len(work'[p]) : i + 1 \in Pending(p) }
  BY <1>1, TailOfQueue
<1>4. SwitchesSound(p)'
  BY <1>3 DEF SwitchesSound, Settles, Controller
<1>5. LastDecides(p)'
  <2> SUFFICES ASSUME NEW i \in Pending(p)', \A j \in Pending(p)' : j =< i
               PROVE  work'[p][i].on = camera[p]
    BY DEF LastDecides, Settles
  <2>1. i \in 1 .. Len(work'[p]) /\ i + 1 \in Pending(p)
    BY <1>3
  <2>2. ASSUME NEW j \in Pending(p)
        PROVE  j =< i + 1
    <3>1. j \in 1 .. Len(work[p])
      BY DEF Pending
    <3>2. CASE j = 1
      BY <2>1, <3>2
    <3>3. CASE j # 1
      <4>1. j - 1 \in 1 .. Len(work'[p]) /\ (j - 1) + 1 = j
        BY <1>3, <3>1, <3>3
      <4>2. j - 1 \in Pending(p)'
        BY <1>3, <4>1
      <4> QED  BY <2>1, <3>1, <4>2
    <3> QED  BY <3>2, <3>3
  <2> QED  BY <1>3, <2>1, <2>2 DEF LastDecides, Controller
<1> QED  BY <1>2, <1>4, <1>5

LEMMA SignalLeaves ==
  ASSUME TypeOK, NEW p \in Participants, Settles(p), Controller(p), CarriesOn(p),
         work[p] # << >>, IsSignal(Head(work[p])), Done(p)
  PROVE  Controller(p)'
<1>1. work'[p] = Tail(work[p])
  BY DEF Done, TypeOK
<1>2. /\ Len(work[p]) \in Nat \ {0} /\ Len(work'[p]) = Len(work[p]) - 1
      /\ work[p][1] = Head(work[p])
      /\ Pending(p)' = { i \in 1 .. Len(work'[p]) : i + 1 \in Pending(p) }
  BY <1>1, TailOfQueue
<1>3. Pending(p)' = {} => Pending(p) = {}
  <2> SUFFICES ASSUME NEW i \in Pending(p)
               PROVE  Pending(p)' # {}
    OBVIOUS
  <2>1. i \in 1 .. Len(work[p]) /\ i # 1
    BY <1>2 DEF Pending
  <2>2. i - 1 \in 1 .. Len(work'[p]) /\ (i - 1) + 1 = i
    BY <1>2, <2>1
  <2> QED  BY <1>2, <2>2
<1>4. \A q \in Participants : peers'[p][q] # None => PeerSound(p, peers[p][q])'
  BY <1>3 DEF CarriesOn, PeerSound, Settles
<1>5. PeersSound(p)'
  BY <1>4, QueueShrinks DEF PeersSound
<1> QED  BY <1>5, QueueShrinks, HeldStays DEF Controller

\* A record in place of another.
LEMMA PutContinues ==
  ASSUME TypeOK, NEW p \in Participants, NEW q \in Participants, Controller(p),
         NEW r, PutPeer(p, q, r), r # None => PeerSound(p, r)
  PROVE  CarriesOn(p)
<1>1. peers'[p][q] = r /\ \A o \in Participants \ {q} : peers'[p][o] = peers[p][o]
  BY DEF PutPeer, TypeOK
<1> QED  BY <1>1 DEF CarriesOn, Controller, PeersSound

LEMMA PeersContinue ==
  ASSUME NEW p \in Participants, Controller(p), peers'[p] = peers[p]
  PROVE  CarriesOn(p)
  BY DEF CarriesOn, Controller, PeersSound

\* What negotiation changes in a record does not matter here.
LEMMA SameSender ==
  ASSUME NEW p \in Participants, NEW r, NEW s, PeerSound(p, r),
         s.of = r.of, s.bare = r.bare, s.video = r.video
  PROVE  PeerSound(p, s)
  BY DEF PeerSound

-----------------------------------------------------------------------------
(* What a start, a clean-up and a person do to a controller.               *)

\* Whoever is cleaned up holds nothing, and keeps only what awaits detaching.
LEMMA CleanedUpSound ==
  ASSUME NEW p \in Participants, Controller(p),
         peers'[p] = NoPeers, devices'[p] = devices[p] \ {stream[p]}, stream'[p] = 0,
         UNCHANGED <<acquired[p], work[p], step[p]>>, acquired[p] \in Nat
  PROVE  Controller(p)'
<1>1. Underway(p)' /\ SwitchesSound(p)'
  BY DEF Underway, SwitchesSound, Controller
<1>2. Held(p)'
  BY DEF Held, Controller
<1>3. Pending(p)' = {}
  <2>1. ASSUME NEW i \in 1 .. Len(work[p]), ~ IsSignal(work[p][i])
        PROVE  work[p][i].of # 0
    BY <2>1 DEF Controller, SwitchesSound
  <2> QED  BY <2>1 DEF Pending
<1>4. LastDecides(p)'
  BY <1>3 DEF LastDecides
<1>5. PeersSound(p)'
  <2>1. \A q \in Participants : peers'[p][q] = None
    BY DEF NoPeers
  <2>2. ASSUME At(p, "detaching")
        PROVE  PeerSound(p, step[p].peer)' /\ step[p].peer.bare
    <3>1. step[p].peer.of \in 1 .. acquired[p] /\ step[p].peer.bare
      BY <2>2 DEF Controller, PeersSound, PeerSound
    <3>2. step[p].peer.of # 0
      BY <3>1
    <3> QED  BY <3>1, <3>2 DEF PeerSound
  <2> QED  BY <2>1, <2>2 DEF PeersSound, At
<1> QED  BY <1>1, <1>2, <1>4, <1>5 DEF Controller

LEMMA CleanupEffect ==
  ASSUME TypeOK, NEW p \in Participants, NEW announce, Cleanup(p, announce)
  PROVE  /\ peers'[p] = NoPeers /\ devices'[p] = devices[p] \ {stream[p]}
         /\ stream'[p] = 0
  BY DEF Cleanup, TypeOK

\* Only the start itself goes on.
LEMMA StartGoesOn ==
  ASSUME NEW p \in Participants, Controller(p),
         UNCHANGED <<disposed[p], acquired[p], stream[p], devices[p], camera[p],
                     work[p], step[p], peers[p]>>,
         Awaits(p, "servers")' \/ Awaits(p, "permission")' => stream[p] = 0
  PROVE  Controller(p)'
<1>1. Underway(p)' /\ Held(p)' /\ SwitchesSound(p)'
  BY DEF Controller, Underway, Held, SwitchesSound
<1>2. Pending(p)' = Pending(p)
  BY DEF Pending
<1>3. LastDecides(p)'
  BY <1>2 DEF Controller, LastDecides
<1>4. PeersSound(p)'
  BY <1>2 DEF Controller, PeersSound, PeerSound, At
<1> QED  BY <1>1, <1>3, <1>4 DEF Controller

LEMMA StartSound ==
  ASSUME TypeOK, NEW p \in Participants, Controller(p), Starts(p)
  PROVE  Controller(p)'
<1> USE DEF lifecycle, signalling, negotiation, bounds
<1>1. CASE Start(p)
  BY <1>1, StartGoesOn DEF Start
<1>2. CASE ServersResolved(p)
  <2>1. stream[p] = 0
    BY <1>2 DEF ServersResolved, Controller, Held
  <2> QED  BY <1>2, <2>1, StartGoesOn DEF ServersResolved
<1>3. CASE MediaDenied(p) \/ Authorized(p) \/ CleanedUp(p)
  <2>1. starting'[p] = None
    BY <1>3 DEF MediaDenied, Authorized, CleanedUp, TypeOK
  <2> QED
    BY <1>3, <2>1, StartGoesOn DEF MediaDenied, Authorized, CleanedUp, Awaits
<1>4. CASE AuthFails(p)
  <2>1. CASE Superseded(p)
    <3>1. starting'[p] = None
      BY <1>4, <2>1 DEF AuthFails, TypeOK
    <3> QED  BY <1>4, <2>1, <3>1, StartGoesOn DEF AuthFails, Awaits
  <2>2. CASE ~ Superseded(p)
    <3>1. Cleanup(p, FALSE)
      BY <1>4, <2>2 DEF AuthFails
    <3>2. acquired[p] \in Nat
      BY DEF TypeOK
    <3> QED  BY <1>4, <3>1, <3>2, CleanupEffect, CleanedUpSound DEF AuthFails
  <2> QED  BY <2>1, <2>2
<1>5. CASE MediaGranted(p)
  <2>1. /\ acquired[p] \in Nat /\ acquired'[p] = acquired[p] + 1
        /\ UNCHANGED <<disposed[p], work[p], step[p], peers[p]>>
    BY <1>5 DEF MediaGranted, TypeOK
  <2>2. /\ stream[p] = 0 /\ devices[p] = {}
    BY <1>5 DEF MediaGranted, Controller, Held
  <2>3. Underway(p)' /\ SwitchesSound(p)'
    BY <2>1 DEF Controller, Underway, SwitchesSound
  <2>4. ASSUME NEW r, PeerSound(p, r)
        PROVE  r.bare /\ r.of \in 1 .. acquired[p]
    BY <2>2, <2>4 DEF PeerSound
  <2>5. CASE Superseded(p)
    <3>1. UNCHANGED <<stream[p], devices[p], camera[p]>> /\ starting'[p] = None
      BY <1>5, <2>5 DEF MediaGranted, TypeOK
    <3>2. Held(p)'
      BY <2>1, <2>2, <3>1 DEF Controller, Held, Awaits
    <3>3. Pending(p)' = Pending(p)
      BY <2>1, <3>1 DEF Pending
    <3>4. LastDecides(p)'
      BY <2>1, <3>1, <3>3 DEF Controller, LastDecides
    <3>5. PeersSound(p)'
      BY <2>1, <3>1, <3>3 DEF Controller, PeersSound, PeerSound, At
    <3> QED  BY <2>3, <3>2, <3>4, <3>5 DEF Controller
  <2>6. CASE ~ Superseded(p)
    <3>1. /\ stream'[p] = acquired[p] + 1 /\ devices'[p] = {acquired[p] + 1}
          /\ starting'[p] = [starting[p] EXCEPT !.at = "auth"] /\ ~ disposed[p]
      BY <1>5, <2>2, <2>6 DEF MediaGranted, Superseded, TypeOK
    <3>2. starting'[p].at = "auth"
      <4>1. starting[p] \in Starting
        BY <1>5 DEF MediaGranted, Awaits, TypeOK
      <4> QED  BY <3>1, <4>1 DEF Starting
    <3>3. Held(p)'
      BY <2>1, <3>1, <3>2 DEF Held, Awaits
    <3>4. Pending(p)' = {}
      BY <2>1, <3>1 DEF Pending, Controller, SwitchesSound
    <3>5. LastDecides(p)'
      BY <3>4 DEF LastDecides
    <3>6. ASSUME NEW r, PeerSound(p, r)
          PROVE  PeerSound(p, r)'
      <4>1. r.bare /\ r.of \in 1 .. acquired[p]
        BY <2>4, <3>6
      <4>2. r.of \in 1 .. acquired'[p] /\ r.of # stream'[p]
        BY <2>1, <3>1, <4>1
      <4> QED  BY <4>1, <4>2 DEF PeerSound
    <3>7. PeersSound(p)'
      BY <2>1, <3>6 DEF Controller, PeersSound, At
    <3> QED  BY <2>3, <3>3, <3>5, <3>7 DEF Controller
  <2> QED  BY <2>5, <2>6
<1> QED
  BY <1>1, <1>2, <1>3, <1>4, <1>5 DEF Starts

LEMMA EventSound ==
  ASSUME TypeOK, NEW p \in Participants, Controller(p),
         \/ Stop(p) \/ Dispose(p) \/ SetCamera(p)
         \/ \E S \in SUBSET Participants :
              \/ \E over \in BOOLEAN : Excluded(p, S, over)
              \/ RosterChanges(p, S)
  PROVE  Controller(p)'
<1> USE DEF lifecycle, signalling, negotiation, bounds
<1>1. CASE \/ Stop(p) \/ Dispose(p)
           \/ \E S \in SUBSET Participants : \E over \in BOOLEAN : Excluded(p, S, over)
  <2>1. /\ Cleanup(p, TRUE) \/ Cleanup(p, FALSE)
        /\ UNCHANGED <<acquired, work, step>>
    BY <1>1 DEF Stop, Dispose, Excluded, Depart
  <2>2. acquired[p] \in Nat
    BY DEF TypeOK
  <2> QED  BY <2>1, <2>2, CleanupEffect, CleanedUpSound
<1>2. ASSUME NEW S \in SUBSET Participants, RosterChanges(p, S)
      PROVE  Controller(p)'
  <2>1. Settles(p) /\ work' = work /\ step' = step
    BY <1>2 DEF RosterChanges, Settles
  <2>2. \A q \in Participants : peers'[p][q] = None \/ peers'[p][q] = peers[p][q]
    BY <1>2 DEF RosterChanges, TypeOK
  <2>3. CarriesOn(p)
    BY <2>2 DEF CarriesOn, Controller, PeersSound
  <2>4. Underway(p)'
    BY <2>1 DEF Controller, Underway
  <2>5. At(p, "detaching")' => PeerSound(p, step'[p].peer) /\ step'[p].peer.bare
    BY <2>1 DEF Controller, PeersSound, At
  <2> QED  BY <2>1, <2>3, <2>4, <2>5, PeersChange
<1>3. CASE SetCamera(p)
  <2> DEFINE w == [on |-> ~camera[p], of |-> stream[p]]
  <2>1. /\ camera'[p] = ~camera[p] /\ work'[p] = Append(work[p], w) /\ stream[p] # 0
        /\ UNCHANGED <<acquired[p], starting[p], stream[p], devices[p], disposed[p],
                       step[p], peers[p]>>
    BY <1>3 DEF SetCamera, TypeOK
  <2>2. ~ IsSignal(w) /\ w.of = stream[p] /\ w.on = ~camera[p]
    BY DEF IsSignal
  <2>3. work[p] \in Seq(Work) /\ stream[p] \in Nat
    BY DEF TypeOK
  <2> HIDE DEF w
  <2>4. /\ Len(work'[p]) = Len(work[p]) + 1 /\ Len(work[p]) \in Nat
        /\ \A i \in 1 .. Len(work[p]) : work'[p][i] = work[p][i]
        /\ work'[p][Len(work[p]) + 1] = w
        /\ work[p] # << >> => work'[p] # << >> /\ Head(work'[p]) = Head(work[p])
    BY <2>1, <2>3
  <2>5. Underway(p)' /\ Held(p)'
    BY <2>1, <2>4 DEF Underway, Held, Awaits, Controller
  <2>6. w.of \in 1 .. acquired[p]
    <3>1. stream[p] =< acquired[p]
      BY DEF Controller, Held
    <3>2. acquired[p] \in Nat
      BY DEF TypeOK
    <3> QED  BY <2>1, <2>2, <2>3, <3>1, <3>2
  <2>7. SwitchesSound(p)'
    BY <2>1, <2>4, <2>6 DEF SwitchesSound, Controller
  \* The new switch is the last of the stream's.
  <2>8. Len(work'[p]) \in Pending(p)'
    BY <2>1, <2>2, <2>4 DEF Pending
  <2>9. LastDecides(p)'
    <3> SUFFICES ASSUME NEW i \in Pending(p)', \A j \in Pending(p)' : j =< i
                 PROVE  work'[p][i].on = camera'[p]
      BY DEF LastDecides
    <3>1. i \in 1 .. Len(work'[p])
      BY DEF Pending
    <3>2. i = Len(work[p]) + 1
      BY <2>4, <2>8, <3>1
    <3> QED  BY <2>1, <2>2, <2>4, <3>2
  <2>10. PeersSound(p)'
    <3>1. Pending(p)' # {}
      BY <2>8
    <3> QED  BY <2>1, <3>1 DEF PeersSound, PeerSound, At, Controller
  <2> QED  BY <2>5, <2>7, <2>9, <2>10 DEF Controller
<1> QED  BY <1>1, <1>2, <1>3

LEMMA ChannelSound ==
  ASSUME TypeOK, NEW p \in Participants, NEW q \in Participants, Controller(p),
         \/ Subscribed(p, q) \/ ChannelFails(p, q) \/ Deliver(q, p)
         \/ CandidateFound(p, q) \/ Connect(p, q) \/ ConnectionFails(p, q)
  PROVE  Controller(p)'
<1> USE DEF lifecycle, signalling, negotiation, bounds
<1>1. CASE Subscribed(p, q) \/ ChannelFails(p, q)
  <2>1. Kept(p)
    BY <1>1 DEF Subscribed, ChannelFails, Kept
  <2> QED  BY <2>1, KeptStays
<1>2. CASE Deliver(q, p)
  <2> DEFINE w == [from |-> q, signal |-> Head(net[q][p])]
  <2>1. IsSignal(w)
    BY DEF IsSignal
  <2>2. work'[p] = Append(work[p], w) /\ Settles(p) /\ UNCHANGED <<step[p], peers[p]>>
    BY <1>2 DEF Deliver, Settles, TypeOK
  <2> HIDE DEF w
  <2> QED  BY <2>1, <2>2, SignalJoins
<1>3. CASE CandidateFound(p, q) \/ Connect(p, q) \/ ConnectionFails(p, q)
  <2>1. Settles(p) /\ work' = work /\ step' = step
    BY <1>3 DEF CandidateFound, Connect, ConnectionFails, Settles
  <2>2. peers[p][q] # None
    BY <1>3 DEF CandidateFound, MayFind, Connect, MayConnect, ConnectionFails
  <2>3. peers[p][q] \in PeerRecord /\ PeerSound(p, peers[p][q])
    BY <2>2, PeerOf DEF Controller, PeersSound
  <2>4. PICK r : PutPeer(p, q, r) /\ (r = None \/ PeerSound(p, r))
    <3>1. PeerSound(p, [peers[p][q] EXCEPT !.sent = TRUE])
          /\ PeerSound(p, [peers[p][q] EXCEPT !.connected = TRUE])
      BY <2>3, SameSender DEF PeerRecord
    <3> QED  BY <1>3, <3>1 DEF CandidateFound, MayFind, Connect, MayConnect, ConnectionFails
  <2>5. CarriesOn(p)
    BY <2>4, PutContinues
  <2>6. Underway(p)'
    BY <2>1 DEF Controller, Underway
  <2>7. At(p, "detaching")' => PeerSound(p, step'[p].peer) /\ step'[p].peer.bare
    BY <2>1 DEF Controller, PeersSound, At
  <2> QED  BY <2>1, <2>5, <2>6, <2>7, PeersChange
<1> QED  BY <1>1, <1>2, <1>3

-----------------------------------------------------------------------------
(* What its handler does to a controller.                                  *)

LEMMA ProceedSound ==
  ASSUME TypeOK, NEW p \in Participants, Controller(p), Settles(p),
         work[p] # << >>, IsSignal(Head(work[p])), Head(work[p]).signal.kind # "left",
         NEW r \in PeerRecord, PeerSound(p, r),
         Proceed(p, Head(work[p]).from, Head(work[p]).signal, r)
  PROVE  Controller(p)'
<1> DEFINE q == Head(work[p]).from
           item == Head(work[p]).signal
<1>1. q \in Participants /\ item \in Signal
  BY HandledSignal
<1>2. PICK after : PutPeer(p, q, after) /\ PeerSound(p, after)
  <2>1. PeerSound(p, [r EXCEPT !.pendingIce = @ \union {item.by}])
        /\ PeerSound(p, [r EXCEPT !.ice = @ \union {item.by}])
    BY SameSender DEF PeerRecord
  <2> HIDE DEF item, q
  <2>2. item.kind # "left"
    BY DEF item
  <2>3. Proceed(p, q, item, r)
    BY DEF item, q
  <2> QED  BY <1>1, <2>1, <2>2, <2>3, ProceedCases
<1>3. CarriesOn(p)
  BY <1>1, <1>2, PutContinues
<1>4. CASE Done(p)
  BY <1>3, <1>4, SignalLeaves
<1>5. CASE \E s : Busy(p, s) /\ s.at \in {"offering", "describing"}
  <2>1. work' = work /\ (step'[p].at \in {"offering", "describing"})
    BY <1>5 DEF Busy, TypeOK
  <2>2. Underway(p)'
    BY <2>1 DEF Underway
  <2> QED  BY <1>3, <2>1, <2>2, PeersChange DEF At
<1>6. Done(p) \/ \E s : Busy(p, s) /\ s.at \in {"offering", "describing"}
  <2>1. \/ Busy(p, [at |-> "offering", id |-> r.id])
        \/ Busy(p, [at |-> "describing", id |-> r.id])
        \/ Done(p) \/ Throws(p)
    BY <1>1, ProceedCases
  <2> QED  BY <2>1 DEF Throws
<1> QED  BY <1>4, <1>5, <1>6

LEMMA HandlerSound ==
  ASSUME TypeOK, NEW p \in Participants, Controller(p), Handles(p)
  PROVE  Controller(p)'
<1> USE DEF lifecycle, signalling, negotiation, bounds
<1>1. ASSUME lifecycle' = lifecycle
      PROVE  Settles(p)
  BY <1>1 DEF Settles
<1>2. step[p] # None => /\ work[p] # << >> /\ IsSignal(Head(work[p]))
                        /\ Head(work[p]).signal.kind # "left"
  BY DEF Controller, Underway
<1>3. CASE IgnoreSignal(p)
  <2>1. Settles(p) /\ CarriesOn(p)
    BY <1>1, <1>3, PeersContinue DEF IgnoreSignal
  <2> QED  BY <1>3, <2>1, SignalLeaves DEF IgnoreSignal, Idle
<1>4. CASE HandleLeft(p)
  <2>1. Settles(p) /\ CarriesOn(p)
    BY <1>1, <1>4, HandledSignal, PutContinues DEF HandleLeft, Idle
  <2> QED  BY <1>4, <2>1, SignalLeaves DEF HandleLeft, Idle
<1>5. CASE HandleSignal(p)
  <2> DEFINE q == Head(work[p]).from
  <2>1. /\ Settles(p) /\ peers[p][q] # None
        /\ work[p] # << >> /\ IsSignal(Head(work[p])) /\ Head(work[p]).signal.kind # "left"
        /\ Proceed(p, q, Head(work[p]).signal, peers[p][q])
    BY <1>1, <1>5 DEF HandleSignal, Idle
  <2>2. peers[p][q] \in PeerRecord /\ PeerSound(p, peers[p][q])
    BY <2>1, HandledSignal, PeerOf DEF Controller, PeersSound
  <2> QED  BY <2>1, <2>2, ProceedSound
<1>6. CASE AskServers(p)
  <2>1. Settles(p) /\ CarriesOn(p) /\ work' = work
    BY <1>1, <1>6, PeersContinue DEF AskServers, Busy
  <2>2. step'[p] = [at |-> "servers", id |-> 0]
    BY <1>6 DEF AskServers, Busy, TypeOK
  <2>3. Underway(p)'
    BY <1>6, <2>1 DEF AskServers, Idle, Underway
  <2> QED  BY <2>1, <2>2, <2>3, PeersChange DEF At
\* A new peer is of the present stream, and bare if the camera is off.
<1>7. ASSUME stream[p] # 0
      PROVE  /\ NewPeer(p) \in PeerRecord /\ PeerSound(p, NewPeer(p))
             /\ ~ camera[p] => NewPeer(p).bare
  <2>1. NewPeer(p) \in PeerRecord
    BY NewPeerType
  <2>2. stream[p] \in 1 .. acquired[p]
    BY <1>7 DEF Controller, Held, TypeOK
  <2>3. /\ NewPeer(p).of = stream[p] /\ NewPeer(p).bare = ~camera[p]
        /\ NewPeer(p).video = camera[p]
    BY DEF NewPeer
  <2> QED  BY <2>1, <2>2, <2>3 DEF PeerSound
<1>8. CASE UseServers(p)
  <2>1. Settles(p) /\ step[p] # None
    BY <1>1, <1>8 DEF UseServers, At
  <2>2. CASE disposed[p] \/ stream[p] = 0 \/ Head(work[p]).from \notin allowed[p]
    <3>1. Done(p) /\ CarriesOn(p)
      BY <1>8, <2>2, PeersContinue DEF UseServers
    <3> QED  BY <1>2, <2>1, <3>1, SignalLeaves
  <2>3. CASE /\ ~ (disposed[p] \/ stream[p] = 0 \/ Head(work[p]).from \notin allowed[p])
             /\ camera[p]
    <3>1. Proceed(p, Head(work[p]).from, Head(work[p]).signal, NewPeer(p))
      BY <1>8, <2>3 DEF UseServers
    <3> QED  BY <1>2, <1>7, <2>1, <2>3, <3>1, ProceedSound
  <2>4. CASE /\ ~ (disposed[p] \/ stream[p] = 0 \/ Head(work[p]).from \notin allowed[p])
             /\ ~ camera[p]
    <3>1. Busy(p, [at |-> "detaching", peer |-> NewPeer(p)]) /\ peers' = peers
      BY <1>8, <2>4 DEF UseServers
    <3>2. CarriesOn(p)
      BY <3>1, PeersContinue
    <3>3. step'[p] = [at |-> "detaching", peer |-> NewPeer(p)] /\ work' = work
      BY <3>1 DEF Busy, TypeOK
    <3>4. Underway(p)'
      BY <1>2, <2>1, <3>3 DEF Underway
    <3>5. PeerSound(p, step'[p].peer) /\ step'[p].peer.bare
      BY <1>7, <2>4, <3>3
    <3> QED  BY <2>1, <3>2, <3>3, <3>4, <3>5, PeersChange
  <2> QED  BY <2>2, <2>3, <2>4
<1>9. CASE Detached(p)
  <2>1. Settles(p) /\ step[p] # None /\ step[p].at = "detaching"
    BY <1>1, <1>9 DEF Detached, At
  <2>2. step[p].peer \in PeerRecord /\ PeerSound(p, step[p].peer)
    <3>1. step[p] \in Step
      BY <2>1 DEF TypeOK
    <3>2. step[p].peer \in PeerRecord
      BY <2>1, <3>1 DEF Step
    <3> QED  BY <2>1, <3>2 DEF Controller, PeersSound, At
  <2>3. CASE Proceed(p, Head(work[p]).from, Head(work[p]).signal, step[p].peer)
    BY <1>2, <2>1, <2>2, <2>3, ProceedSound
  <2>4. CASE Fault /\ Throws(p) /\ UNCHANGED <<net, peers>>
    <3>1. Done(p) /\ CarriesOn(p)
      BY <2>4, PeersContinue DEF Throws
    <3> QED  BY <1>2, <2>1, <3>1, SignalLeaves
  <2> QED  BY <1>9, <2>3, <2>4 DEF Detached
<1>10. CASE OfferMade(p)
  <2> DEFINE q == Head(work[p]).from
  <2>1. Settles(p) /\ step[p] # None /\ Done(p)
    BY <1>1, <1>10 DEF OfferMade, At, Throws
  <2>2. q \in Participants
    BY <1>2, <2>1, HandledSignal
  <2>3. CarriesOn(p)
    <3>1. CASE Closed(p)
      <4>1. peers' = peers
        BY <1>10, <3>1 DEF OfferMade
      <4> QED  BY <4>1, PeersContinue
    <3>2. CASE ~ Closed(p)
      <4>1. PutPeer(p, q, [peers[p][q] EXCEPT !.local = "offer"])
        BY <1>10, <3>2 DEF OfferMade
      <4>2. peers[p][q] \in PeerRecord /\ PeerSound(p, peers[p][q])
        BY <2>2, <3>2, PeerOf DEF Closed, Controller, PeersSound
      <4>3. PeerSound(p, [peers[p][q] EXCEPT !.local = "offer"])
        <5>1. PICK r \in PeerRecord : r = peers[p][q]
          BY <4>2
        <5>2. PICK s : s = [r EXCEPT !.local = "offer"]
          OBVIOUS
        <5>3. s.of = r.of /\ s.bare = r.bare /\ s.video = r.video
          BY <5>2 DEF PeerRecord
        <5>4. PeerSound(p, s)
          BY <4>2, <5>1, <5>3, SameSender
        <5> QED  BY <5>1, <5>2, <5>4
      <4> QED  BY <2>2, <4>1, <4>3, PutContinues
    <3> QED  BY <3>1, <3>2
  <2> QED  BY <1>2, <2>1, <2>3, SignalLeaves
<1>11. CASE Describe(p)
  <2> DEFINE q == Head(work[p]).from
             item == Head(work[p]).signal
             r == peers[p][q]
             described == [r EXCEPT !.remote = item.by, !.pendingIce = {},
                                    !.ice = @ \union (r.pendingIce \intersect {item.by})]
  <2>1. Settles(p) /\ step[p] # None /\ Done(p)
    BY <1>1, <1>11 DEF Describe, At, Throws
  <2>2. q \in Participants
    BY <1>2, <2>1, HandledSignal
  <2>3. CarriesOn(p)
    <3>1. CASE peers' = peers
      BY <3>1, PeersContinue
    <3>2. CASE ~ Closed(p)
      <4>1. r \in PeerRecord /\ PeerSound(p, r)
        BY <2>2, <3>2, PeerOf DEF Closed, Controller, PeersSound
      <4>2. PeerSound(p, described) /\ PeerSound(p, [described EXCEPT !.local = "answer"])
        <5>1. /\ described.of = r.of /\ described.bare = r.bare
              /\ described.video = r.video
          BY <4>1 DEF PeerRecord
        <5>2. [described EXCEPT !.local = "answer"].of = r.of
          BY <4>1 DEF PeerRecord
        <5>3. [described EXCEPT !.local = "answer"].bare = r.bare
          BY <4>1 DEF PeerRecord
        <5>4. [described EXCEPT !.local = "answer"].video = r.video
          BY <4>1 DEF PeerRecord
        <5> HIDE DEF r, described
        <5> QED  BY <4>1, <5>1, <5>2, <5>3, <5>4, SameSender
      <4>3. \/ peers' = peers
            \/ PutPeer(p, q, described)
            \/ PutPeer(p, q, [described EXCEPT !.local = "answer"])
        BY <1>11, <3>2 DEF Describe
      <4> HIDE DEF described
      <4> QED  BY <2>2, <4>2, <4>3, PutContinues, PeersContinue
    <3> QED  BY <1>11, <3>1, <3>2 DEF Describe
  <2> QED  BY <1>2, <2>1, <2>3, SignalLeaves
<1>12. CASE SwitchSenders(p)
  <2> DEFINE w == Head(work[p])
  <2>1. /\ Settles(p) /\ Done(p) /\ work[p] # << >> /\ ~ IsSignal(w)
    BY <1>1, <1>12 DEF SwitchSenders, Idle
  <2>2. work'[p] = Tail(work[p])
    BY <2>1 DEF Done, TypeOK
  <2>3. /\ Len(work[p]) \in Nat \ {0} /\ Len(work'[p]) = Len(work[p]) - 1
        /\ work[p][1] = w
        /\ Pending(p)' = { i \in 1 .. Len(work'[p]) : i + 1 \in Pending(p) }
    BY <2>1, <2>2, TailOfQueue
  <2>4. 1 \in 1 .. Len(work[p])
    BY <2>3
  \* A switch of a stream that is gone was never pending.
  <2>5. CASE disposed[p] \/ stream[p] # w.of
    <3>1. peers' = peers
      BY <1>12, <2>5 DEF SwitchSenders
    <3>2. stream[p] # w.of
      <4>1. w.of # 0
        BY <2>1, <2>3, <2>4 DEF Controller, SwitchesSound
      <4> QED  BY <2>5, <4>1 DEF Controller, Held
    <3>3. Pending(p)' = {} => Pending(p) = {}
      <4> SUFFICES ASSUME NEW i \in Pending(p)
                   PROVE  Pending(p)' # {}
        OBVIOUS
      <4>1. i \in 1 .. Len(work[p]) /\ i # 1
        BY <2>3, <3>2 DEF Pending
      <4>2. i - 1 \in 1 .. Len(work'[p]) /\ (i - 1) + 1 = i
        BY <2>3, <4>1
      <4> QED  BY <2>3, <4>2
    <3>4. \A q \in Participants : peers'[p][q] # None => PeerSound(p, peers[p][q])'
      BY <2>1, <3>1, <3>3 DEF PeerSound, Settles, Controller, PeersSound
    <3>5. PeersSound(p)'
      BY <2>1, <3>4, QueueShrinks DEF PeersSound
    <3> QED  BY <2>1, <3>5, QueueShrinks, HeldStays DEF Controller
  \* The last switch of the stream's is what was chosen.
  <2>6. CASE ~ (disposed[p] \/ stream[p] # w.of)
    <3>1. 1 \in Pending(p)
      BY <2>1, <2>3, <2>4, <2>6 DEF Pending
    <3>2. Pending(p)' = {} => w.on = camera[p]
      <4> SUFFICES ASSUME Pending(p)' = {}
                   PROVE  w.on = camera[p]
        OBVIOUS
      <4>1. ASSUME NEW j \in Pending(p)
            PROVE  j =< 1
        <5>1. j \in 1 .. Len(work[p])
          BY DEF Pending
        <5>2. CASE j # 1
          <6>1. j - 1 \in 1 .. Len(work'[p]) /\ (j - 1) + 1 = j
            BY <2>3, <5>1, <5>2
          <6> QED  BY <2>3, <6>1
        <5> QED  BY <5>2
      <4> QED  BY <2>3, <3>1, <4>1 DEF Controller, LastDecides
    <3>3. ASSUME NEW q \in Participants, peers'[p][q] # None
          PROVE  PeerSound(p, peers[p][q])'
      <4>1. peers[p][q] # None /\ peers'[p][q] = [peers[p][q] EXCEPT !.video = w.on]
        <5> DEFINE On(o) == IF peers[p][o] = None THEN None
                            ELSE [peers[p][o] EXCEPT !.video = w.on]
        <5>1. \/ peers' = [peers EXCEPT ![p] = [o \in Participants |-> On(o)]]
              \/ \E lost \in PeersOf(p) :
                   peers' = [peers EXCEPT ![p] = [o \in Participants |->
                                                    IF o = lost THEN None ELSE On(o)]]
          BY <1>12, <2>6 DEF SwitchSenders
        <5> HIDE DEF On
        <5>2. peers'[p][q] = On(q)
          BY <3>3, <5>1, SMTT(30) DEF TypeOK
        <5> QED  BY <3>3, <5>2 DEF On
      <4>2. peers[p][q] \in PeerRecord /\ PeerSound(p, peers[p][q])
        BY <4>1, PeerOf DEF Controller, PeersSound
      <4>3. /\ peers'[p][q].of = peers[p][q].of /\ peers'[p][q].bare = peers[p][q].bare
            /\ peers'[p][q].video = w.on
        BY <4>1, <4>2 DEF PeerRecord
      <4> QED  BY <2>1, <3>2, <4>2, <4>3 DEF PeerSound, Settles
    <3>4. PeersSound(p)'
      BY <2>1, <3>3, QueueShrinks DEF PeersSound
    <3> QED  BY <2>1, <3>4, QueueShrinks, HeldStays DEF Controller
  <2> QED  BY <2>5, <2>6
<1> QED
  BY <1>3, <1>4, <1>5, <1>6, <1>8, <1>9, <1>10, <1>11, <1>12 DEF Handles

-----------------------------------------------------------------------------
(* What one controller does leaves the others as they are.                 *)

\* g is f but for what belongs to p.
Alone(f, g, p) == g = f \/ \E x : g = [f EXCEPT ![p] = x]

LEMMA ProceedsAlone ==
  ASSUME TypeOK, NEW p \in Participants, work[p] # << >>, IsSignal(Head(work[p])),
         Head(work[p]).signal.kind # "left", NEW r \in PeerRecord,
         Proceed(p, Head(work[p]).from, Head(work[p]).signal, r)
  PROVE  Alone(work, work', p) /\ Alone(step, step', p) /\ Alone(peers, peers', p)
<1> DEFINE q == Head(work[p]).from
           item == Head(work[p]).signal
<1>1. q \in Participants /\ item \in Signal
  BY HandledSignal
<1>2. item.kind # "left" /\ Proceed(p, q, item, r)
  OBVIOUS
<1> HIDE DEF q, item
<1>3. Done(p) \/ \E s : Busy(p, s)
  BY <1>1, <1>2, ProceedCases DEF Throws
<1>4. \E s : PutPeer(p, q, s)
  BY <1>1, <1>2, ProceedCases
<1>5. Alone(work, work', p) /\ Alone(step, step', p)
  BY <1>3 DEF Done, Busy, Alone
<1>6. \A s : PutPeer(p, q, s) => peers' = [peers EXCEPT ![p] = [peers[p] EXCEPT ![q] = s]]
  BY DEF PutPeer
<1>7. Alone(peers, peers', p)
  BY <1>4, <1>6 DEF Alone
<1> QED  BY <1>5, <1>7

LEMMA HandlesAlone ==
  ASSUME TypeOK, NEW p \in Participants, Underway(p), Handles(p)
  PROVE  /\ lifecycle' = lifecycle
         /\ Alone(work, work', p) /\ Alone(step, step', p) /\ Alone(peers, peers', p)
<1> USE DEF signalling, negotiation, bounds
<1>1. lifecycle' = lifecycle
  BY DEF Handles, IgnoreSignal, HandleLeft, HandleSignal, AskServers, UseServers, Detached,
         OfferMade, Describe, SwitchSenders
<1>2. ASSUME Done(p) \/ Throws(p) \/ \E s : Busy(p, s)
      PROVE  Alone(work, work', p) /\ Alone(step, step', p)
  BY <1>2 DEF Done, Throws, Busy, Alone
<1>3. ASSUME NEW q, NEW r, PutPeer(p, q, r)
      PROVE  Alone(peers, peers', p)
  <2>1. peers' = [peers EXCEPT ![p] = [peers[p] EXCEPT ![q] = r]]
    BY <1>3 DEF PutPeer
  <2> QED  BY <2>1 DEF Alone
<1>4. ASSUME UNCHANGED peers
      PROVE  Alone(peers, peers', p)
  BY <1>4 DEF Alone
<1>5. CASE IgnoreSignal(p) \/ HandleLeft(p) \/ AskServers(p)
  BY <1>1, <1>2, <1>3, <1>4, <1>5 DEF IgnoreSignal, HandleLeft, AskServers
<1>6. CASE HandleSignal(p)
  <2>1. /\ work[p] # << >> /\ IsSignal(Head(work[p])) /\ Head(work[p]).signal.kind # "left"
        /\ peers[p][Head(work[p]).from] # None
        /\ Proceed(p, Head(work[p]).from, Head(work[p]).signal, peers[p][Head(work[p]).from])
    BY <1>6 DEF HandleSignal, Idle
  <2>2. peers[p][Head(work[p]).from] \in PeerRecord
    BY <2>1, HandledSignal, PeerOf
  <2> QED  BY <1>1, <2>1, <2>2, ProceedsAlone
<1>7. CASE UseServers(p)
  <2>1. /\ work[p] # << >> /\ IsSignal(Head(work[p]))
        /\ Head(work[p]).signal.kind # "left"
    BY <1>7 DEF UseServers, At, Underway
  <2>2. \/ Proceed(p, Head(work[p]).from, Head(work[p]).signal, NewPeer(p))
        \/ (Done(p) \/ \E s : Busy(p, s)) /\ UNCHANGED peers
    BY <1>7 DEF UseServers
  <2> QED  BY <1>1, <1>2, <1>4, <2>1, <2>2, NewPeerType, ProceedsAlone
<1>8. CASE Detached(p)
  <2>1. /\ work[p] # << >> /\ IsSignal(Head(work[p]))
        /\ Head(work[p]).signal.kind # "left"
        /\ step[p] # None /\ step[p].at = "detaching"
    BY <1>8 DEF Detached, At, Underway
  <2>2. step[p] \in Step
    BY <2>1 DEF TypeOK
  <2>3. step[p].peer \in PeerRecord
    BY <2>1, <2>2 DEF Step
  <2>4. \/ Proceed(p, Head(work[p]).from, Head(work[p]).signal, step[p].peer)
        \/ Throws(p) /\ UNCHANGED peers
    BY <1>8 DEF Detached
  <2> QED  BY <1>1, <1>2, <1>4, <2>1, <2>3, <2>4, ProceedsAlone
<1>9. CASE OfferMade(p)
  <2>1. (Done(p) \/ Throws(p)) /\ (UNCHANGED peers \/ \E q, r : PutPeer(p, q, r))
    BY <1>9 DEF OfferMade
  <2> QED  BY <1>1, <1>2, <1>3, <1>4, <2>1
<1>10. CASE Describe(p)
  <2>1. (Done(p) \/ Throws(p)) /\ (UNCHANGED peers \/ \E q, r : PutPeer(p, q, r))
    BY <1>10 DEF Describe
  <2> QED  BY <1>1, <1>2, <1>3, <1>4, <2>1
<1>11. CASE SwitchSenders(p)
  <2>1. Done(p) /\ (UNCHANGED peers \/ \E x : peers' = [peers EXCEPT ![p] = x])
    BY <1>11 DEF SwitchSenders
  <2> QED  BY <1>1, <1>2, <2>1 DEF Alone
<1> QED
  BY <1>5, <1>6, <1>7, <1>8, <1>9, <1>10, <1>11 DEF Handles

LEMMA CleanupAlone ==
  ASSUME NEW p, NEW announce, Cleanup(p, announce)
  PROVE  /\ Alone(peers, peers', p) /\ Alone(devices, devices', p)
         /\ Alone(stream, stream', p) /\ Alone(camera, camera', p)
  BY DEF Cleanup, Alone

LEMMA OthersAreKept ==
  ASSUME TypeOK, NEW p \in Participants, NEW o \in Participants, o # p, Underway(p),
         \/ Starts(p) \/ Stop(p) \/ Dispose(p) \/ SetCamera(p)
         \/ \E S \in SUBSET Participants :
              \/ \E over \in BOOLEAN : Excluded(p, S, over)
              \/ RosterChanges(p, S)
         \/ Handles(p)
         \/ \E q \in Participants :
              \/ Subscribed(p, q) \/ ChannelFails(p, q) \/ Deliver(q, p)
              \/ CandidateFound(p, q) \/ Connect(p, q) \/ ConnectionFails(p, q)
  PROVE  Kept(o)
<1> USE DEF lifecycle, signalling, negotiation, bounds
<1>1. ASSUME Alone(disposed, disposed', p), Alone(acquired, acquired', p),
             Alone(stream, stream', p), Alone(devices, devices', p),
             Alone(starting, starting', p), Alone(camera, camera', p),
             Alone(work, work', p), Alone(step, step', p), Alone(peers, peers', p)
      PROVE  Kept(o)
  BY <1>1, SMTT(30) DEF Alone, Kept, TypeOK
<1>2. CASE Handles(p)
  <2>1. UNCHANGED <<disposed, acquired, stream, devices, starting, camera>>
    BY <1>2, HandlesAlone
  <2> QED  BY <1>1, <1>2, <2>1, HandlesAlone DEF Alone
<1>3. CASE Starts(p)
  <2>1. CASE AuthFails(p)
    <3>1. UNCHANGED <<disposed, acquired, work, step>> /\ Alone(starting, starting', p)
      BY <2>1 DEF AuthFails, Alone
    <3>2. Cleanup(p, FALSE) \/ UNCHANGED <<stream, devices, camera, peers>>
      BY <2>1 DEF AuthFails
    <3> QED  BY <1>1, <3>1, <3>2, CleanupAlone DEF Alone
  <2>2. CASE MediaGranted(p)
    <3>1. UNCHANGED <<disposed, work, step, peers>>
      BY <2>2 DEF MediaGranted
    <3>2. /\ Alone(acquired, acquired', p) /\ Alone(stream, stream', p)
          /\ Alone(devices, devices', p)
      BY <2>2 DEF MediaGranted, Alone
    <3>3. Alone(starting, starting', p) /\ Alone(camera, camera', p)
      BY <2>2 DEF MediaGranted, Alone
    <3> QED  BY <1>1, <3>1, <3>2, <3>3 DEF Alone
  <2>3. CASE Start(p) \/ ServersResolved(p) \/ MediaDenied(p) \/ Authorized(p) \/ CleanedUp(p)
    <3>1. UNCHANGED <<disposed, acquired, stream, devices, camera, work, step, peers>>
      BY <2>3 DEF Start, ServersResolved, MediaDenied, Authorized, CleanedUp
    <3>2. Alone(starting, starting', p)
      BY <2>3 DEF Start, ServersResolved, MediaDenied, Authorized, CleanedUp, Alone
    <3> QED  BY <1>1, <3>1, <3>2 DEF Alone
  <2> QED  BY <1>3, <2>1, <2>2, <2>3 DEF Starts
<1>4. CASE \/ Stop(p) \/ Dispose(p)
           \/ \E S \in SUBSET Participants : \E over \in BOOLEAN : Excluded(p, S, over)
  <2>1. /\ UNCHANGED <<acquired, starting, work, step>>
        /\ Alone(disposed, disposed', p)
    BY <1>4 DEF Stop, Dispose, Excluded, Alone
  <2>2. Cleanup(p, TRUE) \/ Cleanup(p, FALSE)
    BY <1>4 DEF Stop, Dispose, Excluded, Depart
  <2> QED  BY <1>1, <2>1, <2>2, CleanupAlone DEF Alone
<1>5. CASE SetCamera(p) \/ \E S \in SUBSET Participants : RosterChanges(p, S)
  <2>1. UNCHANGED <<disposed, acquired, stream, devices, starting, step>>
    BY <1>5 DEF SetCamera, RosterChanges
  <2>2. Alone(camera, camera', p) /\ Alone(work, work', p) /\ Alone(peers, peers', p)
    BY <1>5 DEF SetCamera, RosterChanges, Alone
  <2> QED  BY <1>1, <2>1, <2>2 DEF Alone
<1>6. ASSUME NEW q \in Participants,
             \/ Subscribed(p, q) \/ ChannelFails(p, q) \/ Deliver(q, p)
             \/ CandidateFound(p, q) \/ Connect(p, q) \/ ConnectionFails(p, q)
      PROVE  Kept(o)
  <2>1. UNCHANGED <<disposed, acquired, stream, devices, starting, camera, step>>
    BY <1>6 DEF Subscribed, ChannelFails, Deliver, CandidateFound, Connect, ConnectionFails
  <2>2. Alone(work, work', p)
    BY <1>6 DEF Subscribed, ChannelFails, Deliver, CandidateFound, Connect, ConnectionFails,
                Alone
  <2>3. UNCHANGED peers \/ \E r : PutPeer(p, q, r)
    BY <1>6 DEF Subscribed, ChannelFails, Deliver, CandidateFound, Connect, ConnectionFails
  <2>4. \A r : PutPeer(p, q, r) => peers' = [peers EXCEPT ![p] = [peers[p] EXCEPT ![q] = r]]
    BY DEF PutPeer
  <2>5. Alone(peers, peers', p)
    BY <2>3, <2>4 DEF Alone
  <2> QED  BY <1>1, <2>1, <2>2, <2>5 DEF Alone
<1> QED  BY <1>2, <1>3, <1>4, <1>5, <1>6

-----------------------------------------------------------------------------
(* The theorems.                                                           *)

LEMMA MediaStarts ==
  ASSUME Init
  PROVE  MediaInv
<1>1. TypeOK
  <2>1. << >> \in Seq(Signal) /\ << >> \in Seq(Work)
    OBVIOUS
  <2>2. net \in Queues /\ work \in [Participants -> Seq(Work)]
    BY <2>1 DEF Init, Queues
  <2>3. chan \in Channels /\ peers \in PeerRecords
    BY DEF Init, Channels, PeerRecords, NoPeers
  <2>4. /\ allowed \in [Participants -> SUBSET Participants]
        /\ disposed \in [Participants -> BOOLEAN] /\ camera \in [Participants -> BOOLEAN]
        /\ life \in [Participants -> Nat] /\ acquired \in [Participants -> Nat]
        /\ stream \in [Participants -> Nat] /\ made \in [Participants -> Nat]
        /\ devices \in [Participants -> SUBSET Nat]
        /\ {switches, events, faults} \subseteq Nat
    BY DEF Init
  <2>5. /\ starting \in [Participants -> Starting \union {None}]
        /\ shows \in [Participants -> Shown] /\ step \in [Participants -> Step \union {None}]
    BY DEF Init, Shown
  <2> QED  BY <2>2, <2>3, <2>4, <2>5 DEF TypeOK, Queues, Channels, PeerRecords
<1>2. ASSUME NEW p \in Participants
      PROVE  Controller(p)
  <2>1. Len(work[p]) = 0
    BY DEF Init
  <2>2. Pending(p) = {} /\ SwitchesSound(p)
    BY <2>1 DEF Pending, SwitchesSound
  <2>3. LastDecides(p)
    BY <2>2 DEF LastDecides
  <2>4. Underway(p) /\ Held(p) /\ PeersSound(p)
    BY DEF Init, Underway, Held, Awaits, PeersSound, NoPeers, At
  <2> QED  BY <2>2, <2>3, <2>4 DEF Controller
<1> QED  BY <1>1, <1>2 DEF MediaInv

LEMMA MediaSteps ==
  ASSUME MediaInv, Next
  PROVE  MediaInv'
<1>1. PICK p \in Participants :
        \/ Starts(p) \/ Stop(p) \/ Dispose(p) \/ SetCamera(p)
        \/ \E S \in SUBSET Participants :
             \/ \E over \in BOOLEAN : Excluded(p, S, over)
             \/ RosterChanges(p, S)
        \/ Handles(p)
        \/ \E q \in Participants :
             \/ Subscribed(p, q) \/ ChannelFails(p, q) \/ Deliver(q, p)
             \/ CandidateFound(p, q) \/ Connect(p, q) \/ ConnectionFails(p, q)
  BY DEF Next
<1>2. TypeOK /\ Controller(p) /\ Underway(p)
  BY DEF MediaInv, Controller
<1>3. TypeOK'
  BY <1>1, <1>2, StartTypes, EventTypes, HandlerTypes, ChannelTypes
<1>4. Controller(p)'
  BY <1>1, <1>2, StartSound, EventSound, HandlerSound, ChannelSound
<1>5. ASSUME NEW o \in Participants, o # p
      PROVE  Controller(o)'
  <2>1. Kept(o)
    BY <1>1, <1>2, <1>5, OthersAreKept
  <2> QED  BY <2>1, KeptStays DEF MediaInv
<1> QED  BY <1>3, <1>4, <1>5 DEF MediaInv

LEMMA MediaStutters ==
  ASSUME MediaInv, UNCHANGED vars
  PROVE  MediaInv'
<1> USE DEF vars, lifecycle, signalling, negotiation, bounds
<1>1. TypeOK'
  BY DEF MediaInv, TypeOK
<1>2. ASSUME NEW p \in Participants
      PROVE  Controller(p)'
  <2>1. Kept(p)
    BY DEF Kept
  <2> QED  BY <2>1, KeptStays DEF MediaInv
<1> QED  BY <1>1, <1>2 DEF MediaInv

(* The invariant holds in every step of controllers, people and network    *)
(* (createMeetingMediaController).                                         *)
THEOREM MediaInvariant == Spec => []MediaInv
<1>1. Init => MediaInv
  BY MediaStarts
<1>2. MediaInv /\ [Next]_vars => MediaInv'
  BY MediaSteps, MediaStutters
<1> QED  BY <1>1, <1>2, PTL DEF Spec

(* Signals, peer records, queues and awaits have their types.              *)
THEOREM TypeCorrect == Spec => []TypeOK
<1>1. MediaInv => TypeOK
  BY DEF MediaInv
<1> QED  BY <1>1, MediaInvariant, PTL

(* No camera or microphone stays on that is not the controller's stream,   *)
(* whatever a stop, a roster or a disposal interrupts (start,              *)
(* releaseLocalMedia).                                                     *)
THEOREM DevicesAlwaysReleased == Spec => []DevicesReleased
<1>1. MediaInv => DevicesReleased
  BY DEF MediaInv, Controller, Held, DevicesReleased
<1> QED  BY <1>1, MediaInvariant, PTL

(* Only a peer that was made with the camera off can outlive its stream    *)
(* (ensurePeer).                                                           *)
THEOREM StalePeersAlwaysBare == Spec => []StalePeersWereBare
<1>1. MediaInv => StalePeersWereBare
  BY DEF MediaInv, Controller, PeersSound, PeerSound, StalePeersWereBare
<1> QED  BY <1>1, MediaInvariant, PTL

(* What is sent to every peer of the stream comes to be what the           *)
(* participant chose (setCameraEnabled).                                   *)
THEOREM SendersAlwaysFollow == Spec => []SendersFollowCamera
<1>1. MediaInv => SendersFollowCamera
  <2> SUFFICES ASSUME MediaInv, NEW p \in Participants, NEW q \in Participants,
                      work[p] = << >>, peers[p][q] # None, peers[p][q].of = stream[p]
               PROVE  peers[p][q].video = camera[p]
    BY DEF SendersFollowCamera
  <2>1. Pending(p) = {}
    BY DEF Pending
  <2> QED  BY <2>1 DEF MediaInv, Controller, PeersSound, PeerSound
<1> QED  BY <1>1, MediaInvariant, PTL

-----------------------------------------------------------------------------
(* Calls connect.                                                          *)
(*                                                                         *)
(* What p and q know of one another, as seen by p: its own peer, that of   *)
(* the other, and what of the other is on its way to p.  Nothing is said   *)
(* but by the peer that is there still, no answer is lost, and what a      *)
(* described peer found has been heard.                                    *)

Among(x, s) == \E n \in 1 .. Len(s) : s[n] = x

Coming(p, q) ==
  { x \in Signal : x.to \in {None, p}
                   /\ (Among(x, net[q][p]) \/ Among([from |-> q, signal |-> x], work[p])) }

Tells(in, kind) == \E x \in in : x.kind = kind

\* What p describes its peer by.
Mine(p, q) == IF Offers(p, q) THEN "offer" ELSE "answer"

Stands(p, q, own, other) ==
  /\ own.id # 0
  /\ own.local \in {"none", Mine(p, q)}
  /\ own.sent => own.local # "none"
  /\ own.pendingIce # {} => other # None /\ own.pendingIce = {other.id}
  /\ own.remote # 0 => /\ other # None /\ own.remote = other.id /\ own.pendingIce = {}
                       /\ own.local # "none" /\ other.local # "none"
  /\ own.local = "answer" => own.remote # 0

SaidByPeer(p, q, other, in) ==
  \A x \in in : /\ x.kind \notin {"left", Mine(p, q)}
                /\ x.kind # "ready" => other # None /\ x.by = other.id
                /\ x.kind = Mine(q, p) => other.local = x.kind

AnswerComes(own, other, in) ==
  other # None /\ other.local = "answer"
  => own # None /\ (own.remote # 0 \/ Tells(in, "answer"))

CandidateComes(p, q, own, other, in) ==
  /\ other # None /\ other.sent
  /\ (own # None /\ own.remote # 0) \/ Tells(in, Mine(q, p))
  => Tells(in, "ice") \/ (own # None /\ other.id \in own.pendingIce \union own.ice)

Side(p, q, own, other, in) ==
  /\ own # None => Stands(p, q, own, other)
  /\ SaidByPeer(p, q, other, in)
  /\ AnswerComes(own, other, in)
  /\ CandidateComes(p, q, own, other, in)

Pair(p, q, own, other, in, out) ==
  Side(p, q, own, other, in) /\ Side(q, p, other, own, out)

MaybePeer == PeerRecord \union {None}

\* The part of a record that a negotiation is about.
SameFace(own, own2) ==
  /\ own2.id = own.id /\ own2.local = own.local /\ own2.remote = own.remote
  /\ own2.sent = own.sent /\ own2.pendingIce = own.pendingIce /\ own2.ice = own.ice

IsFresh(r) ==
  /\ r.id # 0 /\ r.local = "none" /\ r.remote = 0 /\ r.pendingIce = {} /\ r.ice = {}
  /\ ~r.sent

\* x leaves what was on its way, unless it comes twice.
Leaves(x, in, in2) == in2 \subseteq in /\ in \subseteq in2 \union {x}

-----------------------------------------------------------------------------
(* What a step does to a pair.                                             *)

LEMMA PairSwaps ==
  ASSUME NEW p, NEW q, NEW own, NEW other, NEW in, NEW out
  PROVE  Pair(p, q, own, other, in, out) <=> Pair(q, p, other, own, out, in)
  BY DEF Pair

LEMMA PairKeepsFace ==
  ASSUME NEW p, NEW q, NEW own \in PeerRecord, NEW other \in MaybePeer, NEW in, NEW out,
         Pair(p, q, own, other, in, out), own # None,
         NEW own2 \in PeerRecord, SameFace(own, own2)
  PROVE  Pair(p, q, own2, other, in, out)
<1>1. own2 # None
  BY NoneAssumption
<1>2. Side(p, q, own2, other, in)
  BY <1>1 DEF Pair, Side, Stands, SaidByPeer, AnswerComes, CandidateComes, SameFace
<1>3. Side(q, p, other, own2, out)
  BY <1>1 DEF Pair, Side, Stands, SaidByPeer, AnswerComes, CandidateComes, SameFace
<1> QED  BY <1>2, <1>3 DEF Pair

LEMMA PairWelcomes ==
  ASSUME NEW p, NEW q, NEW other \in MaybePeer, NEW in, NEW out,
         Pair(p, q, None, other, in, out), NEW r \in PeerRecord, IsFresh(r)
  PROVE  Pair(p, q, r, other, in, out)
<1>1. r # None
  BY NoneAssumption
<1>2. Side(p, q, r, other, in)
  BY <1>1 DEF Pair, Side, Stands, SaidByPeer, AnswerComes, CandidateComes, IsFresh
<1>3. Side(q, p, other, r, out)
  <2>1. other # None => Stands(q, p, other, r)
    BY <1>1 DEF Pair, Side, Stands
  <2>2. SaidByPeer(q, p, r, out)
    BY <1>1 DEF Pair, Side, SaidByPeer, Mine
  <2>3. AnswerComes(other, r, out) /\ CandidateComes(q, p, other, r, out)
    BY DEF AnswerComes, CandidateComes, IsFresh
  <2> QED  BY <2>1, <2>2, <2>3 DEF Side
<1> QED  BY <1>2, <1>3 DEF Pair

\* Readiness comes and goes.
LEMMA PairAnnounces ==
  ASSUME NEW p, NEW q, NEW own, NEW other, NEW in, NEW out,
         Pair(p, q, own, other, in, out), NEW in2, NEW out2,
         \A x \in in2 : x \in in \/ x.kind = "ready",
         \A x \in in : x \in in2 \/ x.kind = "ready",
         \A x \in out2 : x \in out \/ x.kind = "ready",
         \A x \in out : x \in out2 \/ x.kind = "ready"
  PROVE  Pair(p, q, own, other, in2, out2)
<1>1. /\ Mine(p, q) \in {"offer", "answer"} /\ Mine(q, p) \in {"offer", "answer"}
  BY DEF Mine
<1>2. \A kind : kind # "ready" => (Tells(in2, kind) <=> Tells(in, kind))
                                  /\ (Tells(out2, kind) <=> Tells(out, kind))
  BY DEF Tells
<1>3. SaidByPeer(p, q, other, in2) /\ SaidByPeer(q, p, own, out2)
  BY <1>1 DEF Pair, Side, SaidByPeer
<1>4. AnswerComes(own, other, in2) /\ AnswerComes(other, own, out2)
  BY <1>2 DEF Pair, Side, AnswerComes
<1>5. CandidateComes(p, q, own, other, in2) /\ CandidateComes(q, p, other, own, out2)
  BY <1>1, <1>2 DEF Pair, Side, CandidateComes
<1> QED  BY <1>3, <1>4, <1>5 DEF Pair, Side

LEMMA OneOffers ==
  ASSUME NEW p \in Participants, NEW q \in Participants, p # q
  PROVE  \/ Mine(p, q) = "offer" /\ Mine(q, p) = "answer"
         \/ Mine(p, q) = "answer" /\ Mine(q, p) = "offer"
  BY MediaAssumption DEF Mine, Offers

\* An offer leaves, heard or not.
LEMMA PairOffers ==
  ASSUME NEW p \in Participants, NEW q \in Participants, p # q, Offers(p, q),
         NEW own \in PeerRecord, own # None, own.local = "none",
         NEW other \in MaybePeer, NEW in, NEW out, Pair(p, q, own, other, in, out),
         NEW out2, out2 = out \/ out2 = out \union {Offer(q, own.id)},
         NEW own2 \in PeerRecord, own2 = [own EXCEPT !.local = "offer"]
  PROVE  Pair(p, q, own2, other, in, out2)
<1>1. /\ own2 # None /\ own2.local = "offer"
      /\ own2.id = own.id /\ own2.remote = own.remote /\ own2.sent = own.sent
      /\ own2.pendingIce = own.pendingIce /\ own2.ice = own.ice
  BY NoneAssumption DEF PeerRecord
<1>2. Mine(p, q) = "offer" /\ Mine(q, p) = "answer"
  BY MediaAssumption DEF Mine, Offers
<1>3. /\ ~own.sent /\ own.remote = 0
      /\ other # None => other.remote = 0 /\ other.local = "none"
  <2>1. ~own.sent /\ own.remote = 0
    BY DEF Pair, Side, Stands
  <2>2. other # None => other.remote = 0
    BY DEF Pair, Side, Stands
  <2> QED  BY <1>2, <2>1, <2>2 DEF Pair, Side, Stands
<1>4. Side(p, q, own2, other, in)
  <2>1. Stands(p, q, own2, other)
    BY <1>1, <1>2, <1>3 DEF Pair, Side, Stands
  <2> QED  BY <1>1, <2>1 DEF Pair, Side, AnswerComes, CandidateComes
<1>5. Side(q, p, other, own2, out2)
  <2>1. other # None => Stands(q, p, other, own2)
    BY <1>1, <1>3 DEF Pair, Side, Stands
  <2>2. SaidByPeer(q, p, own2, out2)
    <3>1. ASSUME NEW x \in out
          PROVE  /\ x.kind \notin {"left", Mine(q, p)}
                 /\ x.kind # "ready" => own2 # None /\ x.by = own2.id
                 /\ x.kind = Mine(p, q) => own2.local = x.kind
      BY <1>1, <1>2 DEF Pair, Side, SaidByPeer
    <3>2. LET x == Offer(q, own.id)
          IN  /\ x.kind \notin {"left", Mine(q, p)}
              /\ x.kind # "ready" => own2 # None /\ x.by = own2.id
              /\ x.kind = Mine(p, q) => own2.local = x.kind
      BY <1>1, <1>2 DEF Offer
    <3> QED  BY <3>1, <3>2 DEF SaidByPeer
  <2>3. AnswerComes(other, own2, out2)
    BY <1>1 DEF AnswerComes
  <2>4. CandidateComes(q, p, other, own2, out2)
    BY <1>1, <1>3 DEF CandidateComes
  <2> QED  BY <2>1, <2>2, <2>3, <2>4 DEF Side
<1> QED  BY <1>4, <1>5 DEF Pair

\* A description reaches a peer that waits for it.
Described(own, n) ==
  [own EXCEPT !.remote = n, !.pendingIce = {},
              !.ice = @ \union (own.pendingIce \intersect {n})]

\* The offer is answered.
LEMMA PairAnswers ==
  ASSUME NEW p \in Participants, NEW q \in Participants, p # q,
         NEW own \in PeerRecord, own # None,
         NEW other \in MaybePeer, NEW in, NEW out, Pair(p, q, own, other, in, out),
         NEW x \in in, x.kind = "offer", x.by \in Nat, NEW in2, Leaves(x, in, in2),
         NEW out2, out2 = out \union {Answer(q, own.id, x.by)},
         NEW own2 \in PeerRecord, own2 = [Described(own, x.by) EXCEPT !.local = "answer"]
  PROVE  Pair(p, q, own2, other, in2, out2)
<1>1. Mine(p, q) = "answer" /\ Mine(q, p) = "offer"
  BY OneOffers DEF Pair, Side, SaidByPeer
<1>2. other # None /\ x.by = other.id /\ other.local = "offer"
  BY <1>1 DEF Pair, Side, SaidByPeer
<1>3. /\ other \in PeerRecord /\ other.id # 0
  BY <1>2 DEF Pair, Side, Stands, MaybePeer
<1>4. /\ own2 # None /\ own2.local = "answer" /\ own2.remote = other.id
      /\ own2.id = own.id /\ own2.sent = own.sent /\ own2.pendingIce = {}
      /\ own2.ice = own.ice \union (own.pendingIce \intersect {other.id})
  BY <1>2, NoneAssumption DEF PeerRecord, Described
<1>5. own.id # 0 /\ (own.sent => own.local = "answer")
  BY <1>1 DEF Pair, Side, Stands
<1>6. Side(p, q, own2, other, in2)
  <2>1. Stands(p, q, own2, other)
    BY <1>1, <1>2, <1>3, <1>4, <1>5 DEF Stands
  <2>2. SaidByPeer(p, q, other, in2)
    BY DEF Pair, Side, SaidByPeer, Leaves
  <2>3. AnswerComes(own2, other, in2)
    BY <1>2 DEF AnswerComes
  <2>4. CandidateComes(p, q, own2, other, in2)
    <3>1. ASSUME other.sent
          PROVE  Tells(in, "ice") \/ other.id \in own.pendingIce \union own.ice
      BY <1>1, <1>2, <3>1 DEF Pair, Side, CandidateComes, Tells
    <3>2. Tells(in, "ice") => Tells(in2, "ice")
      BY DEF Tells, Leaves
    <3> QED  BY <1>4, <3>1, <3>2 DEF CandidateComes
  <2> QED  BY <2>1, <2>2, <2>3, <2>4 DEF Side
<1>7. Side(q, p, other, own2, out2)
  <2>1. Stands(q, p, other, own2)
    BY <1>1, <1>2, <1>4, <1>5 DEF Pair, Side, Stands
  <2>2. SaidByPeer(q, p, own2, out2)
    <3>1. ASSUME NEW y \in out
          PROVE  /\ y.kind \notin {"left", Mine(q, p)}
                 /\ y.kind # "ready" => own2 # None /\ y.by = own2.id
                 /\ y.kind = Mine(p, q) => own2.local = y.kind
      BY <1>1, <1>4 DEF Pair, Side, SaidByPeer
    <3>2. LET y == Answer(q, own.id, x.by)
          IN  /\ y.kind \notin {"left", Mine(q, p)}
              /\ y.kind # "ready" => own2 # None /\ y.by = own2.id
              /\ y.kind = Mine(p, q) => own2.local = y.kind
      BY <1>1, <1>4 DEF Answer
    <3> QED  BY <3>1, <3>2 DEF SaidByPeer
  <2>3. AnswerComes(other, own2, out2)
    <3>1. Answer(q, own.id, x.by) \in out2 /\ Answer(q, own.id, x.by).kind = "answer"
      BY DEF Answer
    <3>2. Tells(out2, "answer")
      BY <3>1 DEF Tells
    <3> QED  BY <1>2, <3>2 DEF AnswerComes
  <2>4. CandidateComes(q, p, other, own2, out2)
    <3>1. ASSUME own.sent
          PROVE  Tells(out, "ice") \/ own.id \in other.pendingIce \union other.ice
      <4>1. other.remote # 0 \/ Tells(out, "answer")
        BY <1>5, <3>1 DEF Pair, Side, AnswerComes
      <4> QED  BY <1>1, <1>2, <3>1, <4>1 DEF Pair, Side, CandidateComes
    <3>2. Tells(out, "ice") => Tells(out2, "ice")
      BY DEF Tells
    <3> QED  BY <1>2, <1>4, <3>1, <3>2 DEF CandidateComes
  <2> QED  BY <2>1, <2>2, <2>3, <2>4 DEF Side
<1> QED  BY <1>6, <1>7 DEF Pair

\* The answer is taken.
LEMMA PairAgrees ==
  ASSUME NEW p \in Participants, NEW q \in Participants, p # q,
         NEW own \in PeerRecord, own # None, own.remote = 0,
         NEW other \in MaybePeer, NEW in, NEW out, Pair(p, q, own, other, in, out),
         NEW x \in in, x.kind = "answer", x.by \in Nat, NEW in2, Leaves(x, in, in2),
         NEW own2 \in PeerRecord, own2 = Described(own, x.by)
  PROVE  Pair(p, q, own2, other, in2, out)
<1>1. Mine(p, q) = "offer" /\ Mine(q, p) = "answer"
  BY OneOffers DEF Pair, Side, SaidByPeer
<1>2. other # None /\ x.by = other.id /\ other.local = "answer"
  BY <1>1 DEF Pair, Side, SaidByPeer
<1>3. other \in PeerRecord /\ other.id # 0 /\ other.remote # 0
  BY <1>2 DEF Pair, Side, Stands, MaybePeer
<1>4. /\ own2 # None /\ own2.local = own.local /\ own2.remote = other.id
      /\ own2.id = own.id /\ own2.sent = own.sent /\ own2.pendingIce = {}
      /\ own2.ice = own.ice \union (own.pendingIce \intersect {other.id})
  BY <1>2, NoneAssumption DEF PeerRecord, Described
<1>5. own.local # "none" /\ own.id # 0
  BY <1>2, <1>3 DEF Pair, Side, Stands
<1>6. Side(p, q, own2, other, in2)
  <2>1. Stands(p, q, own2, other)
    BY <1>1, <1>2, <1>3, <1>4, <1>5 DEF Pair, Side, Stands
  <2>2. SaidByPeer(p, q, other, in2)
    BY DEF Pair, Side, SaidByPeer, Leaves
  <2>3. AnswerComes(own2, other, in2)
    BY <1>3, <1>4 DEF AnswerComes
  <2>4. CandidateComes(p, q, own2, other, in2)
    <3>1. ASSUME other.sent
          PROVE  Tells(in, "ice") \/ other.id \in own.pendingIce \union own.ice
      BY <1>1, <1>2, <3>1 DEF Pair, Side, CandidateComes, Tells
    <3>2. Tells(in, "ice") => Tells(in2, "ice")
      BY DEF Tells, Leaves
    <3> QED  BY <1>4, <3>1, <3>2 DEF CandidateComes
  <2> QED  BY <2>1, <2>2, <2>3, <2>4 DEF Side
<1>7. Side(q, p, other, own2, out)
  BY <1>4 DEF Pair, Side, Stands, SaidByPeer, AnswerComes, CandidateComes
<1> QED  BY <1>6, <1>7 DEF Pair

\* A description that was taken already.
LEMMA PairRefuses ==
  ASSUME NEW p, NEW q, NEW own, own # None, own.remote # 0,
         NEW other, NEW in, NEW out, Pair(p, q, own, other, in, out),
         NEW x, x.kind # "ice", NEW in2, Leaves(x, in, in2)
  PROVE  Pair(p, q, own, other, in2, out)
<1>1. SaidByPeer(p, q, other, in2)
  BY DEF Pair, Side, SaidByPeer, Leaves
<1>2. AnswerComes(own, other, in2)
  BY DEF AnswerComes
<1>3. CandidateComes(p, q, own, other, in2)
  <2>1. Tells(in, "ice") => Tells(in2, "ice")
    BY DEF Tells, Leaves
  <2> QED  BY <2>1 DEF Pair, Side, CandidateComes
<1> QED  BY <1>1, <1>2, <1>3 DEF Pair, Side

\* A candidate arrives, before the description or after.
LEMMA PairAdds ==
  ASSUME NEW p \in Participants, NEW q \in Participants, p # q,
         NEW own \in PeerRecord, own # None,
         NEW other \in MaybePeer, NEW in, NEW out, Pair(p, q, own, other, in, out),
         NEW x \in in, x.kind = "ice", x.by \in Nat, NEW in2, Leaves(x, in, in2),
         NEW own2 \in PeerRecord,
         \/ own.remote = 0 /\ own2 = [own EXCEPT !.pendingIce = @ \union {x.by}]
         \/ own.remote # 0 /\ own2 = [own EXCEPT !.ice = @ \union {x.by}]
  PROVE  Pair(p, q, own2, other, in2, out)
<1>1. other # None /\ x.by = other.id
  BY DEF Pair, Side, SaidByPeer
<1>2. /\ own2 # None /\ own2.local = own.local /\ own2.remote = own.remote
      /\ own2.id = own.id /\ own2.sent = own.sent
      /\ \/ own.remote = 0 /\ own2.pendingIce = own.pendingIce \union {other.id}
         \/ own.remote # 0 /\ own2.pendingIce = own.pendingIce
      /\ other.id \in own2.pendingIce \union own2.ice
  BY <1>1, NoneAssumption DEF PeerRecord
<1>3. Stands(p, q, own, other)
  BY DEF Pair, Side
<1>4. Stands(p, q, own2, other)
  <2>1. own2.pendingIce # {} => own2.pendingIce = {other.id}
    BY <1>2, <1>3 DEF Stands
  <2> QED  BY <1>1, <1>2, <1>3, <2>1 DEF Stands
<1>5. SaidByPeer(p, q, other, in2)
  BY DEF Pair, Side, SaidByPeer, Leaves
<1>6. AnswerComes(own2, other, in2)
  <2>1. Tells(in, "answer") => Tells(in2, "answer")
    BY DEF Tells, Leaves
  <2> QED  BY <1>2, <2>1 DEF Pair, Side, AnswerComes
<1>7. CandidateComes(p, q, own2, other, in2)
  BY <1>2 DEF CandidateComes
<1>8. Side(q, p, other, own2, out)
  BY <1>2 DEF Pair, Side, Stands, SaidByPeer, AnswerComes, CandidateComes
<1> QED  BY <1>2, <1>4, <1>5, <1>6, <1>7, <1>8 DEF Pair, Side

\* A candidate is found; if the other hears nothing it has heard nothing.
LEMMA PairFinds ==
  ASSUME NEW p \in Participants, NEW q \in Participants, p # q,
         NEW own \in PeerRecord, own # None, own.local # "none",
         NEW other \in MaybePeer, NEW in, NEW out, Pair(p, q, own, other, in, out),
         NEW out2,
         \/ out2 = out \union {Candidate(q, own.id)}
         \/ out2 = out /\ out = {} /\ other = None,
         NEW own2 \in PeerRecord, own2 = [own EXCEPT !.sent = TRUE]
  PROVE  Pair(p, q, own2, other, in, out2)
<1>1. /\ own2 # None /\ own2.local = own.local /\ own2.remote = own.remote
      /\ own2.id = own.id /\ own2.pendingIce = own.pendingIce /\ own2.ice = own.ice
  BY NoneAssumption DEF PeerRecord
<1>2. Side(p, q, own2, other, in)
  BY <1>1 DEF Pair, Side, Stands, AnswerComes, CandidateComes
<1>3. Side(q, p, other, own2, out2)
  <2>1. other # None => Stands(q, p, other, own2)
    BY <1>1 DEF Pair, Side, Stands
  <2>2. SaidByPeer(q, p, own2, out2)
    <3>1. ASSUME NEW x \in out
          PROVE  /\ x.kind \notin {"left", Mine(q, p)}
                 /\ x.kind # "ready" => own2 # None /\ x.by = own2.id
                 /\ x.kind = Mine(p, q) => own2.local = x.kind
      BY <1>1 DEF Pair, Side, SaidByPeer
    <3>2. LET x == Candidate(q, own.id)
          IN  /\ x.kind \notin {"left", Mine(q, p)}
              /\ x.kind # "ready" => own2 # None /\ x.by = own2.id
              /\ x.kind = Mine(p, q) => own2.local = x.kind
      BY <1>1 DEF Candidate, Mine
    <3> QED  BY <3>1, <3>2 DEF SaidByPeer
  <2>3. AnswerComes(other, own2, out2)
    BY <1>1 DEF Pair, Side, AnswerComes, Tells
  <2>4. CandidateComes(q, p, other, own2, out2)
    <3>1. CASE out2 = out \union {Candidate(q, own.id)}
      <4>1. Candidate(q, own.id) \in out2 /\ Candidate(q, own.id).kind = "ice"
        BY <3>1 DEF Candidate
      <4>2. Tells(out2, "ice")
        BY <4>1 DEF Tells
      <4> QED  BY <4>2 DEF CandidateComes
    <3>2. CASE out2 = {} /\ other = None
      BY <3>2 DEF CandidateComes, Tells
    <3> QED  BY <3>1, <3>2
  <2> QED  BY <2>1, <2>2, <2>3, <2>4 DEF Side
<1> QED  BY <1>2, <1>3 DEF Pair

-----------------------------------------------------------------------------
(* What nobody disturbed is like.                                          *)

\* What only a joined topic brings about.
Linked(p, q) ==
  \/ peers[p][q] # None
  \/ net[q][p] # << >>
  \/ \E n \in 1 .. Len(work[p]) : IsSignal(work[p][n]) /\ work[p][n].from = q

Hears(p, q) == chan[p][q] # "lost" /\ (Linked(p, q) => p # q /\ Joined(p, q))

Present(p) ==
  /\ ~disposed[p] /\ life[p] = 0 /\ p \in allowed[p]
  /\ starting[p] # None => starting[p].life = 0 /\ starting[p].at # "cleanup"
  /\ starting[p] # None \/ stream[p] # 0 => ~OverCapacity(allowed[p])
  /\ \A q \in Participants :
       chan[p][q] # "none" => q \in allowed[p] /\ stream[p] # 0 /\ chan[p][p] # "none"

\* What a handler knew before its await is so still.
StillSo(p, q, x, s, r) ==
  /\ x.to \in {None, p}
  /\ s.at \in {"servers", "detaching"} => r = None
  /\ s.at = "detaching" => IsFresh(s.peer)
  /\ s.at \in {"offering", "describing"} => r # None /\ s.id = r.id
  /\ s.at = "offering" => x.kind = "ready" /\ Offers(p, q) /\ r.local = "none"
  /\ s.at = "describing" => x.kind \in {"offer", "answer"}

OnCall(p) ==
  step[p] # None => LET w == Head(work[p])
                    IN  StillSo(p, w.from, w.signal, step[p], peers[p][w.from])

InPair(p, q) == Pair(p, q, peers[p][q], peers[q][p], Coming(p, q), Coming(q, p))

Offered(p, q) == peers[p][q] # None /\ peers[p][q].local = "offer"

\* Once each has joined both topics, one has heard of the other, or will.
Told(p, q) ==
  (\A r, s \in {p, q} : Joined(r, s)) =>
    \/ Offered(p, q) \/ Offered(q, p)
    \/ Tells(Coming(p, q), "ready") \/ Tells(Coming(q, p), "ready")

Calm ==
  /\ \A p \in Participants : Present(p) /\ OnCall(p)
  /\ \A p, q \in Participants : Hears(p, q)
  /\ \A p, q \in Participants : p # q => InPair(p, q) /\ Told(p, q)

-----------------------------------------------------------------------------
(* What is on its way.                                                     *)

LEMMA AmongAppended ==
  ASSUME NEW S, NEW s \in Seq(S), NEW y \in S
  PROVE  \A x : Among(x, Append(s, y)) <=> Among(x, s) \/ x = y
<1>1. /\ Len(s) \in Nat /\ Len(Append(s, y)) = Len(s) + 1
      /\ Append(s, y)[Len(s) + 1] = y
      /\ \A n \in 1 .. Len(s) : Append(s, y)[n] = s[n]
  OBVIOUS
<1>2. \A n : n \in 1 .. Len(s) + 1 <=> n \in 1 .. Len(s) \/ n = Len(s) + 1
  BY <1>1
<1> QED  BY <1>1, <1>2 DEF Among

LEMMA AmongTail ==
  ASSUME NEW S, NEW s \in Seq(S), s # << >>
  PROVE  /\ \A x : Among(x, Tail(s)) => Among(x, s)
         /\ \A x : Among(x, s) => x = Head(s) \/ Among(x, Tail(s))
         /\ Among(Head(s), s)
<1>1. /\ Len(s) \in Nat \ {0} /\ Len(Tail(s)) = Len(s) - 1 /\ Head(s) = s[1]
      /\ \A n \in 1 .. Len(Tail(s)) : Tail(s)[n] = s[n + 1]
  OBVIOUS
<1>2. ASSUME NEW x, Among(x, Tail(s))
      PROVE  Among(x, s)
  <2>1. PICK n \in 1 .. Len(Tail(s)) : Tail(s)[n] = x
    BY <1>2 DEF Among
  <2>2. n + 1 \in 1 .. Len(s) /\ s[n + 1] = x
    BY <1>1, <2>1
  <2> QED  BY <2>2 DEF Among
<1>3. ASSUME NEW x, Among(x, s), x # Head(s)
      PROVE  Among(x, Tail(s))
  <2>1. PICK n \in 1 .. Len(s) : s[n] = x
    BY <1>3 DEF Among
  <2>2. n - 1 \in 1 .. Len(Tail(s)) /\ (n - 1) + 1 = n
    BY <1>1, <1>3, <2>1
  <2>3. Tail(s)[n - 1] = x
    BY <1>1, <2>1, <2>2
  <2> QED  BY <2>2, <2>3 DEF Among
<1>4. Among(Head(s), s)
  BY <1>1 DEF Among
<1> QED  BY <1>2, <1>3, <1>4

LEMMA AmongConcat ==
  ASSUME NEW S, NEW s \in Seq(S), NEW t \in Seq(S)
  PROVE  \A x : Among(x, s \o t) <=> Among(x, s) \/ Among(x, t)
<1>1. /\ Len(s) \in Nat /\ Len(t) \in Nat /\ Len(s \o t) = Len(s) + Len(t)
      /\ \A n \in 1 .. Len(s) : (s \o t)[n] = s[n]
      /\ \A n \in 1 .. Len(t) : (s \o t)[Len(s) + n] = t[n]
  OBVIOUS
<1>2. ASSUME NEW x, Among(x, s)
      PROVE  Among(x, s \o t)
  <2>1. PICK n \in 1 .. Len(s) : s[n] = x
    BY <1>2 DEF Among
  <2>2. n \in 1 .. Len(s \o t)
    BY <1>1, <2>1
  <2> QED  BY <1>1, <2>1, <2>2 DEF Among
<1>3. ASSUME NEW x, Among(x, t)
      PROVE  Among(x, s \o t)
  <2>1. PICK n \in 1 .. Len(t) : t[n] = x
    BY <1>3 DEF Among
  <2>2. Len(s) + n \in 1 .. Len(s \o t)
    BY <1>1, <2>1
  <2> QED  BY <1>1, <2>1, <2>2 DEF Among
<1>4. ASSUME NEW x, Among(x, s \o t), ~Among(x, s)
      PROVE  Among(x, t)
  <2>1. PICK n \in 1 .. Len(s \o t) : (s \o t)[n] = x
    BY <1>4 DEF Among
  <2>2. n \notin 1 .. Len(s)
    BY <1>1, <1>4, <2>1 DEF Among
  <2>3. n - Len(s) \in 1 .. Len(t) /\ Len(s) + (n - Len(s)) = n
    BY <1>1, <2>1, <2>2
  <2>4. t[n - Len(s)] = x
    BY <1>1, <2>1, <2>3
  <2> QED  BY <2>3, <2>4 DEF Among
<1> QED  BY <1>2, <1>3, <1>4

LEMMA AmongFew ==
  ASSUME NEW x
  PROVE  ~Among(x, << >>) /\ \A y : Among(x, <<y>>) <=> x = y
<1>1. ~Among(x, << >>)
  BY DEF Among
<1>2. \A y : Among(x, <<y>>) <=> x = y
  <2>1. \A y : Len(<<y>>) = 1 /\ <<y>>[1] = y
    OBVIOUS
  <2> QED  BY <2>1 DEF Among
<1> QED  BY <1>1, <1>2

LEMMA AmongTwo ==
  ASSUME NEW x, NEW y, NEW z
  PROVE  Among(x, <<y, z>>) <=> x = y \/ x = z
<1>1. Len(<<y, z>>) = 2 /\ <<y, z>>[1] = y /\ <<y, z>>[2] = z
  OBVIOUS
<1>2. \A n : n \in 1 .. 2 <=> n = 1 \/ n = 2
  OBVIOUS
<1> QED  BY <1>1, <1>2 DEF Among

LEMMA OnTopicHeard ==
  ASSUME TypeOK, NEW p \in Participants, NEW y \in Signal,
         NEW r \in Participants, NEW s \in Participants
  PROVE  /\ \A x : Among(x, OnTopic(p, <<y>>)[r][s])
                   <=> Among(x, net[r][s]) \/ (r = p /\ s # p /\ Joined(s, p) /\ x = y)
         /\ OnTopic(p, <<y>>)[r][s] = net[r][s] \/ (r = p /\ s # p /\ Joined(s, p))
<1>1. net[r][s] \in Seq(Signal) /\ <<y>> \in Seq(Signal)
  BY DEF TypeOK
<1>2. \A x : Among(x, net[r][s] \o <<y>>) <=> Among(x, net[r][s]) \/ x = y
  <2>1. \A x : Among(x, net[r][s] \o <<y>>) <=> Among(x, net[r][s]) \/ Among(x, <<y>>)
    BY <1>1, AmongConcat
  <2> QED  BY <2>1, AmongFew
<1>3. OnTopic(p, <<y>>)[r][s] = IF r = p /\ s # p /\ Joined(s, p) THEN net[r][s] \o <<y>>
                                                                ELSE net[r][s]
  BY DEF OnTopic, TypeOK
<1> QED  BY <1>2, <1>3

LEMMA QueueHeard ==
  ASSUME TypeOK, NEW p \in Participants, work[p] # << >>,
         work' = [work EXCEPT ![p] = Tail(@)], NEW r \in Participants
  PROVE  /\ \A x : Among(x, work'[r]) => Among(x, work[r])
         /\ \A x : Among(x, work[r]) => Among(x, work'[r]) \/ (r = p /\ x = Head(work[p]))
<1>1. work[p] \in Seq(Work)
  BY DEF TypeOK
<1>2. CASE r = p
  <2>1. work'[r] = Tail(work[p])
    BY <1>2 DEF TypeOK
  <2> QED  BY <1>1, <1>2, <2>1, AmongTail
<1>3. CASE r # p
  <2>1. work'[r] = work[r]
    BY <1>3 DEF TypeOK
  <2> QED  BY <2>1
<1> QED  BY <1>2, <1>3

\* At most x of q leaves p's queue.
Works(p, q, x) ==
  \/ work' = work
  \/ /\ work[p] # << >> /\ Head(work[p]) = [from |-> q, signal |-> x]
     /\ work' = [work EXCEPT ![p] = Tail(@)]

\* At most y is sent, by p.
Sends(p, y) == net' = net \/ net' = OnTopic(p, <<y>>)

Passes(p, q, x, y) ==
  /\ \A r, s \in Participants : r # s /\ {r, s} # {p, q} => Coming(r, s)' = Coming(r, s)
  /\ Leaves(x, Coming(p, q), Coming(p, q)')
  /\ work' = work => Coming(p, q)' = Coming(p, q)
  /\ Coming(q, p)' = IF net' = OnTopic(p, <<y>>) /\ Joined(q, p)
                     THEN Coming(q, p) \union {y} ELSE Coming(q, p)

LEMMA ComingChanges ==
  ASSUME TypeOK, NEW p \in Participants, NEW q \in Participants, p # q,
         NEW x, NEW y \in Signal, y.to = q, Works(p, q, x), Sends(p, y)
  PROVE  Passes(p, q, x, y)
<1>1. ASSUME NEW r \in Participants, NEW s \in Participants, NEW z
      PROVE  /\ Among(z, work'[r]) => Among(z, work[r])
             /\ Among(z, work[r]) => Among(z, work'[r])
                                     \/ (r = p /\ z = [from |-> q, signal |-> x])
  BY QueueHeard DEF Works
<1>2. ASSUME NEW r \in Participants, NEW s \in Participants, NEW z
      PROVE  Among(z, net'[s][r])
             <=> \/ Among(z, net[s][r])
                 \/ /\ net' = OnTopic(p, <<y>>)
                    /\ s = p /\ r # p /\ Joined(r, p) /\ z = y
  BY OnTopicHeard DEF Sends
<1>3. ASSUME NEW r \in Participants, NEW s \in Participants, r # s, {r, s} # {p, q}
      PROVE  Coming(r, s)' = Coming(r, s)
  <2>1. ASSUME NEW z \in Signal, z.to \in {None, r}
        PROVE  Among(z, net'[s][r]) <=> Among(z, net[s][r])
    <3>1. z = y => r = q
      BY <2>1, MediaAssumption
    <3> QED  BY <1>2, <1>3, <3>1
  <2>2. ASSUME NEW z \in Signal
        PROVE  Among([from |-> s, signal |-> z], work'[r])
               <=> Among([from |-> s, signal |-> z], work[r])
    BY <1>1, <1>3
  <2> QED  BY <2>1, <2>2 DEF Coming
<1>4. Leaves(x, Coming(p, q), Coming(p, q)')
  <2>1. ASSUME NEW z \in Signal
        PROVE  Among(z, net'[q][p]) <=> Among(z, net[q][p])
    BY <1>2
  <2>2. ASSUME NEW z \in Signal
        PROVE  /\ Among([from |-> q, signal |-> z], work'[p])
                  => Among([from |-> q, signal |-> z], work[p])
               /\ Among([from |-> q, signal |-> z], work[p])
                  => Among([from |-> q, signal |-> z], work'[p]) \/ z = x
    BY <1>1
  <2>3. Coming(p, q)' \subseteq Coming(p, q)
    BY <2>1, <2>2 DEF Coming
  <2>4. Coming(p, q) \subseteq Coming(p, q)' \union {x}
    BY <2>1, <2>2 DEF Coming
  <2> QED  BY <2>3, <2>4 DEF Leaves
<1>5. ASSUME work' = work
      PROVE  Coming(p, q)' = Coming(p, q)
  <2>1. \A z \in Signal : Among(z, net'[q][p]) <=> Among(z, net[q][p])
    BY <1>2
  <2> QED  BY <1>5, <2>1 DEF Coming
<1>6. /\ \A z \in Signal : Among([from |-> p, signal |-> z], work'[q])
                           <=> Among([from |-> p, signal |-> z], work[q])
      /\ \A z \in Signal :
           Among(z, net'[p][q])
           <=> Among(z, net[p][q]) \/ (net' = OnTopic(p, <<y>>) /\ Joined(q, p) /\ z = y)
  <2>1. \A z \in Signal : Among([from |-> p, signal |-> z], work'[q])
                         <=> Among([from |-> p, signal |-> z], work[q])
    BY <1>1
  <2> QED  BY <1>2, <2>1
<1>7. Coming(q, p)' = IF net' = OnTopic(p, <<y>>) /\ Joined(q, p)
                     THEN Coming(q, p) \union {y} ELSE Coming(q, p)
  BY <1>6 DEF Coming
<1> QED  BY <1>3, <1>4, <1>5, <1>7 DEF Passes

LEMMA LinkedChanges ==
  ASSUME TypeOK, NEW p \in Participants, NEW q \in Participants,
         NEW x, NEW y \in Signal, Works(p, q, x), Sends(p, y),
         NEW r \in Participants, NEW s \in Participants,
         peers'[r][s] # None => peers[r][s] # None \/ (r = p /\ s = q),
         Linked(r, s)'
  PROVE  Linked(r, s) \/ (r # s /\ Joined(r, s)) \/ (r = p /\ s = q)
<1>1. net'[s][r] # << >> => net[s][r] # << >> \/ (r # s /\ Joined(r, s))
  BY OnTopicHeard DEF Sends
<1>2. ASSUME NEW n \in 1 .. Len(work'[r]), IsSignal(work'[r][n]), work'[r][n].from = s
      PROVE  \E m \in 1 .. Len(work[r]) : IsSignal(work[r][m]) /\ work[r][m].from = s
  <2>1. Among(work'[r][n], work'[r])
    BY DEF Among
  <2>2. Among(work'[r][n], work[r])
    BY <2>1, QueueHeard DEF Works
  <2> QED  BY <1>2, <2>2 DEF Among
<1> QED  BY <1>1, <1>2 DEF Linked

\* Who is still with p after a step that leaves starts, rosters and channels alone.
LEMMA OthersOnCall ==
  ASSUME MediaInv, NEW o \in Participants, OnCall(o),
         UNCHANGED <<work[o], step[o]>>,
         \A s \in Participants : peers'[o][s] = peers[o][s]
  PROVE  OnCall(o)'
<1>1. step[o] # None => Head(work[o]).from \in Participants
  BY HandledSignal DEF MediaInv, Controller, Underway
<1> QED  BY <1>1 DEF OnCall

\* One handler or connection does something about one pair.
LEMMA CallGoesOn ==
  ASSUME MediaInv, Calm, NEW p \in Participants, NEW q \in Participants, p # q, Joined(p, q),
         UNCHANGED <<allowed, lifecycle, chan>>,
         NEW x, NEW y \in Signal, y.to = q, Works(p, q, x), Sends(p, y),
         \A o \in Participants : o # p => step'[o] = step[o],
         \A r, s \in Participants : r # p \/ s # q => peers'[r][s] = peers[r][s],
         OnCall(p)',
         Pair(p, q, peers'[p][q], peers[q][p], Coming(p, q)', Coming(q, p)'), Told(p, q)'
  PROVE  Calm'
<1>0. TypeOK
  BY DEF MediaInv
<1>1. Passes(p, q, x, y)
  BY <1>0, ComingChanges
<1>2. ASSUME NEW r \in Participants
      PROVE  Present(r)'
  BY DEF Calm, Present, lifecycle
<1>3. ASSUME NEW o \in Participants
      PROVE  OnCall(o)'
  <2>1. CASE o # p
    <3>1. work'[o] = work[o]
      BY <1>0, <2>1 DEF Works, TypeOK
    <3> QED  BY <2>1, <3>1, OthersOnCall DEF Calm
  <2> QED  BY <2>1
<1>4. ASSUME NEW r \in Participants, NEW s \in Participants
      PROVE  Hears(r, s)'
  <2>1. Linked(r, s)' => Linked(r, s) \/ (r # s /\ Joined(r, s)) \/ (r = p /\ s = q)
    BY <1>0, LinkedChanges
  <2> QED  BY <2>1 DEF Calm, Hears, Joined
<1>5. ASSUME NEW r \in Participants, NEW s \in Participants, r # s
      PROVE  InPair(r, s)' /\ Told(r, s)'
  <2>1. CASE {r, s} # {p, q}
    <3>1. Coming(r, s)' = Coming(r, s) /\ Coming(s, r)' = Coming(s, r)
      <4>1. {s, r} # {p, q}
        BY <2>1
      <4> QED  BY <1>1, <1>5, <2>1, <4>1 DEF Passes
    <3>2. peers'[r][s] = peers[r][s] /\ peers'[s][r] = peers[s][r]
      BY <2>1
    <3>3. \A u, v \in {r, s} : Joined(u, v)' = Joined(u, v)
      BY DEF Joined
    <3>4. InPair(r, s) /\ Told(r, s)
      BY <1>5 DEF Calm
    <3> QED  BY <3>1, <3>2, <3>3, <3>4 DEF InPair, Told, Offered
  <2>2. CASE r = p /\ s = q
    BY <2>2 DEF InPair
  <2>3. CASE r = q /\ s = p
    <3>1. InPair(p, q)'
      BY DEF InPair
    <3>2. InPair(q, p)'
      BY <3>1 DEF InPair, Pair
    <3>3. Told(q, p)'
      BY DEF Told
    <3> QED  BY <2>3, <3>2, <3>3
  <2> QED  BY <1>5, <2>1, <2>2, <2>3
<1> QED  BY <1>2, <1>3, <1>4, <1>5 DEF Calm

-----------------------------------------------------------------------------
(* Handlers.                                                               *)

\* p is about to handle x of q.
Handling(p, q, x) ==
  /\ work[p] # << >> /\ Head(work[p]) = [from |-> q, signal |-> x]
  /\ x.to \in {None, p}

LEMMA HandlingHeard ==
  ASSUME MediaInv, Calm, NEW p \in Participants, NEW q \in Participants, NEW x \in Signal,
         Handling(p, q, x)
  PROVE  /\ p # q /\ Joined(p, q) /\ chan[p][p] # "none" /\ x \in Coming(p, q)
         /\ x.kind # "left" /\ q \in allowed[p] /\ stream[p] # 0 /\ ~disposed[p]
<1>1. work[p] \in Seq(Work) /\ work[p] # << >>
  BY DEF MediaInv, TypeOK, Handling
<1>2. Among([from |-> q, signal |-> x], work[p])
  BY <1>1, AmongTail DEF Handling
<1>3. x \in Coming(p, q)
  BY <1>2 DEF Coming, Handling
<1>4. Linked(p, q)
  <2>1. IsSignal([from |-> q, signal |-> x]) /\ [from |-> q, signal |-> x].from = q
    BY DEF IsSignal
  <2> QED  BY <1>2, <2>1 DEF Among, Linked
<1>5. p # q /\ Joined(p, q)
  BY <1>4 DEF Calm, Hears
<1>6. chan[p][p] # "none" /\ q \in allowed[p] /\ stream[p] # 0 /\ ~disposed[p]
  BY <1>5 DEF Calm, Present, Joined
<1>7. x.kind # "left"
  BY <1>3, <1>5 DEF Calm, InPair, Pair, Side, SaidByPeer
<1> QED  BY <1>3, <1>5, <1>6, <1>7

LEMMA NoFault ==
  ASSUME TypeOK, faults' = faults
  PROVE  ~Fault
<1>1. faults \in Nat
  BY DEF TypeOK
<1> QED  BY <1>1 DEF Fault

\* Without a fault what is sent goes out.
LEMMA SentFaultless ==
  ASSUME TypeOK, NEW p, NEW signals, Send(p, signals), chan[p][p] # "none", faults' = faults
  PROVE  net' = OnTopic(p, signals)
  BY NoFault DEF Send

LEMMA ToldStays ==
  ASSUME NEW p \in Participants, NEW q \in Participants, p # q, Told(p, q), chan' = chan,
         Offered(p, q) => Offered(p, q)', Offered(q, p) => Offered(q, p)',
         NEW x, x.kind # "ready", Leaves(x, Coming(p, q), Coming(p, q)'),
         Coming(q, p) \subseteq Coming(q, p)'
  PROVE  Told(p, q)'
<1>1. Tells(Coming(p, q), "ready") => Tells(Coming(p, q)', "ready")
  BY DEF Tells, Leaves
<1>2. Tells(Coming(q, p), "ready") => Tells(Coming(q, p)', "ready")
  BY DEF Tells
<1>3. \A r, s \in {p, q} : Joined(r, s)' = Joined(r, s)
  BY DEF Joined
<1> QED  BY <1>1, <1>2, <1>3 DEF Told

LEMMA PutsOne ==
  ASSUME TypeOK, NEW p \in Participants, NEW q \in Participants, NEW r, PutPeer(p, q, r)
  PROVE  /\ peers'[p][q] = r
         /\ \A o, s \in Participants : o # p \/ s # q => peers'[o][s] = peers[o][s]
  BY DEF PutPeer, TypeOK

LEMMA ProceedCalls ==
  ASSUME MediaInv, Calm, NEW p \in Participants, NEW q \in Participants, NEW x \in Signal,
         Handling(p, q, x), NEW r \in PeerRecord,
         peers[p][q] = None => IsFresh(r), peers[p][q] # None => r = peers[p][q],
         Proceed(p, q, x, r), UNCHANGED <<allowed, lifecycle, chan>>, faults' = faults
  PROVE  Calm'
<1>0. TypeOK
  BY DEF MediaInv
<1>1. p # q /\ Joined(p, q) /\ chan[p][p] # "none" /\ x \in Coming(p, q) /\ x.kind # "left"
  BY HandlingHeard
<1>2. Pair(p, q, r, peers[q][p], Coming(p, q), Coming(q, p)) /\ Told(p, q)
  <2>1. InPair(p, q) /\ Told(p, q)
    BY <1>1 DEF Calm
  <2>2. peers[q][p] \in MaybePeer
    BY <1>0 DEF TypeOK, MaybePeer
  <2>3. CASE peers[p][q] = None
    <3>1. Pair(p, q, None, peers[q][p], Coming(p, q), Coming(q, p)) /\ IsFresh(r)
      BY <2>1, <2>3 DEF InPair
    <3> QED  BY <2>1, <2>2, <3>1, PairWelcomes
  <2>4. CASE peers[p][q] # None
    BY <2>1, <2>4 DEF InPair
  <2> QED  BY <2>3, <2>4
<1>3. r # None /\ x.by \in Nat
  BY NoneAssumption DEF Signal
<1>4. Offered(p, q) => r.local = "offer" /\ r = peers[p][q]
  BY DEF Offered
<1>5. Ready(q) \in Signal /\ Ready(q).to = q /\ Left.kind # "ready"
  BY SignalTypes DEF Ready, Left
<1>6. ASSUME PutPeer(p, q, r), UNCHANGED net,
             Busy(p, [at |-> "offering", id |-> r.id])
               \/ Busy(p, [at |-> "describing", id |-> r.id]),
             StillSo(p, q, x, step'[p], r)
      PROVE  Calm'
  <2>1. /\ peers'[p][q] = r /\ work' = work
        /\ \A o, s \in Participants : o # p \/ s # q => peers'[o][s] = peers[o][s]
        /\ \A o \in Participants : o # p => step'[o] = step[o]
    <3>1. work' = work /\ \E s : step' = [step EXCEPT ![p] = s]
      BY <1>6 DEF Busy
    <3>2. \A o \in Participants : o # p => step'[o] = step[o]
      BY <1>0, <3>1 DEF TypeOK
    <3> QED  BY <1>0, <1>6, <3>1, <3>2, PutsOne
  <2>2. Works(p, q, x) /\ Sends(p, Ready(q))
    BY <1>6, <2>1 DEF Works, Sends
  <2>3. \A o, s \in Participants : Coming(o, s)' = Coming(o, s)
    BY <1>6, <2>1 DEF Coming
  <2>4. OnCall(p)'
    BY <1>6, <2>1 DEF OnCall, Handling
  <2>5. Told(p, q)'
    BY <1>2, <2>1, <2>3 DEF Told, Joined, Offered
  <2>6. Pair(p, q, peers'[p][q], peers[q][p], Coming(p, q)', Coming(q, p)')
    BY <1>2, <2>1, <2>3
  <2> QED  BY <1>1, <1>5, <2>1, <2>2, <2>4, <2>5, <2>6, CallGoesOn
\* Work that is done, with readiness sent or not.
<1>7. ASSUME Done(p)
      PROVE  /\ Works(p, q, x) /\ OnCall(p)'
             /\ \A o \in Participants : o # p => step'[o] = step[o]
  <2>1. Works(p, q, x)
    BY <1>7 DEF Done, Works, Handling
  <2>2. step'[p] = None /\ \A o \in Participants : o # p => step'[o] = step[o]
    BY <1>0, <1>7 DEF Done, TypeOK
  <2> QED  BY <2>1, <2>2 DEF OnCall
<1>8. CASE x.kind = "ready" /\ Offers(p, q) /\ r.local = "none"
  <2>1. /\ PutPeer(p, q, r) /\ UNCHANGED net
        /\ Busy(p, [at |-> "offering", id |-> r.id])
    BY <1>8 DEF Proceed
  <2>2. step'[p] = [at |-> "offering", id |-> r.id]
    BY <1>0, <2>1 DEF Busy, TypeOK
  <2>3. StillSo(p, q, x, step'[p], r)
    BY <1>3, <1>8, <2>2 DEF StillSo, Handling
  <2> QED  BY <1>6, <2>1, <2>3
<1>9. CASE x.kind \in {"offer", "answer"}
  <2>1. /\ PutPeer(p, q, r) /\ UNCHANGED net
        /\ Busy(p, [at |-> "describing", id |-> r.id])
    BY <1>9 DEF Proceed
  <2>2. step'[p] = [at |-> "describing", id |-> r.id]
    BY <1>0, <2>1 DEF Busy, TypeOK
  <2>3. StillSo(p, q, x, step'[p], r)
    BY <1>3, <1>9, <2>2 DEF StillSo, Handling
  <2> QED  BY <1>6, <2>1, <2>3
<1>10. CASE x.kind = "ready" /\ (~Offers(p, q) \/ r.local # "none")
  <2>1. PutPeer(p, q, r) /\ Done(p)
    BY <1>10 DEF Proceed
  <2>2. IF Offers(p, q) THEN net' = net ELSE net' = OnTopic(p, <<Ready(q)>>)
    <3>1. CASE Offers(p, q)
      BY <1>10, <3>1 DEF Proceed
    <3>2. CASE ~Offers(p, q)
      <4>1. Send(p, <<Ready(q)>>)
        BY <1>10, <3>2 DEF Proceed
      <4> QED  BY <1>0, <1>1, <3>2, <4>1, SentFaultless
    <3> QED  BY <3>1, <3>2
  <2>3. Sends(p, Ready(q))
    BY <2>2 DEF Sends
  <2>4. Passes(p, q, x, Ready(q))
    BY <1>0, <1>1, <1>5, <1>7, <2>1, <2>3, ComingChanges
  <2>5. peers'[p][q] = r /\ \A o, s \in Participants : o # p \/ s # q => peers'[o][s] = peers[o][s]
    BY <1>0, <2>1, PutsOne
  <2>6. /\ Leaves(x, Coming(p, q), Coming(p, q)')
        /\ Coming(q, p)' = Coming(q, p) \/ Coming(q, p)' = Coming(q, p) \union {Ready(q)}
    BY <2>4 DEF Passes
  <2>7. Pair(p, q, peers'[p][q], peers[q][p], Coming(p, q)', Coming(q, p)')
    <3>1. /\ \A z \in Coming(p, q)' : z \in Coming(p, q) \/ z.kind = "ready"
          /\ \A z \in Coming(p, q) : z \in Coming(p, q)' \/ z.kind = "ready"
      BY <1>10, <2>6 DEF Leaves
    <3>2. /\ \A z \in Coming(q, p)' : z \in Coming(q, p) \/ z.kind = "ready"
          /\ \A z \in Coming(q, p) : z \in Coming(q, p)' \/ z.kind = "ready"
      BY <2>6 DEF Ready
    <3> QED  BY <1>2, <2>5, <3>1, <3>2, PairAnnounces
  <2>8. Told(p, q)'
    <3>1. CASE Offers(p, q)
      <4>1. r.local = "offer"
        BY <1>2, <1>3, <1>10, <3>1 DEF Pair, Side, Stands, Mine
      <4> QED  BY <1>3, <2>5, <4>1 DEF Told, Offered
    <3>2. CASE ~Offers(p, q)
      <4> SUFFICES ASSUME Joined(q, p)
                   PROVE  Tells(Coming(q, p)', "ready")
        BY DEF Told, Joined
      <4>1. Ready(q) \in Coming(q, p)'
        BY <2>2, <2>4, <3>2 DEF Passes
      <4> QED  BY <4>1 DEF Tells, Ready
    <3> QED  BY <3>1, <3>2
  <2> QED  BY <1>1, <1>5, <1>7, <2>1, <2>3, <2>5, <2>7, <2>8, CallGoesOn
<1>11. CASE x.kind = "ice"
  <2>1. Stands(p, q, r, peers[q][p]) /\ peers[q][p] # None /\ x.by = peers[q][p].id /\ x.by # 0
    BY <1>1, <1>2, <1>3, <1>11 DEF Pair, Side, SaidByPeer, Stands
  <2>2. r.remote = 0 \/ r.remote = x.by
    BY <2>1 DEF Stands
  <2>3. /\ Done(p) /\ net' = net
        /\ \/ r.remote = 0 /\ PutPeer(p, q, [r EXCEPT !.pendingIce = @ \union {x.by}])
           \/ r.remote # 0 /\ PutPeer(p, q, [r EXCEPT !.ice = @ \union {x.by}])
    <3>1. CASE r.remote = 0
      <4>1. /\ PutPeer(p, q, [r EXCEPT !.pendingIce = @ \union {x.by}]) /\ Done(p)
            /\ UNCHANGED <<net, shows, faults>>
        BY <1>11, <2>1, <3>1 DEF Proceed
      <4> QED  BY <3>1, <4>1
    <3>2. CASE r.remote # 0
      BY <1>11, <2>2, <3>2 DEF Proceed
    <3> QED  BY <3>1, <3>2
  <2>4. PICK r2 \in PeerRecord :
           /\ PutPeer(p, q, r2)
           /\ \/ r.remote = 0 /\ r2 = [r EXCEPT !.pendingIce = @ \union {x.by}]
              \/ r.remote # 0 /\ r2 = [r EXCEPT !.ice = @ \union {x.by}]
    <3>1. /\ [r EXCEPT !.pendingIce = @ \union {x.by}] \in PeerRecord
          /\ [r EXCEPT !.ice = @ \union {x.by}] \in PeerRecord
      BY <1>3 DEF PeerRecord
    <3> QED  BY <2>3, <3>1
  <2>5. Sends(p, Ready(q))
    BY <2>3 DEF Sends
  <2>6. Passes(p, q, x, Ready(q))
    BY <1>0, <1>1, <1>5, <1>7, <2>3, <2>5, ComingChanges
  <2>7. peers'[p][q] = r2 /\ \A o, s \in Participants : o # p \/ s # q => peers'[o][s] = peers[o][s]
    BY <1>0, <2>4, PutsOne
  <2>8. Leaves(x, Coming(p, q), Coming(p, q)') /\ Coming(q, p)' = Coming(q, p)
    <3>1. work'[q] = work[q]
      BY <1>0, <1>1, <2>3 DEF Done, TypeOK
    <3> QED  BY <2>3, <2>6, <3>1 DEF Passes, Coming
  <2>9. Pair(p, q, peers'[p][q], peers[q][p], Coming(p, q)', Coming(q, p)')
    <3>1. peers[q][p] \in MaybePeer
      BY <1>0 DEF TypeOK, MaybePeer
    <3>2. Pair(p, q, r2, peers[q][p], Coming(p, q)', Coming(q, p))
      BY <1>1, <1>2, <1>3, <1>11, <2>4, <2>8, <3>1, PairAdds
    <3> QED  BY <2>7, <2>8, <3>2
  <2>10. Told(p, q)'
    <3>1. Offered(p, q) => Offered(p, q)'
      BY <1>3, <1>4, <2>4, <2>7, NoneAssumption DEF Offered, PeerRecord
    <3>2. Offered(q, p) => Offered(q, p)'
      BY <1>1, <2>7 DEF Offered
    <3> QED  BY <1>1, <1>2, <1>11, <2>8, <3>1, <3>2, ToldStays
  <2> QED  BY <1>1, <1>5, <1>7, <2>3, <2>5, <2>7, <2>9, <2>10, CallGoesOn
<1> QED  BY <1>1, <1>8, <1>9, <1>10, <1>11 DEF Signal

\* A record stays, but for what no negotiation is about.
Similar(r, s) ==
  \/ peers'[r][s] = peers[r][s]
  \/ /\ peers[r][s] # None /\ peers'[r][s] \in PeerRecord
     /\ SameFace(peers[r][s], peers'[r][s])

LEMMA QuietPairs ==
  ASSUME TypeOK, Calm,
         \A r, s \in Participants : Similar(r, s) /\ (Joined(r, s)' => Joined(r, s)),
         \A r, s \in Participants : r # s => Coming(r, s)' = Coming(r, s),
         NEW p \in Participants, NEW q \in Participants, p # q
  PROVE  InPair(p, q)' /\ Told(p, q)'
<1>1. /\ InPair(p, q) /\ Told(p, q)
      /\ Coming(p, q)' = Coming(p, q) /\ Coming(q, p)' = Coming(q, p)
  BY DEF Calm
<1>2. /\ peers[p][q] \in MaybePeer /\ peers[q][p] \in MaybePeer
      /\ peers[p][q] # None => peers[p][q] \in PeerRecord
      /\ peers[q][p] # None => peers[q][p] \in PeerRecord
      /\ peers'[p][q] \in MaybePeer
  <2>1. peers[p][q] \in MaybePeer /\ peers[q][p] \in MaybePeer
    BY DEF TypeOK, MaybePeer
  <2>2. Similar(p, q)
    OBVIOUS
  <2> QED  BY <2>1, <2>2 DEF MaybePeer, Similar
<1>3. Pair(p, q, peers'[p][q], peers[q][p], Coming(p, q), Coming(q, p))
  <2>1. CASE peers'[p][q] = peers[p][q]
    BY <1>1, <2>1 DEF InPair
  <2>2. CASE peers'[p][q] # peers[p][q]
    <3>1. /\ peers[p][q] # None /\ peers'[p][q] \in PeerRecord
          /\ SameFace(peers[p][q], peers'[p][q])
      BY <2>2 DEF Similar
    <3> QED  BY <1>1, <1>2, <3>1, PairKeepsFace DEF InPair
  <2> QED  BY <2>1, <2>2
<1>4. Pair(q, p, peers'[q][p], peers'[p][q], Coming(q, p), Coming(p, q))
  <2>1. Pair(q, p, peers[q][p], peers'[p][q], Coming(q, p), Coming(p, q))
    BY <1>3 DEF Pair
  <2>2. CASE peers'[q][p] = peers[q][p]
    BY <2>1, <2>2
  <2>3. CASE peers'[q][p] # peers[q][p]
    <3>1. /\ peers[q][p] # None /\ peers'[q][p] \in PeerRecord
          /\ SameFace(peers[q][p], peers'[q][p])
      BY <2>3 DEF Similar
    <3> QED  BY <1>2, <2>1, <3>1, PairKeepsFace
  <2> QED  BY <2>2, <2>3
<1>5. InPair(p, q)'
  BY <1>1, <1>4 DEF InPair, Pair
<1>6. Told(p, q)'
  <2>1. /\ Offered(p, q) => Offered(p, q)'
        /\ Offered(q, p) => Offered(q, p)'
    BY NoneAssumption DEF Offered, Similar, SameFace
  <2> QED  BY <1>1, <2>1 DEF Told
<1> QED  BY <1>5, <1>6

\* Nobody hears anything of it.
LEMMA QuietHandles ==
  ASSUME MediaInv, Calm, NEW p \in Participants, UNCHANGED <<allowed, lifecycle, chan, net>>,
         \/ work' = work
         \/ /\ work[p] # << >> /\ work' = [work EXCEPT ![p] = Tail(@)]
            /\ \A q \in Participants, x \in Signal :
                 Head(work[p]) = [from |-> q, signal |-> x] => x.to \notin {None, p},
         \A o \in Participants : o # p => step'[o] = step[o],
         \A r, s \in Participants : Similar(r, s) /\ (r # p => peers'[r][s] = peers[r][s]),
         OnCall(p)'
  PROVE  Calm'
<1>0. TypeOK
  BY DEF MediaInv
<1>1. ASSUME NEW r \in Participants
      PROVE  Present(r)'
  BY DEF Calm, Present, OverCapacity, lifecycle
<1>2. ASSUME NEW o \in Participants
      PROVE  OnCall(o)'
  <2>1. CASE o # p
    <3>1. work'[o] = work[o]
      BY <1>0, <2>1 DEF TypeOK
    <3> QED  BY <2>1, <3>1, OthersOnCall DEF Calm
  <2> QED  BY <2>1
<1>3. ASSUME NEW r \in Participants, NEW x
      PROVE  /\ Among(x, work'[r]) => Among(x, work[r])
             /\ Among(x, work[r]) => \/ Among(x, work'[r])
                                     \/ r = p /\ x = Head(work[p]) /\ work' # work
  BY <1>0, QueueHeard
<1>4. ASSUME NEW r \in Participants, NEW s \in Participants
      PROVE  Hears(r, s)'
  <2>1. peers'[r][s] # None => peers[r][s] # None
    BY DEF Similar
  <2>2. ASSUME NEW n \in 1 .. Len(work'[r]), IsSignal(work'[r][n]), work'[r][n].from = s
        PROVE  \E m \in 1 .. Len(work[r]) : IsSignal(work[r][m]) /\ work[r][m].from = s
    <3>1. Among(work'[r][n], work'[r])
      BY DEF Among
    <3>2. Among(work'[r][n], work[r])
      BY <1>3, <3>1
    <3> QED  BY <2>2, <3>2 DEF Among
  <2>3. Linked(r, s)' => Linked(r, s)
    BY <2>1, <2>2 DEF Linked
  <2> QED  BY <2>3 DEF Calm, Hears, Joined
<1>5. ASSUME NEW r \in Participants, NEW s \in Participants, r # s
      PROVE  Coming(r, s)' = Coming(r, s)
  <2>1. ASSUME NEW x \in Signal, x.to \in {None, r}
        PROVE  Among([from |-> s, signal |-> x], work'[r])
               <=> Among([from |-> s, signal |-> x], work[r])
    <3>1. PICK w : w = [from |-> s, signal |-> x]
      OBVIOUS
    <3>2. /\ Among(w, work'[r]) => Among(w, work[r])
          /\ Among(w, work[r]) => \/ Among(w, work'[r])
                                  \/ r = p /\ w = Head(work[p]) /\ work' # work
      BY <1>3
    <3>3. ~(r = p /\ w = Head(work[p]) /\ work' # work)
      BY <2>1, <3>1
    <3> QED  BY <3>1, <3>2, <3>3
  <2> QED  BY <2>1 DEF Coming
<1>6. ASSUME NEW r \in Participants, NEW s \in Participants, r # s
      PROVE  InPair(r, s)' /\ Told(r, s)'
  <2>1. \A u, v \in Participants : Similar(u, v) /\ (Joined(u, v)' => Joined(u, v))
    BY DEF Joined
  <2> QED  BY <1>0, <1>5, <1>6, <2>1, QuietPairs
<1> QED  BY <1>1, <1>2, <1>4, <1>6 DEF Calm

LEMMA HeadSignal ==
  ASSUME MediaInv, NEW p \in Participants, work[p] # << >>, IsSignal(Head(work[p]))
  PROVE  \E q \in Participants, x \in Signal : Head(work[p]) = [from |-> q, signal |-> x]
<1>1. Head(work[p]) \in Work
  BY HeadType DEF MediaInv
<1>2. Head(work[p]) \in [from : Participants, signal : Signal]
  BY <1>1, WorkTypes
<1> QED  BY <1>2

\* What a handler works on during its awaits.
LEMMA AwaitedHead ==
  ASSUME MediaInv, Calm, NEW p \in Participants, step[p] # None
  PROVE  \E q \in Participants, x \in Signal :
           Handling(p, q, x) /\ StillSo(p, q, x, step[p], peers[p][q])
<1>1. work[p] # << >> /\ IsSignal(Head(work[p]))
  BY DEF MediaInv, Controller, Underway
<1>2. PICK q \in Participants, x \in Signal : Head(work[p]) = [from |-> q, signal |-> x]
  BY <1>1, HeadSignal
<1>3. StillSo(p, q, x, step[p], peers[p][q])
  BY <1>2 DEF Calm, OnCall
<1> QED  BY <1>1, <1>2, <1>3 DEF Handling, StillSo

\* There is room for one more peer.
LEMMA RoomForOne ==
  ASSUME MediaInv, Calm, NEW p \in Participants, NEW q \in Participants, p # q, Joined(p, q),
         peers[p][q] = None
  PROVE  ~(Cardinality(PeersOf(p)) >= MaxPeers)
<1>1. /\ p \in allowed[p] /\ q \in allowed[p] /\ stream[p] # 0 /\ ~OverCapacity(allowed[p])
      /\ allowed[p] \subseteq Participants
  BY DEF Calm, Present, Joined, MediaInv, TypeOK
<1>2. IsFiniteSet(allowed[p])
  BY <1>1, MediaAssumption, FS_Subset
<1>3. PeersOf(p) \subseteq (allowed[p] \ {p}) \ {q}
  <2>1. ASSUME NEW s \in PeersOf(p)
        PROVE  s # p /\ s # q /\ s \in allowed[p]
    <3>1. s \in Participants /\ Linked(p, s)
      BY DEF PeersOf, Linked
    <3>2. p # s /\ Joined(p, s)
      BY <3>1 DEF Calm, Hears
    <3>3. s \in allowed[p]
      BY <3>1, <3>2 DEF Calm, Present, Joined
    <3> QED  BY <3>2, <3>3 DEF PeersOf
  <2> QED  BY <2>1
<1>4. /\ IsFiniteSet(allowed[p] \ {p})
      /\ Cardinality(allowed[p] \ {p}) = Cardinality(allowed[p]) - 1
  BY <1>1, <1>2, FS_RemoveElement
<1>5. /\ IsFiniteSet((allowed[p] \ {p}) \ {q})
      /\ Cardinality((allowed[p] \ {p}) \ {q}) = Cardinality(allowed[p] \ {p}) - 1
  <2>1. q \in allowed[p] \ {p}
    BY <1>1
  <2> QED  BY <1>4, <2>1, FS_RemoveElement
<1>6. Cardinality(PeersOf(p)) =< Cardinality((allowed[p] \ {p}) \ {q})
  BY <1>3, <1>5, FS_Subset
<1>7. /\ Cardinality(allowed[p]) \in Nat /\ IsFiniteSet(PeersOf(p))
      /\ Cardinality(PeersOf(p)) \in Nat
  BY <1>2, <1>3, <1>5, FS_Subset, FS_CardinalityType
<1>8. Cardinality(allowed[p]) =< MaxPeers + 1 /\ MaxPeers \in Nat
  BY <1>1, <1>7, MediaAssumption DEF OverCapacity
<1> QED  BY <1>4, <1>5, <1>6, <1>7, <1>8

\* The offer is made for the peer that readiness was heard by.
LEMMA OfferCalls ==
  ASSUME MediaInv, Calm, NEW p \in Participants, OfferMade(p), faults' = faults
  PROVE  Calm'
<1>0. TypeOK
  BY DEF MediaInv
<1>1. step[p] # None /\ step[p].at = "offering" /\ UNCHANGED <<allowed, lifecycle, chan>>
  BY DEF OfferMade, At
<1>2. PICK q \in Participants, x \in Signal :
        Handling(p, q, x) /\ StillSo(p, q, x, step[p], peers[p][q])
  BY <1>1, AwaitedHead
<1>3. /\ p # q /\ Joined(p, q) /\ chan[p][p] # "none" /\ x \in Coming(p, q)
  BY <1>2, HandlingHeard
<1>4. PICK own : own = peers[p][q]
  OBVIOUS
<1>5. /\ own # None /\ own.id = step[p].id /\ own.local = "none" /\ Offers(p, q)
      /\ x.kind = "ready" /\ own \in PeerRecord
  BY <1>0, <1>1, <1>2, <1>4 DEF StillSo, TypeOK
<1>6. PICK own2 : own2 = [own EXCEPT !.local = "offer"]
  OBVIOUS
<1>7. Head(work[p]).from = q
  BY <1>2 DEF Handling
<1>8. PutPeer(p, q, own2) /\ Send(p, <<Offer(q, own.id)>>) /\ Done(p)
  BY <1>4, <1>5, <1>6, <1>7 DEF OfferMade, Closed
<1>9. own2 \in PeerRecord /\ own2 # None /\ own2.local = "offer" /\ own.id \in Nat
  BY <1>5, <1>6, NoneAssumption DEF PeerRecord
<1>10. PICK y : y = Offer(q, own.id)
  OBVIOUS
<1>11. y \in Signal /\ y.to = q /\ y.kind = "offer"
  BY <1>9, <1>10, SignalTypes DEF Offer
<1>12. net' = OnTopic(p, <<y>>)
  BY <1>0, <1>3, <1>8, <1>10, SentFaultless
<1>13. Works(p, q, x) /\ Sends(p, y)
  BY <1>2, <1>8, <1>12 DEF Works, Sends, Done, Handling
<1>14. step'[p] = None /\ \A o \in Participants : o # p => step'[o] = step[o]
  BY <1>0, <1>8 DEF Done, TypeOK
<1>15. Passes(p, q, x, y)
  BY <1>0, <1>3, <1>11, <1>13, ComingChanges
<1>16. peers'[p][q] = own2 /\ \A o, s \in Participants : o # p \/ s # q => peers'[o][s] = peers[o][s]
  BY <1>0, <1>8, PutsOne
<1>17. /\ Leaves(x, Coming(p, q), Coming(p, q)')
       /\ Coming(q, p)' = Coming(q, p) \/ Coming(q, p)' = Coming(q, p) \union {y}
  BY <1>15 DEF Passes
<1>18. Pair(p, q, peers'[p][q], peers[q][p], Coming(p, q)', Coming(q, p)')
  <2>1. peers[q][p] \in MaybePeer
    BY <1>0 DEF TypeOK, MaybePeer
  <2>2. Pair(p, q, own, peers[q][p], Coming(p, q), Coming(q, p))
    BY <1>3, <1>4 DEF Calm, InPair
  <2>3. Pair(p, q, own2, peers[q][p], Coming(p, q), Coming(q, p)')
    BY <1>3, <1>5, <1>6, <1>9, <1>10, <1>17, <2>1, <2>2, PairOffers
  <2>4. /\ \A z \in Coming(p, q)' : z \in Coming(p, q) \/ z.kind = "ready"
        /\ \A z \in Coming(p, q) : z \in Coming(p, q)' \/ z.kind = "ready"
    BY <1>5, <1>17 DEF Leaves
  <2>5. /\ \A z \in Coming(q, p)' : z \in Coming(q, p)' \/ z.kind = "ready"
    OBVIOUS
  <2> QED  BY <1>16, <2>3, <2>4, <2>5, PairAnnounces
<1>19. Told(p, q)'
  BY <1>9, <1>16 DEF Told, Offered
<1>20. OnCall(p)'
  BY <1>14 DEF OnCall
<1> QED  BY <1>1, <1>3, <1>11, <1>13, <1>14, <1>16, <1>18, <1>19, <1>20, CallGoesOn

\* A description is taken, or refused if one was taken before.
LEMMA DescribeCalls ==
  ASSUME MediaInv, Calm, NEW p \in Participants, Describe(p), faults' = faults
  PROVE  Calm'
<1>0. TypeOK
  BY DEF MediaInv
<1>1. step[p] # None /\ step[p].at = "describing" /\ UNCHANGED <<allowed, lifecycle, chan>>
  BY DEF Describe, At
<1>2. PICK q \in Participants, x \in Signal :
        Handling(p, q, x) /\ StillSo(p, q, x, step[p], peers[p][q])
  BY <1>1, AwaitedHead
<1>3. /\ p # q /\ Joined(p, q) /\ chan[p][p] # "none" /\ x \in Coming(p, q)
  BY <1>2, HandlingHeard
<1>4. PICK own : own = peers[p][q]
  OBVIOUS
<1>5. /\ own # None /\ own.id = step[p].id /\ x.kind \in {"offer", "answer"}
      /\ own \in PeerRecord /\ peers[q][p] \in MaybePeer
  BY <1>0, <1>1, <1>2, <1>4 DEF StillSo, TypeOK, MaybePeer
<1>6. Head(work[p]).from = q /\ Head(work[p]).signal = x /\ x.by \in Nat
  BY <1>2 DEF Handling, Signal
<1>7. Pair(p, q, own, peers[q][p], Coming(p, q), Coming(q, p)) /\ Told(p, q)
  BY <1>3, <1>4 DEF Calm, InPair
<1>8. /\ peers[q][p] # None /\ x.by = peers[q][p].id /\ x.by # 0
      /\ own.pendingIce \subseteq {x.by} /\ Stands(p, q, own, peers[q][p])
  BY <1>3, <1>5, <1>7 DEF Pair, Side, SaidByPeer, Stands
<1>9. PICK own2 : own2 = Described(own, x.by)
  OBVIOUS
<1>10. own2 \in PeerRecord /\ [own2 EXCEPT !.local = "answer"] \in PeerRecord /\ own.id \in Nat
  BY <1>5, <1>6, <1>9 DEF PeerRecord, Described
<1>11. \/ /\ x.kind = "answer" => own.local # "offer" \/ own.remote # 0
          /\ x.kind = "offer" => own.local # "none"
          /\ Done(p) /\ UNCHANGED <<net, peers>>
       \/ /\ x.kind = "answer" /\ own.remote = 0
          /\ PutPeer(p, q, own2) /\ Done(p) /\ UNCHANGED net
       \/ /\ x.kind = "offer"
          /\ PutPeer(p, q, [own2 EXCEPT !.local = "answer"])
          /\ Send(p, <<Answer(q, own.id, x.by)>>) /\ Done(p)
  <2>1. ~Closed(p)
    BY <1>4, <1>5, <1>6 DEF Closed
  <2>2. own.pendingIce \ {x.by} = {}
    BY <1>8
  <2> QED  BY <1>4, <1>5, <1>6, <1>9, <2>1, <2>2 DEF Describe, Throws, Described
<1>12. Done(p)
  BY <1>11
<1>13. Works(p, q, x)
  BY <1>2, <1>12 DEF Works, Done, Handling
<1>14. step'[p] = None /\ \A o \in Participants : o # p => step'[o] = step[o]
  BY <1>0, <1>12 DEF Done, TypeOK
<1>15. OnCall(p)'
  BY <1>14 DEF OnCall
<1>16. PICK y : y = Answer(q, own.id, x.by)
  OBVIOUS
<1>17. y \in Signal /\ y.to = q /\ y.kind = "answer"
  BY <1>6, <1>10, <1>16, SignalTypes DEF Answer
<1>18. Sends(p, y) /\ (x.kind = "offer" /\ net' # net => net' = OnTopic(p, <<y>>))
  <2>1. Send(p, <<y>>) => net' = OnTopic(p, <<y>>)
    BY <1>0, <1>3, SentFaultless
  <2> QED  BY <1>11, <1>16, <2>1 DEF Sends
<1>19. Passes(p, q, x, y)
  BY <1>0, <1>3, <1>13, <1>17, <1>18, ComingChanges
<1>20. /\ Leaves(x, Coming(p, q), Coming(p, q)')
       /\ Coming(q, p) \subseteq Coming(q, p)'
  BY <1>19 DEF Passes
<1>21. \A r \in {own2, [own2 EXCEPT !.local = "answer"]} : PutPeer(p, q, r) =>
         /\ peers'[p][q] = r
         /\ \A o, s \in Participants : o # p \/ s # q => peers'[o][s] = peers[o][s]
  BY <1>0, PutsOne
<1>22. \A o, s \in Participants : o # p \/ s # q => peers'[o][s] = peers[o][s]
  BY <1>11, <1>21
<1>23. /\ own2.local = own.local /\ own2 # None
       /\ [own2 EXCEPT !.local = "answer"].local = "answer"
  BY <1>5, <1>9, <1>10, NoneAssumption DEF PeerRecord, Described
<1>24. Pair(p, q, peers'[p][q], peers[q][p], Coming(p, q)', Coming(q, p)')
  <2>1. ASSUME net' = net
        PROVE  Coming(q, p)' = Coming(q, p)
    <3>1. work'[q] = work[q]
      BY <1>0, <1>3, <1>12 DEF Done, TypeOK
    <3> QED  BY <2>1, <3>1 DEF Coming
  <2>2. \/ Mine(p, q) = "offer" /\ Mine(q, p) = "answer"
        \/ Mine(p, q) = "answer" /\ Mine(q, p) = "offer"
    BY <1>3, OneOffers
  <2>3. CASE /\ x.kind = "answer" => own.local # "offer" \/ own.remote # 0
             /\ x.kind = "offer" => own.local # "none"
             /\ UNCHANGED <<net, peers>>
    <3>1. CASE x.kind = "answer"
      <4>1. Mine(p, q) = "offer" /\ peers[q][p].local = "answer"
        BY <1>3, <1>7, <2>2, <3>1 DEF Pair, Side, SaidByPeer
      <4>2. own.local # "none"
        BY <1>7, <1>8, <4>1 DEF Pair, Side, Stands
      <4>3. own.local = "offer"
        BY <1>8, <4>1, <4>2 DEF Stands
      <4> QED  BY <1>4, <1>5, <1>7, <1>20, <2>1, <2>3, <3>1, <4>3, PairRefuses
    <3>2. CASE x.kind = "offer"
      <4>1. Mine(p, q) = "answer"
        BY <1>3, <1>7, <2>2, <3>2 DEF Pair, Side, SaidByPeer
      <4>2. own.remote # 0
        BY <1>8, <2>3, <3>2, <4>1 DEF Stands
      <4> QED  BY <1>4, <1>5, <1>7, <1>20, <2>1, <2>3, <3>2, <4>2, PairRefuses
    <3> QED  BY <1>5, <3>1, <3>2
  <2>4. CASE x.kind = "answer" /\ own.remote = 0 /\ PutPeer(p, q, own2) /\ UNCHANGED net
    <3>1. peers'[p][q] = own2
      BY <1>21, <2>4
    <3>2. Pair(p, q, own2, peers[q][p], Coming(p, q)', Coming(q, p))
      BY <1>3, <1>5, <1>6, <1>7, <1>9, <1>10, <1>20, <2>4, PairAgrees
    <3> QED  BY <2>1, <2>4, <3>1, <3>2
  <2>5. CASE /\ x.kind = "offer" /\ PutPeer(p, q, [own2 EXCEPT !.local = "answer"])
             /\ Send(p, <<Answer(q, own.id, x.by)>>)
    <3>1. PICK own3 \in PeerRecord : own3 = [own2 EXCEPT !.local = "answer"]
      BY <1>10
    <3>2. peers'[p][q] = own3
      BY <1>21, <2>5, <3>1
    <3>3. Linked(q, p) /\ Joined(q, p)
      BY <1>8 DEF Linked, Calm, Hears
    <3>4. net' = OnTopic(p, <<y>>)
      BY <1>0, <1>3, <1>16, <2>5, SentFaultless
    <3>5. Coming(q, p)' = Coming(q, p) \union {y}
      BY <1>19, <3>3, <3>4 DEF Passes
    <3>6. Pair(p, q, own3, peers[q][p], Coming(p, q)', Coming(q, p)')
      BY <1>3, <1>5, <1>6, <1>7, <1>9, <1>16, <1>20, <2>5, <3>1, <3>5, PairAnswers
    <3> QED  BY <3>2, <3>6
  <2> QED  BY <1>11, <2>3, <2>4, <2>5
<1>25. Told(p, q)'
  <2>1. ASSUME Offered(p, q)
        PROVE  Offered(p, q)'
    <3>1. own.local = "offer"
      BY <1>4, <2>1 DEF Offered
    <3>2. x.kind = "answer"
      BY <1>3, <1>5, <1>7, <1>8, <3>1 DEF Pair, Side, SaidByPeer, Stands
    <3>3. peers'[p][q] = own \/ peers'[p][q] = own2
      BY <1>4, <1>11, <1>21, <3>2
    <3> QED  BY <1>5, <1>23, <3>1, <3>3 DEF Offered
  <2>2. Offered(q, p) => Offered(q, p)'
    BY <1>3, <1>22 DEF Offered
  <2>3. x.kind # "ready"
    BY <1>5
  <2> QED  BY <1>1, <1>3, <1>7, <1>20, <2>1, <2>2, <2>3, ToldStays
<1> QED  BY <1>1, <1>3, <1>13, <1>14, <1>15, <1>17, <1>18, <1>22, <1>24, <1>25, CallGoesOn

LEMMA HandlerCalls ==
  ASSUME MediaInv, Calm, NEW p \in Participants, Handles(p), faults' = faults
  PROVE  Calm'
<1>0. TypeOK
  BY DEF MediaInv
<1>1. \A s \in Participants : s # p => \A t : t = [step EXCEPT ![p] = None] => t[s] = step[s]
  BY <1>0 DEF TypeOK
<1>2. ASSUME NEW q \in Participants, NEW x \in Signal, Handling(p, q, x)
      PROVE  /\ ~Ignored(p, Head(work[p])) /\ x.kind # "left"
             /\ Head(work[p]).from = q /\ Head(work[p]).signal = x
             /\ q \in allowed[p] /\ stream[p] # 0 /\ ~disposed[p]
             /\ peers[p][q] = None => ~(Cardinality(PeersOf(p)) >= MaxPeers)
  <2>1. /\ p # q /\ Joined(p, q) /\ x.kind # "left"
        /\ q \in allowed[p] /\ stream[p] # 0 /\ ~disposed[p]
    BY <1>2, HandlingHeard
  <2>2. Head(work[p]).from = q /\ Head(work[p]).signal = x /\ x.to \in {None, p}
    BY <1>2 DEF Handling
  <2> QED  BY <2>1, <2>2, RoomForOne DEF Ignored
<1>3. \A r, s \in Participants : peers' = peers => Similar(r, s)
  BY DEF Similar
<1>4. ASSUME Done(p)
      PROVE  /\ work' = [work EXCEPT ![p] = Tail(@)] /\ OnCall(p)'
             /\ \A o \in Participants : o # p => step'[o] = step[o]
  <2>1. step'[p] = None /\ \A o \in Participants : o # p => step'[o] = step[o]
    BY <1>0, <1>4 DEF Done, TypeOK
  <2> QED  BY <1>4, <2>1 DEF Done, OnCall
<1>5. CASE IgnoreSignal(p)
  <2>1. /\ work[p] # << >> /\ IsSignal(Head(work[p])) /\ Done(p)
        /\ UNCHANGED <<allowed, lifecycle, chan, net, peers>>
    BY <1>5 DEF IgnoreSignal, Idle, signalling
  <2>2. ASSUME NEW q \in Participants, NEW x \in Signal,
               Head(work[p]) = [from |-> q, signal |-> x], x.to \in {None, p}
        PROVE  FALSE
    <3>1. Handling(p, q, x)
      BY <2>1, <2>2 DEF Handling
    <3> QED  BY <1>2, <1>5, <3>1 DEF IgnoreSignal
  <2> QED  BY <1>3, <1>4, <2>1, <2>2, QuietHandles
<1>6. CASE HandleLeft(p)
  <2>1. PICK q \in Participants, x \in Signal : Head(work[p]) = [from |-> q, signal |-> x]
    BY <1>6, HeadSignal DEF HandleLeft, Idle
  <2>2. x.to \in {None, p} /\ x.kind = "left" /\ work[p] # << >>
    BY <1>6, <2>1 DEF HandleLeft, Idle, Ignored
  <2> QED  BY <1>2, <2>1, <2>2 DEF Handling
<1>7. CASE HandleSignal(p)
  <2>1. PICK q \in Participants, x \in Signal : Head(work[p]) = [from |-> q, signal |-> x]
    BY <1>7, HeadSignal DEF HandleSignal, Idle
  <2>2. /\ Handling(p, q, x) /\ peers[p][q] # None /\ Proceed(p, q, x, peers[p][q])
        /\ UNCHANGED <<allowed, lifecycle, chan>>
    BY <1>7, <2>1 DEF HandleSignal, Idle, Ignored, Handling
  <2>3. peers[p][q] \in PeerRecord
    BY <1>0, <2>2, PeerOf
  <2> QED  BY <2>2, <2>3, ProceedCalls
<1>8. CASE AskServers(p)
  <2>1. PICK q \in Participants, x \in Signal : Head(work[p]) = [from |-> q, signal |-> x]
    BY <1>8, HeadSignal DEF AskServers, Idle
  <2>2. /\ x.to \in {None, p} /\ peers[p][q] = None
        /\ work' = work /\ step' = [step EXCEPT ![p] = [at |-> "servers", id |-> 0]]
        /\ UNCHANGED <<allowed, lifecycle, chan, net, peers>>
    BY <1>8, <2>1 DEF AskServers, Ignored, Busy, signalling
  <2>3. step'[p] = [at |-> "servers", id |-> 0]
        /\ \A o \in Participants : o # p => step'[o] = step[o]
    BY <1>0, <2>2 DEF TypeOK
  <2>4. StillSo(p, q, x, [at |-> "servers", id |-> 0], peers[p][q])
    BY <2>2 DEF StillSo
  <2>5. OnCall(p)'
    BY <2>1, <2>2, <2>3, <2>4 DEF OnCall
  <2> QED  BY <1>3, <2>2, <2>3, <2>5, QuietHandles
<1>9. CASE UseServers(p)
  <2>1. PICK q \in Participants, x \in Signal :
          Handling(p, q, x) /\ StillSo(p, q, x, step[p], peers[p][q])
    BY <1>9, AwaitedHead DEF UseServers, At
  <2>2. peers[p][q] = None
    BY <1>9, <2>1 DEF UseServers, At, StillSo
  <2>3. NewPeer(p) \in PeerRecord /\ IsFresh(NewPeer(p))
    <3>1. made[p] \in Nat
      BY <1>0 DEF TypeOK
    <3>2. made[p] + 1 # 0
      BY <3>1
    <3>3. IsFresh(NewPeer(p))
      BY <3>2 DEF NewPeer, IsFresh
    <3> QED  BY <1>0, <3>3, NewPeerType
  <2>4. /\ UNCHANGED <<allowed, lifecycle, chan>>
        /\ \/ Proceed(p, q, x, NewPeer(p))
           \/ Busy(p, [at |-> "detaching", peer |-> NewPeer(p)]) /\ UNCHANGED <<net, peers>>
    BY <1>2, <1>9, <2>1 DEF UseServers
  <2>5. CASE Proceed(p, q, x, NewPeer(p))
    BY <2>1, <2>2, <2>3, <2>4, <2>5, ProceedCalls
  <2>6. CASE Busy(p, [at |-> "detaching", peer |-> NewPeer(p)]) /\ UNCHANGED <<net, peers>>
    <3>1. PICK r : r = NewPeer(p)
      OBVIOUS
    <3>2. work' = work /\ step' = [step EXCEPT ![p] = [at |-> "detaching", peer |-> r]]
      BY <2>6, <3>1 DEF Busy
    <3>3. step'[p] = [at |-> "detaching", peer |-> r]
          /\ \A o \in Participants : o # p => step'[o] = step[o]
      BY <1>0, <3>2 DEF TypeOK
    <3>4. StillSo(p, q, x, [at |-> "detaching", peer |-> r], peers[p][q])
      BY <2>1, <2>2, <2>3, <3>1 DEF StillSo, Handling
    <3>5. Head(work[p]).from = q /\ Head(work[p]).signal = x
      BY <2>1 DEF Handling
    <3>6. OnCall(p)'
      BY <2>6, <3>2, <3>3, <3>4, <3>5 DEF OnCall
    <3> QED  BY <1>3, <2>4, <2>6, <3>2, <3>3, <3>6, QuietHandles
  <2> QED  BY <2>4, <2>5, <2>6
<1>10. CASE Detached(p)
  <2>1. PICK q \in Participants, x \in Signal :
          Handling(p, q, x) /\ StillSo(p, q, x, step[p], peers[p][q])
    BY <1>10, AwaitedHead DEF Detached, At
  <2>2. step[p].at = "detaching" /\ step[p] # None
    BY <1>10 DEF Detached, At
  <2>3. peers[p][q] = None /\ IsFresh(step[p].peer)
    BY <2>1, <2>2 DEF StillSo
  <2>4. step[p].peer \in PeerRecord
    BY <1>0, <2>2 DEF TypeOK, Step
  <2>5. ~Fault
    BY <1>0, NoFault
  <2>6. UNCHANGED <<allowed, lifecycle, chan>> /\ Proceed(p, q, x, step[p].peer)
    BY <1>10, <2>1, <2>5 DEF Detached, Handling
  <2> QED  BY <2>1, <2>3, <2>4, <2>6, ProceedCalls
<1>11. CASE SwitchSenders(p)
  <2>1. /\ work[p] # << >> /\ ~IsSignal(Head(work[p])) /\ Done(p)
        /\ UNCHANGED <<allowed, lifecycle, chan, net>>
    BY <1>11 DEF SwitchSenders, Idle, signalling
  <2>2. \A q \in Participants, x \in Signal : Head(work[p]) # [from |-> q, signal |-> x]
    BY <2>1 DEF IsSignal
  <2>3. Head(work[p]).on \in BOOLEAN
    BY <1>0, <2>1, <2>2, HeadType DEF Work
  <2>4. ASSUME NEW r \in Participants, NEW s \in Participants
        PROVE  Similar(r, s) /\ (r # p => peers'[r][s] = peers[r][s])
    <3>1. CASE peers' = peers
      BY <3>1 DEF Similar
    <3>2. CASE peers' # peers
      <4>1. ~Fault
        BY <1>0, NoFault
      <4>2. peers' = [peers EXCEPT ![p] = [q \in Participants |->
                       IF peers[p][q] = None THEN None
                       ELSE [peers[p][q] EXCEPT !.video = Head(work[p]).on]]]
        BY <1>11, <3>2, <4>1 DEF SwitchSenders
      <4>3. r # p => peers'[r][s] = peers[r][s]
        BY <1>0, <4>2 DEF TypeOK
      <4>4. ASSUME r = p
            PROVE  peers'[r][s] = IF peers[r][s] = None THEN None
                                  ELSE [peers[r][s] EXCEPT !.video = Head(work[p]).on]
        BY <1>0, <4>2, <4>4 DEF TypeOK
      <4>5. ASSUME peers[r][s] # None
            PROVE  /\ [peers[r][s] EXCEPT !.video = Head(work[p]).on] \in PeerRecord
                   /\ SameFace(peers[r][s], [peers[r][s] EXCEPT !.video = Head(work[p]).on])
        <5>1. peers[r][s] \in PeerRecord
          BY <1>0, <4>5, PeerOf
        <5> QED  BY <2>3, <5>1 DEF PeerRecord, SameFace
      <4> QED  BY <4>3, <4>4, <4>5 DEF Similar
    <3> QED  BY <3>1, <3>2
  <2> QED  BY <1>4, <2>1, <2>2, <2>4, QuietHandles
<1> QED
  BY <1>5, <1>6, <1>7, <1>8, <1>9, <1>10, <1>11, OfferCalls, DescribeCalls DEF Handles

-----------------------------------------------------------------------------
(* Connections.                                                            *)

LEMMA StillOnCall ==
  ASSUME MediaInv, NEW o \in Participants, OnCall(o), UNCHANGED <<work[o], step[o]>>,
         \A s \in Participants :
           \/ peers'[o][s] = peers[o][s]
           \/ /\ peers[o][s] # None /\ peers'[o][s] # None
              /\ peers'[o][s].id = peers[o][s].id /\ peers'[o][s].local = peers[o][s].local
  PROVE  OnCall(o)'
<1> SUFFICES ASSUME step[o] # None
             PROVE  StillSo(o, Head(work[o]).from, Head(work[o]).signal, step[o],
                            peers'[o][Head(work[o]).from])
  BY DEF OnCall
<1>1. Head(work[o]).from \in Participants
  BY HandledSignal DEF MediaInv, Controller, Underway
<1>2. StillSo(o, Head(work[o]).from, Head(work[o]).signal, step[o],
              peers[o][Head(work[o]).from])
  BY DEF OnCall
<1> QED  BY <1>1, <1>2 DEF StillSo

LEMMA FindingCalls ==
  ASSUME MediaInv, Calm, NEW p \in Participants, NEW q \in Participants,
         CandidateFound(p, q), faults' = faults
  PROVE  Calm'
<1>0. TypeOK
  BY DEF MediaInv
<1>1. PICK own : own = peers[p][q]
  OBVIOUS
<1>2. own # None /\ own.local # "none" /\ own \in PeerRecord
  BY <1>0, <1>1, PeerOf DEF CandidateFound, MayFind
<1>3. p # q /\ Joined(p, q) /\ chan[p][p] # "none"
  <2>1. Linked(p, q)
    BY <1>1, <1>2 DEF Linked
  <2> QED  BY <2>1 DEF Calm, Hears, Present, Joined
<1>4. PICK own2 : own2 = [own EXCEPT !.sent = TRUE]
  OBVIOUS
<1>5. /\ own2 \in PeerRecord /\ own2 # None /\ own2.id = own.id /\ own2.local = own.local
      /\ own.id \in Nat
  BY <1>2, <1>4, NoneAssumption DEF PeerRecord
<1>6. PICK y : y = Candidate(q, own.id)
  OBVIOUS
<1>7. y \in Signal /\ y.to = q
  BY <1>5, <1>6, SignalTypes DEF Candidate
<1>8. /\ PutPeer(p, q, own2) /\ Send(p, <<y>>)
      /\ UNCHANGED <<allowed, lifecycle, chan, work, step>>
  BY <1>1, <1>4, <1>6 DEF CandidateFound
<1>9. net' = OnTopic(p, <<y>>)
  BY <1>0, <1>3, <1>8, SentFaultless
<1>10. Works(p, q, Left) /\ Sends(p, y)
  BY <1>8, <1>9 DEF Works, Sends
<1>11. Passes(p, q, Left, y)
  BY <1>0, <1>3, <1>7, <1>10, ComingChanges
<1>12. /\ Coming(p, q)' = Coming(p, q)
       /\ Leaves(Left, Coming(p, q), Coming(p, q)')
       /\ Coming(q, p)' = IF Joined(q, p) THEN Coming(q, p) \union {y} ELSE Coming(q, p)
  BY <1>8, <1>9, <1>11 DEF Passes
<1>13. ~Joined(q, p) => Coming(q, p) = {} /\ peers[q][p] = None
  <2> SUFFICES ASSUME ~Joined(q, p)
               PROVE  Coming(q, p) = {} /\ peers[q][p] = None
    OBVIOUS
  <2>1. ~Linked(q, p)
    BY DEF Calm, Hears
  <2>2. net[p][q] = << >> /\ peers[q][p] = None
    BY <2>1 DEF Linked
  <2>3. \A x : ~Among([from |-> p, signal |-> x], work[q])
    BY <2>1 DEF Linked, Among, IsSignal
  <2>4. \A x : ~Among(x, net[p][q])
    BY <2>2, AmongFew
  <2> QED  BY <2>2, <2>3, <2>4 DEF Coming
<1>14. peers'[p][q] = own2 /\ \A o, s \in Participants : o # p \/ s # q => peers'[o][s] = peers[o][s]
  BY <1>0, <1>8, PutsOne
<1>15. Pair(p, q, peers'[p][q], peers[q][p], Coming(p, q)', Coming(q, p)')
  <2>1. peers[q][p] \in MaybePeer
    BY <1>0 DEF TypeOK, MaybePeer
  <2>2. Pair(p, q, own, peers[q][p], Coming(p, q), Coming(q, p))
    BY <1>1, <1>3 DEF Calm, InPair
  <2>3. \/ Coming(q, p)' = Coming(q, p) \union {Candidate(q, own.id)}
        \/ Coming(q, p)' = Coming(q, p) /\ Coming(q, p) = {} /\ peers[q][p] = None
    BY <1>6, <1>12, <1>13
  <2>4. Pair(p, q, own2, peers[q][p], Coming(p, q), Coming(q, p)')
    BY <1>2, <1>3, <1>4, <1>5, <2>1, <2>2, <2>3, PairFinds
  <2> QED  BY <1>12, <1>14, <2>4
<1>16. Told(p, q)'
  <2>1. Told(p, q)
    BY <1>3 DEF Calm
  <2>2. Offered(p, q) => Offered(p, q)'
    BY <1>1, <1>5, <1>14 DEF Offered
  <2>3. Offered(q, p) => Offered(q, p)'
    BY <1>3, <1>14 DEF Offered
  <2>4. Left.kind # "ready" /\ Coming(q, p) \subseteq Coming(q, p)'
    BY <1>12 DEF Left
  <2> QED  BY <1>3, <1>8, <1>12, <2>1, <2>2, <2>3, <2>4, ToldStays
<1>17. OnCall(p)'
  BY <1>1, <1>2, <1>5, <1>8, <1>14, StillOnCall DEF Calm
<1> QED  BY <1>3, <1>7, <1>8, <1>10, <1>14, <1>15, <1>16, <1>17, CallGoesOn

LEMMA ConnectingCalls ==
  ASSUME MediaInv, Calm, NEW p \in Participants, NEW q \in Participants, Connect(p, q)
  PROVE  Calm'
<1>0. TypeOK
  BY DEF MediaInv
<1>1. peers[p][q] # None /\ peers[p][q] \in PeerRecord
  BY <1>0, PeerOf DEF Connect, MayConnect
<1>2. /\ PutPeer(p, q, [peers[p][q] EXCEPT !.connected = TRUE])
      /\ UNCHANGED <<allowed, lifecycle, chan, net, work, step>>
  BY DEF Connect, signalling
<1>3. /\ peers'[p][q] = [peers[p][q] EXCEPT !.connected = TRUE]
      /\ \A o, s \in Participants : o # p \/ s # q => peers'[o][s] = peers[o][s]
  BY <1>0, <1>2, PutsOne
<1>4. peers'[p][q] \in PeerRecord /\ SameFace(peers[p][q], peers'[p][q])
  BY <1>1, <1>3 DEF PeerRecord, SameFace
<1>5. \A r, s \in Participants : Similar(r, s) /\ (r # p => peers'[r][s] = peers[r][s])
  BY <1>1, <1>3, <1>4 DEF Similar
<1>6. OnCall(p)'
  BY <1>1, <1>2, <1>3, <1>4, NoneAssumption, StillOnCall DEF Calm, SameFace
<1> QED  BY <1>2, <1>5, <1>6, QuietHandles

\* Both ends stay and talk to one another.
LEMMA NoConnectionFails ==
  ASSUME MediaInv, Calm, NEW p \in Participants, NEW q \in Participants,
         ConnectionFails(p, q), faults' = faults
  PROVE  FALSE
<1>0. TypeOK
  BY DEF MediaInv
<1>1. ~Fault
  BY <1>0, NoFault
<1>2. /\ peers[p][q] # None /\ peers[p][q].remote # 0
      /\ Partner(p, q) => peers[q][p].remote \notin {0, peers[p][q].id}
  BY <1>1 DEF ConnectionFails
<1>3. p # q
  BY <1>2 DEF Calm, Hears, Linked
<1>4. /\ Stands(p, q, peers[p][q], peers[q][p])
      /\ peers[q][p] # None => Stands(q, p, peers[q][p], peers[p][q])
  BY <1>2, <1>3 DEF Calm, InPair, Pair, Side
<1> QED  BY <1>2, <1>4 DEF Stands, Partner

-----------------------------------------------------------------------------
(* Starts, rosters, the camera and deliveries.                             *)

\* Nobody hears or forgets anything.
LEMMA CalmStays ==
  ASSUME TypeOK, Calm, peers' = peers,
         \A r \in Participants : Present(r)' /\ OnCall(r)',
         \A r, s \in Participants :
           /\ Joined(r, s)' = Joined(r, s) /\ chan'[r][s] # "lost"
           /\ Linked(r, s)' => Linked(r, s)
           /\ r # s => Coming(r, s)' = Coming(r, s)
  PROVE  Calm'
<1>1. ASSUME NEW r \in Participants, NEW s \in Participants
      PROVE  Hears(r, s)'
  BY DEF Calm, Hears
<1>2. ASSUME NEW r \in Participants, NEW s \in Participants, r # s
      PROVE  InPair(r, s)' /\ Told(r, s)'
  BY <1>2, QuietPairs DEF Similar
<1> QED  BY <1>1, <1>2 DEF Calm

LEMMA QuietQueues ==
  ASSUME MediaInv, Calm, UNCHANGED <<net, work, step, peers>>
  PROVE  \A r, s \in Participants : /\ OnCall(r)' /\ (Linked(r, s)' => Linked(r, s))
                                    /\ Coming(r, s)' = Coming(r, s)
<1>1. \A r \in Participants : OnCall(r)'
  BY OthersOnCall DEF Calm
<1>2. \A r, s \in Participants : Linked(r, s)' => Linked(r, s)
  BY DEF Linked
<1>3. \A r, s \in Participants : Coming(r, s)' = Coming(r, s)
  BY DEF Coming
<1> QED  BY <1>1, <1>2, <1>3

\* Topics that p does not hear are empty.
LEMMA NothingDropped ==
  ASSUME TypeOK, Calm, NEW p \in Participants, NEW S, allowed[p] \subseteq S
  PROVE  Dropped(net, p, S) = net
<1>1. ASSUME NEW q \in Participants, q \notin S
      PROVE  [net[q] EXCEPT ![p] = << >>] = net[q]
  <2>1. ~Joined(p, q)
    BY <1>1 DEF Calm, Present, Joined
  <2>2. net[q][p] = << >>
    BY <2>1 DEF Calm, Hears, Linked
  <2>3. net[q] \in [Participants -> Seq(Signal)]
    BY DEF TypeOK
  <2> QED  BY <2>2, <2>3
<1>2. net = [q \in Participants |-> net[q]]
  BY DEF TypeOK
<1> QED  BY <1>1, <1>2 DEF Dropped

\* Channels open, and those that are open stay.
LEMMA SyncJoinsNothing ==
  ASSUME TypeOK, Calm, NEW p \in Participants, NEW S \in SUBSET Participants,
         allowed[p] \subseteq S, SyncChannels(p, S)
  PROVE  /\ net' = net
         /\ \A r, s \in Participants : Joined(r, s)' = Joined(r, s) /\ chan'[r][s] # "lost"
         /\ \A r, s \in Participants : r # p => chan'[r][s] = chan[r][s]
         /\ \A q \in Participants : chan'[p][q] # "none" <=> q \in S
<1>1. net' = net
  BY NothingDropped DEF SyncChannels
<1>2. ASSUME NEW r \in Participants, NEW s \in Participants, r # p
      PROVE  chan'[r][s] = chan[r][s]
  BY <1>2 DEF SyncChannels, TypeOK
<1>3. ASSUME NEW q \in Participants
      PROVE  chan'[p][q] = IF q \notin S THEN "none"
                           ELSE IF chan[p][q] = "none" THEN "joining" ELSE chan[p][q]
  BY DEF SyncChannels, TypeOK
<1>4. \A r, s \in Participants : chan[r][s] # "lost"
  BY DEF Calm, Hears
<1>5. \A q \in Participants : Joined(p, q) => q \in S
  BY DEF Calm, Present, Joined
<1>6. \A r, s \in Participants : Joined(r, s)' = Joined(r, s) /\ chan'[r][s] # "lost"
  BY <1>2, <1>3, <1>4, <1>5 DEF Joined
<1> QED  BY <1>1, <1>2, <1>3, <1>6

LEMMA StartCalls ==
  ASSUME MediaInv, Calm, NEW p \in Participants, Starts(p), faults' = faults
  PROVE  Calm'
<1>0. TypeOK
  BY DEF MediaInv
<1>1. ~Fault
  BY <1>0, NoFault
<1>2. /\ starting[p] # None => starting[p].life = 0 /\ starting[p].at # "cleanup"
      /\ starting[p] # None \/ stream[p] # 0 => ~OverCapacity(allowed[p])
      /\ life[p] = 0 /\ ~disposed[p] /\ p \in allowed[p]
      /\ allowed[p] \in SUBSET Participants
  BY <1>0 DEF Calm, Present, TypeOK
<1>3. starting[p] # None => ~Superseded(p)
  BY <1>2 DEF Superseded
<1>4. /\ UNCHANGED <<allowed, life, disposed, work, step, peers>>
      /\ \A r \in Participants : r # p => starting'[r] = starting[r] /\ stream'[r] = stream[r]
  <2>1. Start(p) \/ ServersResolved(p) \/ MediaGranted(p) \/ Authorized(p)
    BY <1>1, <1>2 DEF Starts, MediaDenied, AuthFails, CleanedUp, Awaits
  <2>2. UNCHANGED <<allowed, life, disposed, work, step, peers>>
    BY <2>1 DEF Start, ServersResolved, MediaGranted, Authorized, negotiation
  <2>3. ASSUME NEW r \in Participants, r # p
        PROVE  starting'[r] = starting[r] /\ stream'[r] = stream[r]
    <3>1. Kept(r)
      BY <1>0, <2>3, OthersAreKept DEF MediaInv, Controller
    <3> QED  BY <3>1 DEF Kept
  <2> QED  BY <2>2, <2>3
<1>5. /\ net' = net
      /\ \A r, s \in Participants : Joined(r, s)' = Joined(r, s) /\ chan'[r][s] # "lost"
      /\ \A r, s \in Participants : r # p => chan'[r][s] = chan[r][s]
      /\ \/ UNCHANGED <<chan>>
         \/ stream'[p] # 0 /\ \A q \in Participants : chan'[p][q] # "none" <=> q \in allowed[p]
  <2>1. ASSUME UNCHANGED signalling
        PROVE  /\ chan' = chan /\ net' = net
               /\ \A r, s \in Participants : Joined(r, s)' = Joined(r, s) /\ chan'[r][s] # "lost"
    BY <2>1 DEF signalling, Joined, Calm, Hears
  <2>2. CASE Start(p) \/ ServersResolved(p) \/ MediaGranted(p)
    <3>1. UNCHANGED signalling
      BY <2>2 DEF Start, ServersResolved, MediaGranted
    <3> QED  BY <2>1, <3>1
  <2>3. CASE Authorized(p)
    <3>1. \/ UNCHANGED signalling
          \/ stream[p] # 0 /\ stream' = stream /\ SyncChannels(p, allowed[p])
      BY <2>3 DEF Authorized
    <3>2. CASE stream[p] # 0 /\ stream' = stream /\ SyncChannels(p, allowed[p])
      BY <1>0, <1>2, <3>2, SyncJoinsNothing
    <3> QED  BY <2>1, <3>1, <3>2
  <2> QED  BY <1>1, <1>2, <2>2, <2>3 DEF Starts, MediaDenied, AuthFails, CleanedUp, Awaits
<1>6. /\ starting'[p] # None => starting'[p].life = 0 /\ starting'[p].at # "cleanup"
      /\ starting'[p] # None \/ stream'[p] # 0 => ~OverCapacity(allowed[p])
      /\ stream[p] # 0 => stream'[p] # 0
  <2>1. CASE Start(p)
    BY <1>0, <1>2, <2>1 DEF Start, TypeOK
  <2>2. CASE ServersResolved(p)
    <3>1. starting[p] # None /\ stream' = stream
          /\ starting' = [starting EXCEPT ![p].at = "permission"]
      BY <1>3, <2>2 DEF ServersResolved, Awaits
    <3>2. starting[p] \in Starting
      BY <1>0, <3>1 DEF TypeOK
    <3> QED  BY <1>0, <1>2, <3>1, <3>2 DEF TypeOK, Starting
  <2>3. CASE MediaGranted(p)
    <3>1. starting[p] # None /\ stream' = [stream EXCEPT ![p] = acquired[p] + 1]
          /\ starting' = [starting EXCEPT ![p].at = "auth"]
      BY <1>3, <2>3 DEF MediaGranted, Awaits
    <3>2. starting[p] \in Starting /\ acquired[p] \in Nat
      BY <1>0, <3>1 DEF TypeOK
    <3> QED  BY <1>0, <1>2, <3>1, <3>2 DEF TypeOK, Starting
  <2>4. CASE Authorized(p)
    BY <1>0, <1>2, <2>4 DEF Authorized, TypeOK
  <2> QED  BY <1>1, <1>2, <2>1, <2>2, <2>3, <2>4 DEF Starts, MediaDenied, AuthFails, CleanedUp, Awaits
<1>7. ASSUME NEW r \in Participants
      PROVE  Present(r)'
  <2>1. Present(r)
    BY DEF Calm
  <2>2. CASE r # p
    BY <1>4, <1>5, <2>1, <2>2 DEF Present, OverCapacity
  <2>3. CASE r = p
    <3>1. \A q \in Participants :
            chan'[p][q] # "none" => q \in allowed[p] /\ stream'[p] # 0 /\ chan'[p][p] # "none"
      <4>1. CASE UNCHANGED chan
        BY <1>6, <2>1, <2>3, <4>1 DEF Present
      <4> QED  BY <1>2, <1>5, <4>1
    <3> QED  BY <1>2, <1>4, <1>6, <2>3, <3>1 DEF Present, OverCapacity
  <2> QED  BY <2>2, <2>3
<1> QED  BY <1>0, <1>4, <1>5, <1>7, QuietQueues, CalmStays

LEMMA RosterCalls ==
  ASSUME MediaInv, Calm, NEW p \in Participants, NEW S \in SUBSET Participants,
         RosterChanges(p, S), events' = events
  PROVE  Calm'
<1>0. TypeOK
  BY DEF MediaInv
<1>1. allowed[p] \subseteq S /\ p \in S /\ ~OverCapacity(S)
  <2>1. events \in Nat
    BY <1>0 DEF TypeOK
  <2> QED  BY <2>1 DEF RosterChanges, Event
<1>2. UNCHANGED <<lifecycle, work, step>> /\ allowed' = [allowed EXCEPT ![p] = S]
  BY DEF RosterChanges
<1>3. allowed'[p] = S /\ \A r \in Participants : r # p => allowed'[r] = allowed[r]
  BY <1>0, <1>2 DEF TypeOK
<1>4. peers' = peers
  <2>1. \A q \in Participants : q \notin S => peers[p][q] = None
    BY <1>1 DEF Calm, Hears, Linked, Present, Joined
  <2>2. [q \in Participants |-> IF q \in S THEN peers[p][q] ELSE None] = peers[p]
    <3>1. peers[p] = [q \in Participants |-> peers[p][q]]
      BY <1>0 DEF TypeOK
    <3> QED  BY <2>1, <3>1
  <2>3. peers' = [peers EXCEPT ![p] = peers[p]]
    BY <2>2 DEF RosterChanges
  <2> QED  BY <1>0, <2>3 DEF TypeOK
<1>5. /\ net' = net
      /\ \A r, s \in Participants : Joined(r, s)' = Joined(r, s) /\ chan'[r][s] # "lost"
      /\ \A r, s \in Participants : r # p => chan'[r][s] = chan[r][s]
      /\ \/ UNCHANGED <<chan>>
         \/ stream[p] # 0 /\ \A q \in Participants : chan'[p][q] # "none" <=> q \in S
  <2>1. CASE UNCHANGED signalling
    BY <2>1 DEF signalling, Joined, Calm, Hears
  <2>2. CASE stream[p] # 0 /\ SyncChannels(p, S)
    BY <1>0, <1>1, <2>2, SyncJoinsNothing
  <2> QED  BY <2>1, <2>2 DEF RosterChanges
<1>6. ASSUME NEW r \in Participants
      PROVE  Present(r)'
  <2>1. Present(r)
    BY DEF Calm
  <2>2. CASE r # p
    BY <1>2, <1>3, <1>5, <2>1, <2>2 DEF Present, OverCapacity, lifecycle
  <2>3. CASE r = p
    <3>1. \A q \in Participants :
            chan'[p][q] # "none" => q \in S /\ stream[p] # 0 /\ chan'[p][p] # "none"
      <4>1. CASE UNCHANGED chan
        BY <1>1, <2>1, <2>3, <4>1 DEF Present
      <4> QED  BY <1>1, <1>5, <4>1
    <3> QED  BY <1>1, <1>2, <1>3, <2>1, <2>3, <3>1 DEF Present, OverCapacity, lifecycle
  <2> QED  BY <2>2, <2>3
<1> QED  BY <1>0, <1>2, <1>4, <1>5, <1>6, QuietQueues, CalmStays

\* One more item in p's queue.
LEMMA QueueGrows ==
  ASSUME MediaInv, Calm, NEW p \in Participants, NEW w \in Work,
         work' = [work EXCEPT ![p] = Append(@, w)], UNCHANGED <<step, peers>>
  PROVE  \A r \in Participants :
           /\ OnCall(r)'
           /\ \A x : Among(x, work'[r]) <=> Among(x, work[r]) \/ (r = p /\ x = w)
<1>0. TypeOK
  BY DEF MediaInv
<1>1. work[p] \in Seq(Work) /\ work'[p] = Append(work[p], w)
  BY <1>0 DEF TypeOK
<1>2. work[p] # << >> => Head(work'[p]) = Head(work[p])
  BY <1>1
<1>3. \A r \in Participants : r # p => work'[r] = work[r]
  BY <1>0 DEF TypeOK
<1>4. \A x : Among(x, work'[p]) <=> Among(x, work[p]) \/ x = w
  BY <1>1, AmongAppended
<1>5. OnCall(p)'
  <2>1. step[p] # None => work[p] # << >>
    BY DEF MediaInv, Controller, Underway
  <2> QED  BY <1>2, <2>1 DEF Calm, OnCall
<1>6. \A r \in Participants : r # p => OnCall(r)'
  BY <1>3, OthersOnCall DEF Calm
<1> QED  BY <1>3, <1>4, <1>5, <1>6

LEMMA CameraCalls ==
  ASSUME MediaInv, Calm, NEW p \in Participants, SetCamera(p)
  PROVE  Calm'
<1>0. TypeOK
  BY DEF MediaInv
<1>1. /\ UNCHANGED <<allowed, life, starting, stream, disposed, chan, net, step, peers>>
      /\ work' = [work EXCEPT ![p] = Append(@, [on |-> ~camera[p], of |-> stream[p]])]
  BY DEF SetCamera, signalling
<1>2. PICK w \in Work : ~IsSignal(w) /\ work' = [work EXCEPT ![p] = Append(@, w)]
  <2>1. camera[p] \in BOOLEAN /\ stream[p] \in Nat
    BY <1>0 DEF TypeOK
  <2>2. [on |-> ~camera[p], of |-> stream[p]] \in Work
    BY <2>1 DEF Work
  <2>3. ~IsSignal([on |-> ~camera[p], of |-> stream[p]])
    BY DEF IsSignal
  <2> QED  BY <1>1, <2>2, <2>3
<1>3. \A r \in Participants :
        /\ OnCall(r)'
        /\ \A x : Among(x, work'[r]) <=> Among(x, work[r]) \/ (r = p /\ x = w)
  BY <1>1, <1>2, QueueGrows
<1>4. ASSUME NEW r \in Participants, NEW s \in Participants
      PROVE  Linked(r, s)' => Linked(r, s)
  <2>1. ASSUME NEW n \in 1 .. Len(work'[r]), IsSignal(work'[r][n]), work'[r][n].from = s
        PROVE  \E m \in 1 .. Len(work[r]) : IsSignal(work[r][m]) /\ work[r][m].from = s
    <3>1. Among(work'[r][n], work'[r])
      BY DEF Among
    <3>2. Among(work'[r][n], work[r])
      BY <1>2, <1>3, <2>1, <3>1
    <3> QED  BY <2>1, <3>2 DEF Among
  <2> QED  BY <1>1, <2>1 DEF Linked
<1>5. ASSUME NEW r \in Participants, NEW s \in Participants
      PROVE  Coming(r, s)' = Coming(r, s)
  <2>1. \A x : [from |-> s, signal |-> x] # w
    BY <1>2 DEF IsSignal
  <2>2. \A x : Among([from |-> s, signal |-> x], work'[r])
               <=> Among([from |-> s, signal |-> x], work[r])
    BY <1>3, <2>1
  <2> QED  BY <1>1, <2>2 DEF Coming
<1>6. \A r \in Participants : Present(r)'
  BY <1>1 DEF Calm, Present, OverCapacity
<1>7. \A r, s \in Participants : Joined(r, s)' = Joined(r, s) /\ chan'[r][s] # "lost"
  BY <1>1 DEF Joined, Calm, Hears
<1> QED  BY <1>0, <1>1, <1>3, <1>4, <1>5, <1>6, <1>7, CalmStays

LEMMA DeliveryCalls ==
  ASSUME MediaInv, Calm, NEW p \in Participants, NEW q \in Participants, Deliver(q, p)
  PROVE  Calm'
<1>0. TypeOK
  BY DEF MediaInv
<1>1. /\ UNCHANGED <<allowed, lifecycle, chan, step, peers>> /\ net[q][p] # << >>
      /\ net' = [net EXCEPT ![q][p] = Tail(@)]
      /\ work' = [work EXCEPT ![p] = Append(@, [from |-> q, signal |-> Head(net[q][p])])]
  BY DEF Deliver
<1>2. net[q][p] \in Seq(Signal) /\ Linked(p, q)
  BY <1>0, <1>1 DEF TypeOK, Linked
<1>3. PICK y \in Signal : y = Head(net[q][p])
  BY <1>1, <1>2
<1>4. PICK w \in Work : w = [from |-> q, signal |-> y]
  BY DEF Work
<1>5. \A r \in Participants :
        /\ OnCall(r)'
        /\ \A x : Among(x, work'[r]) <=> Among(x, work[r]) \/ (r = p /\ x = w)
  <2>1. work' = [work EXCEPT ![p] = Append(@, w)]
    BY <1>1, <1>3, <1>4
  <2> QED  BY <1>1, <2>1, QueueGrows
<1>6. /\ net'[q][p] = Tail(net[q][p])
      /\ \A r, s \in Participants : r # p \/ s # q => net'[s][r] = net[s][r]
  BY <1>0, <1>1 DEF TypeOK
<1>7. ASSUME NEW r \in Participants, NEW s \in Participants
      PROVE  Linked(r, s)' => Linked(r, s)
  <2>1. CASE r = p /\ s = q
    BY <1>2, <2>1
  <2>2. CASE r # p \/ s # q
    <3>1. ASSUME NEW n \in 1 .. Len(work'[r]), IsSignal(work'[r][n]), work'[r][n].from = s
          PROVE  \E m \in 1 .. Len(work[r]) : IsSignal(work[r][m]) /\ work[r][m].from = s
      <4>1. Among(work'[r][n], work'[r])
        BY DEF Among
      <4>2. Among(work'[r][n], work[r])
        BY <1>4, <1>5, <2>2, <3>1, <4>1
      <4> QED  BY <3>1, <4>2 DEF Among
    <3> QED  BY <1>1, <1>6, <2>2, <3>1 DEF Linked
  <2> QED  BY <2>1, <2>2
<1>8. ASSUME NEW r \in Participants, NEW s \in Participants
      PROVE  Coming(r, s)' = Coming(r, s)
  <2>1. CASE r = p /\ s = q
    <3>1. \A x : /\ Among(x, net'[q][p]) => Among(x, net[q][p])
                 /\ Among(x, net[q][p]) => x = y \/ Among(x, net'[q][p])
                 /\ Among(y, net[q][p])
      BY <1>1, <1>2, <1>3, <1>6, AmongTail
    <3>2. \A x : Among([from |-> q, signal |-> x], work'[p])
                 <=> Among([from |-> q, signal |-> x], work[p]) \/ x = y
      BY <1>4, <1>5
    <3> QED  BY <2>1, <3>1, <3>2 DEF Coming
  <2>2. CASE r # p \/ s # q
    <3>1. \A x : Among([from |-> s, signal |-> x], work'[r])
                 <=> Among([from |-> s, signal |-> x], work[r])
      BY <1>4, <1>5, <2>2
    <3> QED  BY <1>6, <2>2, <3>1 DEF Coming
  <2> QED  BY <2>1, <2>2
<1>9. \A r \in Participants : Present(r)'
  BY <1>1 DEF Calm, Present, OverCapacity, lifecycle
<1>10. \A r, s \in Participants : Joined(r, s)' = Joined(r, s) /\ chan'[r][s] # "lost"
  BY <1>1 DEF Joined, Calm, Hears
<1> QED  BY <1>0, <1>1, <1>5, <1>7, <1>8, <1>9, <1>10, CalmStays

\* What p's own channel says to s when it joins.
OwnReady(p, s) == IF Joined(p, s) THEN <<Ready(None), Ready(s)>> ELSE <<Ready(None)>>

LEMMA OwnReadiness ==
  ASSUME NEW p \in Participants, NEW s \in Participants
  PROVE  /\ OwnReady(p, s) \in Seq(Signal) /\ Among(Ready(None), OwnReady(p, s))
         /\ \A x : Among(x, OwnReady(p, s)) => x.kind = "ready"
<1>1. Ready(None) \in Signal /\ Ready(s) \in Signal
  BY SignalTypes
<1>2. Ready(None).kind = "ready" /\ Ready(s).kind = "ready"
  BY DEF Ready
<1>3. CASE Joined(p, s)
  <2>1. OwnReady(p, s) = <<Ready(None), Ready(s)>>
    BY <1>3 DEF OwnReady
  <2>2. ASSUME NEW x
        PROVE  Among(x, OwnReady(p, s)) <=> x = Ready(None) \/ x = Ready(s)
    <3>1. Among(x, <<Ready(None), Ready(s)>>) <=> x = Ready(None) \/ x = Ready(s)
      BY AmongTwo
    <3> QED  BY <2>1, <3>1
  <2> QED  BY <1>1, <1>2, <2>1, <2>2
<1>4. CASE ~Joined(p, s)
  <2>1. OwnReady(p, s) = <<Ready(None)>>
    BY <1>4 DEF OwnReady
  <2>2. ASSUME NEW x
        PROVE  Among(x, OwnReady(p, s)) <=> x = Ready(None)
    <3>1. Among(x, <<Ready(None)>>) <=> x = Ready(None)
      BY AmongFew, Zenon
    <3> QED  BY <2>1, <3>1
  <2> QED  BY <1>1, <1>2, <2>1, <2>2
<1> QED  BY <1>3, <1>4

LEMMA OwnChannelJoins ==
  ASSUME TypeOK, NEW p \in Participants, Subscribed(p, p), faults' = faults,
         NEW r \in Participants, NEW s \in Participants
  PROVE  net'[s][r] = IF s # p \/ r = p \/ ~Joined(r, p) THEN net[s][r]
                                                        ELSE net[s][r] \o OwnReady(p, r)
<1>1. ~Fault
  BY NoFault
<1>2. net' = [net EXCEPT ![p] = [u \in Participants |->
                IF u = p \/ ~Joined(u, p) THEN net[p][u] ELSE net[p][u] \o OwnReady(p, u)]]
  BY <1>1 DEF Subscribed, OwnReady
<1>3. s # p => net'[s] = net[s]
  BY <1>2 DEF TypeOK
<1>4. net'[p][r] = IF r = p \/ ~Joined(r, p) THEN net[p][r] ELSE net[p][r] \o OwnReady(p, r)
  BY <1>2 DEF TypeOK
<1> QED  BY <1>3, <1>4

\* A channel that joins announces its owner to whoever can hear it.
LEMMA JoiningCalls ==
  ASSUME MediaInv, Calm, NEW p \in Participants, NEW q \in Participants,
         Subscribed(p, q), faults' = faults
  PROVE  Calm'
<1>0. TypeOK
  BY DEF MediaInv
<1>1. ~Fault
  BY <1>0, NoFault
<1>2. /\ UNCHANGED <<allowed, lifecycle, work, step, peers>> /\ chan[p][q] = "joining"
      /\ chan' = [chan EXCEPT ![p][q] = "joined"]
  BY DEF Subscribed, negotiation, Calm, Hears
<1>3. /\ Joined(p, q)' /\ \A r, s \in Participants : chan'[r][s] # "lost"
      /\ \A r, s \in Participants : r # p \/ s # q => chan'[r][s] = chan[r][s]
      /\ \A r, s \in Participants : Joined(r, s) => Joined(r, s)'
      /\ \A r, s \in Participants : (r # p \/ s # q) /\ Joined(r, s)' => Joined(r, s)
  <2>1. chan'[p][q] = "joined"
        /\ \A r, s \in Participants : r # p \/ s # q => chan'[r][s] = chan[r][s]
    BY <1>0, <1>2 DEF TypeOK
  <2>2. \A r, s \in Participants : chan[r][s] # "lost"
    BY DEF Calm, Hears
  <2> QED  BY <2>1, <2>2 DEF Joined
<1>4. \A r \in Participants : Ready(r) \in Signal /\ Ready(None) \in Signal
  BY SignalTypes
<1>5. ASSUME NEW r \in Participants, NEW s \in Participants
      PROVE  \/ net'[s][r] = net[s][r]
             \/ /\ s = p /\ r # p /\ Joined(r, p)
                /\ \A x : Among(x, net[s][r]) => Among(x, net'[s][r])
                /\ \A x \in Signal : Among(x, net'[s][r]) /\ x.to \in {None, r}
                                     => Among(x, net[s][r]) \/ x.kind = "ready"
  <2>1. net[s][r] \in Seq(Signal)
    BY <1>0 DEF TypeOK
  <2>2. CASE q = p
    <3>1. net'[s][r] = IF s # p \/ r = p \/ ~Joined(r, p) THEN net[s][r]
                                                         ELSE net[s][r] \o OwnReady(p, r)
      BY <1>0, <2>2, OwnChannelJoins
    <3>2. \A x : Among(x, net[s][r] \o OwnReady(p, r))
                 <=> Among(x, net[s][r]) \/ Among(x, OwnReady(p, r))
      BY <2>1, AmongConcat, OwnReadiness
    <3> QED  BY <3>1, <3>2, OwnReadiness
  <2>3. CASE q # p /\ Joined(p, p)
    <3>1. Send(p, <<Ready(q)>>)
      BY <2>3 DEF Subscribed, Announcement
    <3>2. net' = OnTopic(p, <<Ready(q)>>)
      BY <1>0, <2>3, <3>1, SentFaultless DEF Joined
    <3>3. /\ \A x : Among(x, net'[s][r])
                    <=> Among(x, net[s][r]) \/ (s = p /\ r # p /\ Joined(r, p) /\ x = Ready(q))
          /\ net'[s][r] = net[s][r] \/ (s = p /\ r # p /\ Joined(r, p))
      BY <1>0, <1>4, <3>2, OnTopicHeard
    <3> QED  BY <3>3 DEF Ready
  <2>4. CASE q # p /\ ~Joined(p, p)
    <3>1. Send(p, << >>)
      BY <2>4 DEF Subscribed, Announcement
    <3>2. net' = net \/ net' = OnTopic(p, << >>)
      BY <3>1 DEF Send
    <3>3. net[s][r] \o << >> = net[s][r]
      BY <2>1
    <3>4. OnTopic(p, << >>)[s][r] = IF s = p /\ r # p /\ Joined(r, p) THEN net[s][r] \o << >>
                                                                    ELSE net[s][r]
      BY <1>0 DEF OnTopic, TypeOK
    <3> QED  BY <3>2, <3>3, <3>4
  <2> QED  BY <2>2, <2>3, <2>4
<1>6. ASSUME NEW r \in Participants, r # p, q \in {p, r}, Joined(p, p)', Joined(r, p)
      PROVE  Tells(Coming(r, p)', "ready")
  <2>1. net[p][r] \in Seq(Signal)
    BY <1>0 DEF TypeOK
  <2>2. \E y \in {Ready(None), Ready(r)} : Among(y, net'[p][r])
    <3>1. CASE q = p
      <4>1. Subscribed(p, p)
        BY <3>1
      <4>2. net'[p][r] = net[p][r] \o OwnReady(p, r)
        <5>1. net'[p][r] = IF p # p \/ r = p \/ ~Joined(r, p) THEN net[p][r]
                                                             ELSE net[p][r] \o OwnReady(p, r)
          BY <1>0, <4>1, OwnChannelJoins
        <5> QED  BY <1>6, <5>1
      <4>3. Among(Ready(None), net'[p][r])
        BY <2>1, <4>2, AmongConcat, OwnReadiness
      <4> QED  BY <4>3
    <3>2. CASE q # p
      <4>1. q = r /\ Joined(p, p)
        BY <1>3, <1>6, <3>2
      <4>2. Send(p, <<Ready(q)>>)
        BY <3>2, <4>1 DEF Subscribed, Announcement
      <4>3. net' = OnTopic(p, <<Ready(q)>>)
        BY <1>0, <4>1, <4>2, SentFaultless DEF Joined
      <4>4. Among(Ready(q), net'[p][r])
        BY <1>0, <1>4, <1>6, <4>3, OnTopicHeard
      <4> QED  BY <4>1, <4>4
    <3> QED  BY <3>1, <3>2
  <2>3. PICK y \in {Ready(None), Ready(r)} : Among(y, net'[p][r])
    BY <2>2
  <2>4. y \in Signal /\ y.to \in {None, r} /\ y.kind = "ready"
    <3>1. /\ Ready(None).to = None /\ Ready(None).kind = "ready"
          /\ Ready(r).to = r /\ Ready(r).kind = "ready"
      BY DEF Ready
    <3>2. y = Ready(None) \/ y = Ready(r)
      BY <2>3
    <3>3. Ready(None) \in Signal /\ Ready(r) \in Signal
      BY <1>4
    <3> QED  BY <3>1, <3>2, <3>3
  <2>5. y \in Coming(r, p)'
    BY <2>3, <2>4 DEF Coming
  <2> QED  BY <2>4, <2>5 DEF Tells
<1>7. ASSUME NEW r \in Participants
      PROVE  Present(r)' /\ OnCall(r)'
  <2>1. OnCall(r)'
    BY <1>2, OthersOnCall DEF Calm
  <2>2. \A s \in Participants : chan'[r][s] = "none" <=> chan[r][s] = "none"
    BY <1>2, <1>3 DEF Joined
  <2>3. Present(r)'
    BY <1>2, <2>2 DEF Calm, Present, OverCapacity, lifecycle
  <2> QED  BY <2>1, <2>3
<1>8. ASSUME NEW r \in Participants, NEW s \in Participants
      PROVE  Hears(r, s)'
  <2>1. Linked(r, s)' => Linked(r, s) \/ (r # s /\ Joined(r, s))
    BY <1>2, <1>5 DEF Linked
  <2> QED  BY <1>3, <2>1 DEF Calm, Hears
<1>9. ASSUME NEW r \in Participants, NEW s \in Participants
      PROVE  /\ Coming(r, s) \subseteq Coming(r, s)'
             /\ \A x \in Coming(r, s)' : x \in Coming(r, s) \/ x.kind = "ready"
  BY <1>2, <1>5 DEF Coming
<1>10. ASSUME NEW r \in Participants, NEW s \in Participants, r # s
       PROVE  InPair(r, s)'
  <2>1. InPair(r, s)
    BY <1>10 DEF Calm
  <2>2. Pair(r, s, peers[r][s], peers[s][r], Coming(r, s)', Coming(s, r)')
    BY <1>9, <2>1, PairAnnounces DEF InPair
  <2> QED  BY <1>2, <2>2 DEF InPair
<1>11. ASSUME NEW r \in Participants, NEW s \in Participants, r # s,
              Tells(Coming(r, s), "ready")
       PROVE  Tells(Coming(r, s)', "ready")
  BY <1>9, <1>11 DEF Tells
<1>12. ASSUME NEW r \in Participants, NEW s \in Participants, r # s
       PROVE  Told(r, s)'
  <2> SUFFICES ASSUME \A u, v \in {r, s} : Joined(u, v)'
               PROVE  \/ Offered(r, s)' \/ Offered(s, r)'
                      \/ Tells(Coming(r, s)', "ready") \/ Tells(Coming(s, r)', "ready")
    BY DEF Told
  <2>1. CASE p \in {r, s} /\ q \in {r, s}
    <3>1. PICK o \in {r, s} : o # p
      BY <1>12
    <3>2. q \in {p, o} /\ Joined(p, p)' /\ Joined(o, p)' /\ {r, s} = {p, o}
      BY <2>1, <3>1
    <3>3. Joined(o, p)
      BY <1>3, <3>1, <3>2
    <3>4. Tells(Coming(o, p)', "ready")
      BY <1>6, <3>1, <3>2, <3>3
    <3> QED  BY <2>1, <3>1, <3>4
  <2>2. CASE p \notin {r, s} \/ q \notin {r, s}
    <3>1. \A u, v \in {r, s} : Joined(u, v)
      BY <1>3, <2>2
    <3>2. \/ Offered(r, s) \/ Offered(s, r)
          \/ Tells(Coming(r, s), "ready") \/ Tells(Coming(s, r), "ready")
      BY <1>12, <3>1 DEF Calm, Told
    <3> QED  BY <1>2, <1>11, <1>12, <3>2 DEF Offered
  <2> QED  BY <2>1, <2>2
<1> QED  BY <1>7, <1>8, <1>10, <1>12 DEF Calm

-----------------------------------------------------------------------------
(* Every step, and where it ends.                                          *)

\* A step disturbs nobody unless it is counted.
Counted(p) == (events' = events \/ Event(p)) /\ (faults' = faults \/ Fault)

LEMMA HandlersCount ==
  ASSUME MediaInv, NEW p \in Participants, Handles(p)
  PROVE  Counted(p)
<1>0. TypeOK /\ Underway(p)
  BY DEF MediaInv, Controller
<1>1. \A signals : Send(p, signals) => faults' = faults \/ Fault
  BY DEF Send
<1>2. ASSUME NEW q \in Participants, NEW x \in Signal, x.kind # "left", NEW r \in PeerRecord,
             Proceed(p, q, x, r)
      PROVE  faults' = faults \/ Fault
  BY <1>1, <1>2, ProceedCases
<1>3. ASSUME work[p] # << >>, IsSignal(Head(work[p]))
      PROVE  Head(work[p]).from \in Participants /\ Head(work[p]).signal \in Signal
  BY <1>0, <1>3, HandledSignal
<1>4. CASE IgnoreSignal(p) \/ HandleLeft(p) \/ AskServers(p) \/ OfferMade(p) \/ SwitchSenders(p)
  BY <1>1, <1>4 DEF IgnoreSignal, HandleLeft, AskServers, OfferMade, SwitchSenders, Counted, bounds
<1>5. CASE Describe(p)
  BY <1>1, <1>5 DEF Describe, Counted
<1>6. CASE HandleSignal(p)
  <2>1. /\ work[p] # << >> /\ IsSignal(Head(work[p])) /\ events' = events
        /\ Head(work[p]).signal.kind # "left" /\ peers[p][Head(work[p]).from] # None
        /\ Proceed(p, Head(work[p]).from, Head(work[p]).signal, peers[p][Head(work[p]).from])
    BY <1>6 DEF HandleSignal, Idle
  <2> QED  BY <1>0, <1>2, <1>3, <2>1, PeerOf DEF Counted
<1>7. CASE UseServers(p)
  <2>1. events' = events /\ step[p] # None
    BY <1>7 DEF UseServers, At
  <2>2. /\ Head(work[p]).from \in Participants /\ Head(work[p]).signal \in Signal
        /\ Head(work[p]).signal.kind # "left"
    BY <1>0, <1>3, <2>1 DEF Underway
  <2>3. \/ faults' = faults
        \/ Proceed(p, Head(work[p]).from, Head(work[p]).signal, NewPeer(p))
    BY <1>7 DEF UseServers
  <2> QED  BY <1>0, <1>2, <2>1, <2>2, <2>3, NewPeerType DEF Counted
<1>8. CASE Detached(p)
  <2>1. events' = events /\ step[p] # None /\ step[p].at = "detaching"
    BY <1>8 DEF Detached, At
  <2>2. /\ Head(work[p]).from \in Participants /\ Head(work[p]).signal \in Signal
        /\ Head(work[p]).signal.kind # "left"
    BY <1>0, <1>3, <2>1 DEF Underway
  <2>3. step[p].peer \in PeerRecord
    BY <1>0, <2>1 DEF TypeOK, Step
  <2>4. Fault \/ Proceed(p, Head(work[p]).from, Head(work[p]).signal, step[p].peer)
    BY <1>8 DEF Detached
  <2> QED  BY <1>2, <2>1, <2>2, <2>3, <2>4 DEF Counted
<1> QED  BY <1>4, <1>5, <1>6, <1>7, <1>8 DEF Handles

LEMMA UndisturbedBefore ==
  ASSUME MediaInv, NEW p \in Participants, Counted(p), Undisturbed'
  PROVE  Undisturbed /\ events' = events /\ faults' = faults
<1>1. events \in Nat /\ faults \in Nat
  BY DEF MediaInv, TypeOK
<1> QED  BY <1>1 DEF Counted, Event, Fault, Undisturbed

LEMMA CallSteps ==
  ASSUME MediaInv, Undisturbed => Calm, Next, Undisturbed'
  PROVE  Calm'
<1>1. PICK p \in Participants :
        \/ Starts(p) \/ Stop(p) \/ Dispose(p) \/ SetCamera(p)
        \/ \E S \in SUBSET Participants :
             \/ \E over \in BOOLEAN : Excluded(p, S, over)
             \/ RosterChanges(p, S)
        \/ Handles(p)
        \/ \E q \in Participants :
             \/ Subscribed(p, q) \/ ChannelFails(p, q) \/ Deliver(q, p)
             \/ CandidateFound(p, q) \/ Connect(p, q) \/ ConnectionFails(p, q)
  BY DEF Next
<1>2. events \in Nat /\ faults \in Nat
  BY DEF MediaInv, TypeOK
<1>3. ASSUME Counted(p)
      PROVE  Calm /\ events' = events /\ faults' = faults /\ ~Event(p) /\ ~Fault
  <2>1. Calm /\ events' = events /\ faults' = faults
    BY <1>3, UndisturbedBefore
  <2> QED  BY <1>2, <2>1 DEF Event, Fault
<1>4. CASE Starts(p)
  <2>1. Counted(p)
    BY <1>4 DEF Starts, Start, ServersResolved, MediaGranted, MediaDenied, Authorized, AuthFails,
       CleanedUp, Counted, bounds
  <2> QED  BY <1>3, <1>4, <2>1, StartCalls
<1>5. CASE Stop(p) \/ Dispose(p)
  <2>1. Counted(p) /\ Event(p)
    BY <1>5 DEF Stop, Dispose, Depart, Counted
  <2> QED  BY <1>3, <2>1
<1>6. CASE SetCamera(p)
  <2>1. Counted(p)
    BY <1>6 DEF SetCamera, Counted
  <2> QED  BY <1>3, <1>6, <2>1, CameraCalls
<1>7. ASSUME NEW S \in SUBSET Participants, NEW over \in BOOLEAN, Excluded(p, S, over)
      PROVE  FALSE
  <2>1. Counted(p) /\ Event(p)
    BY <1>7 DEF Excluded, Depart, Counted
  <2> QED  BY <1>3, <2>1
<1>8. ASSUME NEW S \in SUBSET Participants, RosterChanges(p, S)
      PROVE  Calm'
  <2>1. Counted(p)
    BY <1>8 DEF RosterChanges, Counted
  <2> QED  BY <1>3, <1>8, <2>1, RosterCalls
<1>9. CASE Handles(p)
  BY <1>3, <1>9, HandlersCount, HandlerCalls
<1>10. ASSUME NEW q \in Participants,
              \/ Subscribed(p, q) \/ ChannelFails(p, q) \/ Deliver(q, p)
              \/ CandidateFound(p, q) \/ Connect(p, q) \/ ConnectionFails(p, q)
       PROVE  Calm'
  <2>1. \A signals : Send(p, signals) => faults' = faults \/ Fault
    BY DEF Send
  <2>2. Counted(p)
    BY <1>10, <2>1 DEF Subscribed, ChannelFails, Deliver, CandidateFound, Connect,
       ConnectionFails, Counted, bounds
  <2>3. ~ChannelFails(p, q) /\ ~ConnectionFails(p, q)
    BY <1>3, <2>2, NoConnectionFails DEF ChannelFails
  <2> QED  BY <1>3, <1>10, <2>2, <2>3, JoiningCalls, DeliveryCalls, FindingCalls, ConnectingCalls
<1> QED  BY <1>1, <1>4, <1>5, <1>6, <1>7, <1>8, <1>9, <1>10

LEMMA CallStarts ==
  ASSUME Init
  PROVE  Calm
<1>1. ASSUME NEW p \in Participants
      PROVE  Present(p) /\ OnCall(p)
  BY DEF Init, Present, OnCall
<1>2. ASSUME NEW p \in Participants, NEW q \in Participants
      PROVE  ~Linked(p, q) /\ Hears(p, q) /\ ~Joined(p, q) /\ Coming(p, q) = {}
             /\ peers[p][q] = None
  <2>1. chan[p][q] = "none" /\ peers[p][q] = None /\ net[q][p] = << >> /\ work[p] = << >>
    BY DEF Init, NoPeers
  <2>2. ~Linked(p, q)
    BY <2>1 DEF Linked
  <2>3. Coming(p, q) = {}
    BY <2>1, AmongFew DEF Coming
  <2> QED  BY <2>1, <2>2, <2>3 DEF Hears, Joined
<1>3. ASSUME NEW p \in Participants, NEW q \in Participants
      PROVE  InPair(p, q) /\ Told(p, q)
  <2>1. InPair(p, q)
    BY <1>2 DEF InPair, Pair, Side, SaidByPeer, AnswerComes, CandidateComes
  <2>2. Told(p, q)
    BY <1>2 DEF Told
  <2> QED  BY <2>1, <2>2
<1> QED  BY <1>1, <1>2, <1>3 DEF Calm

LEMMA CallStutters ==
  ASSUME MediaInv, Calm, UNCHANGED vars
  PROVE  Calm'
<1>0. TypeOK
  BY DEF MediaInv
<1>1. UNCHANGED <<allowed, life, starting, stream, disposed, chan, net, work, step, peers>>
  BY DEF vars, lifecycle, signalling, negotiation
<1>2. \A r \in Participants : Present(r)'
  BY <1>1 DEF Calm, Present, OverCapacity
<1>3. \A r, s \in Participants : Joined(r, s)' = Joined(r, s) /\ chan'[r][s] # "lost"
  BY <1>1 DEF Joined, Calm, Hears
<1> QED  BY <1>0, <1>1, <1>2, <1>3, QuietQueues, CalmStays

\* An offer that was heard leads to a connection.
LEMMA OfferSettles ==
  ASSUME Calm, NEW p \in Participants, NEW q \in Participants, p # q, Settled(p, q),
         Offered(p, q)
  PROVE  Unheard(p, q) \/ (ConnectedTo(p, q) /\ ConnectedTo(q, p))
<1>1. Coming(p, q) = {} /\ Coming(q, p) = {}
  <2>1. /\ net[p][q] = << >> /\ net[q][p] = << >>
        /\ work[p] = << >> /\ work[q] = << >>
    BY DEF Settled
  <2> QED  BY <2>1, AmongFew DEF Coming
<1>2. /\ Stands(p, q, peers[p][q], peers[q][p])
      /\ peers[q][p] # None => Stands(q, p, peers[q][p], peers[p][q])
      /\ AnswerComes(peers[p][q], peers[q][p], {})
      /\ CandidateComes(p, q, peers[p][q], peers[q][p], {})
      /\ CandidateComes(q, p, peers[q][p], peers[p][q], {})
  BY <1>1 DEF Calm, InPair, Pair, Side, Offered
<1>3. \A kind : ~Tells({}, kind)
  BY DEF Tells
<1>4. /\ peers[p][q] # None /\ peers[p][q].local = "offer"
      /\ Mine(p, q) = "offer" /\ Mine(q, p) = "answer"
  BY <1>2, OneOffers DEF Offered, Stands
<1>5. CASE peers[p][q].remote = 0
  <2>1. peers[q][p] # None => peers[q][p].local # "answer"
    BY <1>2, <1>3, <1>5 DEF AnswerComes
  <2>2. peers[q][p] # None => peers[q][p].local = "none"
    BY <1>2, <1>4, <2>1 DEF Stands
  <2> QED  BY <1>4, <1>5, <2>2 DEF Unheard
<1>6. CASE peers[p][q].remote # 0
  <2>1. /\ peers[q][p] # None /\ peers[p][q].remote = peers[q][p].id
        /\ peers[q][p].local # "none" /\ peers[p][q].pendingIce = {}
    BY <1>2, <1>6 DEF Stands
  <2>2. /\ peers[q][p].remote # 0 /\ peers[q][p].remote = peers[p][q].id
        /\ peers[q][p].pendingIce = {}
    BY <1>2, <1>4, <2>1 DEF Stands
  <2>3. Paired(p, q) /\ Paired(q, p)
    BY <1>4, <2>1, <2>2 DEF Paired, Partner
  <2>4. /\ ~MayFind(p, q) /\ ~MayFind(q, p) /\ ~MayConnect(p, q) /\ ~MayConnect(q, p)
    BY DEF Settled
  <2>5. p \in limit.gathering => peers[p][q].id \in peers[q][p].ice
    <3>1. p \in limit.gathering => peers[p][q].sent
      BY <1>4, <2>4 DEF MayFind
    <3> QED  BY <1>2, <1>3, <1>4, <2>1, <2>2, <3>1 DEF CandidateComes
  <2>6. q \in limit.gathering => peers[q][p].id \in peers[p][q].ice
    <3>1. q \in limit.gathering => peers[q][p].sent
      BY <2>1, <2>4 DEF MayFind
    <3> QED  BY <1>2, <1>3, <1>4, <1>6, <2>1, <3>1 DEF CandidateComes
  <2>7. \/ {p, q} \intersect limit.gathering = {} /\ {q, p} \intersect limit.gathering = {}
        \/ /\ peers[p][q].ice \union peers[q][p].ice # {}
           /\ peers[q][p].ice \union peers[p][q].ice # {}
    BY <2>5, <2>6
  <2> QED  BY <1>4, <2>1, <2>3, <2>4, <2>7 DEF MayConnect, ConnectedTo
<1> QED  BY <1>5, <1>6

(* Two that nobody disturbs miss each other only by an offer that nobody   *)
(* heard (sendOffer, acceptDescription, addIceCandidate).                  *)
THEOREM CallsMissOnlyUnheard == Spec => []MissedOnlyUnheard
<1> DEFINE CallInv == MediaInv /\ (Undisturbed => Calm)
<1>1. Init => CallInv
  BY MediaStarts, CallStarts
<1>2. CallInv /\ [Next]_vars => CallInv'
  <2> SUFFICES ASSUME CallInv, [Next]_vars
               PROVE  CallInv'
    OBVIOUS
  <2>1. CASE Next
    BY <2>1, MediaSteps, CallSteps
  <2>2. CASE UNCHANGED vars
    <3>1. Undisturbed' = Undisturbed
      BY <2>2 DEF Undisturbed, vars, bounds
    <3> QED  BY <2>2, <3>1, MediaStutters, CallStutters
  <2> QED  BY <2>1, <2>2
<1>3. CallInv => MissedOnlyUnheard
  <2> SUFFICES ASSUME CallInv, NEW p \in Participants, NEW q \in Participants, p # q,
                      Undisturbed, Settled(p, q)
               PROVE  ConnectedTo(p, q) \/ Unheard(p, q) \/ Unheard(q, p)
    BY DEF MissedOnlyUnheard
  <2>1. \A r, s \in {p, q} : Joined(r, s)
    BY DEF Settled
  <2>2. Offered(p, q) \/ Offered(q, p)
    <3>1. Told(p, q)
      BY DEF Calm
    <3>2. /\ net[p][q] = << >> /\ net[q][p] = << >>
          /\ work[p] = << >> /\ work[q] = << >>
      BY DEF Settled
    <3>3. Coming(p, q) = {} /\ Coming(q, p) = {}
      BY <3>2, AmongFew DEF Coming
    <3> QED  BY <2>1, <3>1, <3>3 DEF Told, Tells
  <2>3. Settled(q, p)
    <3>1. {q, p} = {p, q}
      OBVIOUS
    <3> QED  BY <3>1 DEF Settled
  <2> QED  BY <2>2, <2>3, OfferSettles
<1> QED  BY <1>1, <1>2, <1>3, PTL DEF Spec

-----------------------------------------------------------------------------
(* Dictation keeps its order.                                              *)
(*                                                                         *)
(* What is said moves along one line: it is buffered, queued and written.  *)
(* Of the utterances since the buffer was last emptied, each is behind all *)
(* that were said before it, wherever they have got to.  One that has left *)
(* the buffer and is made again by a tool call is out of this line, and    *)
(* never leaves the buffer a second time; one that a removed card had      *)
(* dropped may come back, but was not written before.                      *)
(*                                                                         *)
(* The cards move on as well: nothing that is written, on its way or said  *)
(* lies beyond the card of now, nor this one beyond the cards of the tool  *)
(* calls that await the queue, which come in the order of the queue.       *)

Utterance == 1 .. spoken

Call == [ id : Nat, tool : {"start", "finish", "other"}, utterance : 0 .. spoken,
          generation : Nat, at : {"queued", "room", "queue"} ]

Writing == [ turn : Utterance, epoch : Nat, to : Nat \union {Nothing} ]

Awaiting == [ call : Call, card : Nat ]

Entry == Writing \union Awaiting

Buffers ==
  [ current : 0 .. spoken, turns : [Utterances -> Turn \union {Nothing}],
    order : Seq(Utterance), ignored : SUBSET Utterance ]

VoiceTyped ==
  /\ voiceLimit \in VoiceLimits /\ spoken \in 0 .. voiceLimit.utterances
  /\ forgotten \in 0 .. spoken
  /\ generation \in Nat /\ epoch \in Nat /\ responses \in Nat
  /\ pending \in Seq(Utterance) /\ bound \in 0 .. spoken /\ transcribing \subseteq Utterance
  /\ response \in [ id : Nat, calls : BOOLEAN ] \union {Nothing}
  /\ calls \in Seq(Call)
  /\ settling \subseteq
       [ call : Nat, utterance : 0 .. spoken, outcome : {"completed", "interrupted"} ]
  /\ cards \in Seq(Seq(Utterance))
  /\ card \in Nat \union {Nothing} /\ capture \in BOOLEAN /\ (capture => card # Nothing)
  /\ meant \in [Utterances -> Nat \union {Nothing}]

\* The writings of a queue, and the utterances they write.
Writings(q) == { n \in 1 .. Len(q) : ~IsIntent(q[n]) }
Turns(q) == { q[n].turn : n \in Writings(q) }

Written == UNION { { cards[c][n] : n \in 1 .. Len(cards[c]) } : c \in 1 .. Len(cards) }

\* A session that is over has no transcript to come.
Hushed == ~Active => transcribing = {}

QueueInOrder(q) ==
  \A n \in Writings(q) :
    /\ q[n].turn \notin Written
    /\ \A m \in Writings(q) : m < n =>
         /\ q[m].turn # q[n].turn
         /\ q[m].turn \notin dropped /\ q[n].turn \notin dropped => q[m].turn < q[n].turn
    /\ q[n].turn \notin dropped => \A i \in Written \ dropped : i < q[n].turn

BufferInOrder(b, q) ==
  \A n \in 1 .. Len(b.order) :
    b.order[n] > forgotten /\ b.order[n] \notin b.ignored =>
      /\ \A i \in b.ignored \union Written \union Turns(q) : i < b.order[n]
      /\ \A m \in 1 .. n - 1 : b.order[m] < b.order[n]

\* The buffer holds every utterance until it leaves, and what has left gets no outcome.
Complete(b) ==
  /\ \A i \in Utterances : b.turns[i] # Nothing <=> \E n \in 1 .. Len(b.order) : b.order[n] = i
  /\ \A i \in forgotten + 1 .. spoken : i \in b.ignored \/ b.turns[i] # Nothing
  /\ \A i \in b.ignored : b.turns[i] # Nothing => b.turns[i].outcome = "none"

Distinct(b) == \A n \in 1 .. Len(b.order) : \A m \in 1 .. n - 1 : b.order[m] # b.order[n]

\* What may still be dictated is nowhere yet, and if it is of before the buffer was
\* last emptied, it was dropped then.
Unsaid(b, q) ==
  \A i \in Utterance \ b.ignored :
    i \in transcribing \/ (b.turns[i] # Nothing /\ b.turns[i].thought) =>
      /\ i \notin Written \union Turns(q)
      /\ i =< forgotten => i \in dropped

QueueMeant(q) ==
  \A n \in Writings(q) : q[n].turn \notin dropped =>
    /\ meant[q[n].turn] # Nothing
    /\ q[n].to \notin {Nothing, 0} => meant[q[n].turn] =< q[n].to

BufferMeant(b) ==
  \A i \in Utterances :
    /\ b.turns[i] # Nothing /\ i \notin b.ignored /\ i > forgotten
    /\ b.turns[i].capturing \/ b.turns[i].thought
    => meant[i] # Nothing

\* No words are said for, sent to or written on a card beyond k.
Reaches(q, k) ==
  /\ \A i \in Utterances : meant[i] # Nothing => meant[i] =< k
  /\ \A c \in 1 .. Len(cards) : cards[c] # << >> => c =< k
  /\ \A n \in Writings(q) : q[n].to # Nothing => q[n].to =< k

Ahead(q) ==
  /\ card # Nothing => Reaches(q, card)
  /\ \A n \in 1 .. Len(q) : IsIntent(q[n]) =>
       /\ Reaches(q, q[n].card) /\ (card # Nothing => card =< q[n].card)
       /\ \A m \in 1 .. n - 1 : IsIntent(q[m]) => q[m].card =< q[n].card
  /\ \A n \in Writings(q) :
       /\ \A m \in Writings(q) : m < n => q[n].to = Nothing
       /\ q[n].to \notin {Nothing, 0} =>
            \A c \in 1 .. Len(cards) : cards[c] # << >> => c =< q[n].to

InPlace(b, q) ==
  /\ b \in Buffers /\ q \in Seq(Entry)
  /\ QueueInOrder(q) /\ BufferInOrder(b, q) /\ Complete(b) /\ Distinct(b) /\ Unsaid(b, q)
  /\ QueueMeant(q) /\ BufferMeant(b) /\ Ahead(q)

\* There is no card beyond k.
Within(q, k) ==
  /\ Reaches(q, k) /\ (card # Nothing => card =< k)
  /\ \A n \in 1 .. Len(q) : IsIntent(q[n]) => q[n].card =< k

DictationInv ==
  /\ VoiceTyped /\ Hushed /\ DictationKeepsOrder
  /\ InPlace(buffer, appends) /\ Within(appends, Len(cards))

LEMMA EntryKinds ==
  /\ \A e \in Writing : ~IsIntent(e)
  /\ \A e \in Awaiting : IsIntent(e)
  BY DEF IsIntent, Writing, Awaiting

LEMMA Typical ==
  ASSUME VoiceTyped
  PROVE  /\ spoken \in Nat /\ forgotten \in Nat /\ forgotten =< spoken
         /\ voiceLimit.utterances \in Nat /\ spoken =< voiceLimit.utterances
         /\ Utterance \subseteq Utterances
         /\ NewTurn \in Turn /\ NewTurn # Nothing
<1>1. voiceLimit.utterances \in Nat
  BY VoiceAssumption DEF VoiceTyped
<1>2. NewTurn \in Turn
  BY DEF VoiceTyped, NewTurn, Turn
<1> QED  BY <1>1, <1>2, TurnAssumption DEF VoiceTyped, Utterance, Utterances

-----------------------------------------------------------------------------
(* The queue.                                                              *)

\* a is b, or b as it is sent.
SentAs(a, b) ==
  /\ IsIntent(a) <=> IsIntent(b)
  /\ IsIntent(a) => a = b
  /\ ~IsIntent(a) =>
       /\ a.turn = b.turn
       /\ \/ a.to = b.to
          \/ b.to = Nothing /\ a.to = IF card = Nothing THEN 0 ELSE card

\* r is what is left of q, of which only the first writing is sent.
Thinned(g, r, q) ==
  /\ g \in [1 .. Len(r) -> 1 .. Len(q)]
  /\ \A k, l \in 1 .. Len(r) : k < l => g[k] < g[l]
  /\ \A k \in 1 .. Len(r) : SentAs(r[k], q[g[k]])
  /\ \A k, l \in Writings(r) : k < l => r[l].to = q[g[l]].to

LEMMA WritingsTyped ==
  ASSUME VoiceTyped, NEW q \in Seq(Entry)
  PROVE  \A n \in Writings(q) : /\ n \in 1 .. Len(q) /\ q[n] \in Writing
                               /\ q[n].turn \in Utterance /\ q[n].to \in Nat \union {Nothing}
<1> SUFFICES ASSUME NEW n \in 1 .. Len(q), ~IsIntent(q[n])
             PROVE  /\ q[n] \in Writing
                    /\ q[n].turn \in Utterance /\ q[n].to \in Nat \union {Nothing}
  BY DEF Writings
<1>1. q[n] \in Entry
  OBVIOUS
<1>2. q[n] \in Writing
  BY <1>1, EntryKinds DEF Entry
<1> QED  BY <1>2 DEF Writing

LEMMA IntentsTyped ==
  ASSUME NEW q \in Seq(Entry), NEW n \in 1 .. Len(q), IsIntent(q[n])
  PROVE  q[n] \in Awaiting /\ q[n].card \in Nat
<1>1. q[n] \in Entry
  OBVIOUS
<1>2. q[n] \in Awaiting
  BY <1>1, EntryKinds DEF Entry
<1> QED  BY <1>2 DEF Awaiting

LEMMA MovedIs ==
  ASSUME VoiceTyped, NEW q \in Seq(Entry)
  PROVE  Moved(q) \in Seq(Entry) /\ \E g : Thinned(g, Moved(q), q)
<1> DEFINE Stays(e) == IsIntent(e) \/ e.to # Nothing \/ ~Lapsed(e)
           places == { n \in 1 .. Len(q) : Stays(q[n]) }
<1>1. PICK kept : kept = Selected(q, places)
  OBVIOUS
<1>2. kept \in Seq(Entry) /\ \E g : Picks(g, kept, q, places)
  BY <1>1, SelectedIs, Zenon
<1>3. PICK g : Picks(g, kept, q, places)
  BY <1>2
<1> DEFINE first(n) == ~IsIntent(kept[n]) /\ \A k \in 1..n - 1 : IsIntent(kept[k])
           sent(n) == IF first(n) /\ kept[n].to = Nothing
                      THEN [kept[n] EXCEPT !.to = IF card = Nothing THEN 0 ELSE card]
                      ELSE kept[n]
<1>4. Moved(q) = [n \in 1 .. Len(kept) |-> sent(n)]
  BY <1>1, Zenon DEF Moved
<1>5. ASSUME NEW n \in 1 .. Len(kept)  PROVE sent(n) \in Entry /\ SentAs(sent(n), kept[n])
  <2>1. kept[n] \in Entry
    BY <1>2
  <2>2. CASE first(n) /\ kept[n].to = Nothing
    <3>1. kept[n] \in Writing
      BY <2>1, <2>2, EntryKinds DEF Entry
    <3>2. PICK c \in Nat : c = IF card = Nothing THEN 0 ELSE card
      BY DEF VoiceTyped
    <3>3. PICK e, f : e = kept[n] /\ f = [kept[n] EXCEPT !.to = c]
      OBVIOUS
    <3>4. f \in Writing /\ f.turn = e.turn /\ f.to = c
      BY <3>1, <3>2, <3>3 DEF Writing
    <3>5. sent(n) = f
      BY <2>2, <3>2, <3>3
    <3>6. ~IsIntent(f) /\ ~IsIntent(e)
      BY <3>1, <3>3, <3>4, EntryKinds
    <3> QED  BY <3>2, <3>3, <3>4, <3>5, <3>6 DEF SentAs, Entry
  <2>3. CASE ~(first(n) /\ kept[n].to = Nothing)
    <3>1. sent(n) = kept[n]
      BY <2>3
    <3> QED  BY <2>1, <3>1 DEF SentAs
  <2> QED  BY <2>2, <2>3
<1>a. ASSUME NEW k \in 1 .. Len(kept), NEW l \in 1 .. Len(kept), k < l, ~IsIntent(kept[k])
      PROVE  sent(l) = kept[l]
  <2>1. k \in 1 .. l - 1
    BY <1>2, <1>a
  <2>2. ~first(l)
    BY <1>a, <2>1
  <2> QED  BY <2>2
<1> HIDE DEF sent, first
<1>6. PICK r : r = Moved(q)
  OBVIOUS
<1>7. r \in Seq(Entry) /\ Len(r) = Len(kept) /\ \A n \in 1 .. Len(kept) : r[n] = sent(n)
  BY <1>2, <1>4, <1>5, <1>6
<1>8. Thinned(g, r, q)
  <2>1. g \in [1 .. Len(r) -> 1 .. Len(q)]
    <3>1. \A k \in 1 .. Len(kept) : g[k] \in 1 .. Len(q)
      BY <1>3 DEF Picks
    <3> QED  BY <1>3, <1>7, <3>1 DEF Picks
  <2>2. \A k \in 1 .. Len(r) : SentAs(r[k], q[g[k]])
    BY <1>3, <1>5, <1>7 DEF Picks
  <2>3. \A k, l \in Writings(r) : k < l => r[l].to = q[g[l]].to
    <3> SUFFICES ASSUME NEW k \in 1 .. Len(kept), NEW l \in 1 .. Len(kept), ~IsIntent(r[k]), k < l
                 PROVE  r[l].to = q[g[l]].to
      BY <1>7 DEF Writings
    <3>1. ~IsIntent(kept[k])
      BY <1>5, <1>7 DEF SentAs
    <3>2. r[l] = kept[l]
      BY <1>7, <1>a, <3>1
    <3>3. kept[l] = q[g[l]]
      BY <1>3 DEF Picks
    <3> QED  BY <3>2, <3>3
  <2>4. \A k, l \in 1 .. Len(r) : k < l => g[k] < g[l]
    BY <1>3, <1>7 DEF Picks
  <2> QED  BY <2>1, <2>2, <2>3, <2>4, Zenon DEF Thinned
<1> QED  BY <1>6, <1>7, <1>8

LEMMA ThinnedWritings ==
  ASSUME VoiceTyped, NEW q \in Seq(Entry), NEW r \in Seq(Entry), NEW g, Thinned(g, r, q)
  PROVE  \A k \in Writings(r) : /\ k \in 1 .. Len(r) /\ g[k] \in Writings(q)
                               /\ r[k].turn = q[g[k]].turn
                               /\ \/ r[k].to = q[g[k]].to
                                  \/ /\ q[g[k]].to = Nothing
                                     /\ r[k].to = IF card = Nothing THEN 0 ELSE card
  BY DEF Thinned, SentAs, Writings

\* What is sent is sent to the card of now.
LEMMA ThinnedReaches ==
  ASSUME VoiceTyped, NEW q \in Seq(Entry), NEW r \in Seq(Entry), NEW g, Thinned(g, r, q),
         NEW k \in Nat, Reaches(q, k), card # Nothing => card =< k
  PROVE  Reaches(r, k)
<1> SUFFICES ASSUME NEW n \in Writings(r), r[n].to # Nothing
             PROVE  r[n].to =< k
  BY DEF Reaches
<1>1. /\ g[n] \in Writings(q)
      /\ r[n].to = q[g[n]].to \/ r[n].to = IF card = Nothing THEN 0 ELSE card
  BY ThinnedWritings
<1> QED  BY <1>1 DEF Reaches

\* What is left of a queue keeps its order and what it means.
LEMMA ThinnedInPlace ==
  ASSUME VoiceTyped, NEW b, NEW q, InPlace(b, q),
         NEW r \in Seq(Entry), NEW g, Thinned(g, r, q)
  PROVE  InPlace(b, r)
<1>0. q \in Seq(Entry)
  BY DEF InPlace
<1>1. /\ g \in [1 .. Len(r) -> 1 .. Len(q)]
      /\ \A k, l \in 1 .. Len(r) : k < l => g[k] < g[l]
      /\ \A k \in Writings(r) : /\ k \in 1 .. Len(r) /\ g[k] \in Writings(q)
                                /\ r[k].turn = q[g[k]].turn
                                /\ \/ r[k].to = q[g[k]].to
                                   \/ /\ q[g[k]].to = Nothing
                                      /\ r[k].to = IF card = Nothing THEN 0 ELSE card
  <2>1. /\ g \in [1 .. Len(r) -> 1 .. Len(q)]
        /\ \A k, l \in 1 .. Len(r) : k < l => g[k] < g[l]
    BY DEF Thinned
  <2> QED  BY <1>0, <2>1, ThinnedWritings
<1>2. Turns(r) \subseteq Turns(q)
  BY <1>1 DEF Turns
<1>3. \A k, l \in Writings(r) : k < l => g[k] < g[l]
  BY <1>1
<1>4. QueueInOrder(r)
  <2> SUFFICES ASSUME NEW n \in Writings(r)
               PROVE  /\ r[n].turn \notin Written
                      /\ \A m \in Writings(r) : m < n =>
                           /\ r[m].turn # r[n].turn
                           /\ r[m].turn \notin dropped /\ r[n].turn \notin dropped
                                => r[m].turn < r[n].turn
                      /\ r[n].turn \notin dropped => \A i \in Written \ dropped : i < r[n].turn
    BY DEF QueueInOrder
  <2>1. /\ q[g[n]].turn \notin Written
        /\ \A m \in Writings(q) : m < g[n] =>
             /\ q[m].turn # q[g[n]].turn
             /\ q[m].turn \notin dropped /\ q[g[n]].turn \notin dropped
                  => q[m].turn < q[g[n]].turn
        /\ q[g[n]].turn \notin dropped => \A i \in Written \ dropped : i < q[g[n]].turn
    BY <1>1 DEF InPlace, QueueInOrder
  <2> QED  BY <1>1, <1>3, <2>1
<1>5. BufferInOrder(b, r) /\ Unsaid(b, r)
  BY <1>2 DEF InPlace, BufferInOrder, Unsaid
<1>6. Ahead(q) /\ card \in Nat \union {Nothing}
  BY DEF InPlace, VoiceTyped
<1>7. QueueMeant(r)
  <2> SUFFICES ASSUME NEW n \in Writings(r), r[n].turn \notin dropped
               PROVE  /\ meant[r[n].turn] # Nothing
                      /\ r[n].to \notin {Nothing, 0} => meant[r[n].turn] =< r[n].to
    BY DEF QueueMeant
  <2>1. /\ meant[q[g[n]].turn] # Nothing
        /\ q[g[n]].to \notin {Nothing, 0} => meant[q[g[n]].turn] =< q[g[n]].to
    BY <1>1 DEF InPlace, QueueMeant
  <2>2. card # Nothing => meant[q[g[n]].turn] =< card
    <3>1. q[g[n]].turn \in Utterances
      BY <1>0, <1>1, WritingsTyped, Typical
    <3> QED  BY <1>6, <2>1, <3>1 DEF Ahead, Reaches
  <2> QED  BY <1>1, <2>1, <2>2
<1>8. ASSUME NEW n \in 1 .. Len(r), IsIntent(r[n])
      PROVE  g[n] \in 1 .. Len(q) /\ r[n] = q[g[n]] /\ IsIntent(q[g[n]]) /\ r[n].card \in Nat
  <2>1. g[n] \in 1 .. Len(q) /\ r[n] = q[g[n]]
    BY <1>8 DEF Thinned, SentAs
  <2> QED  BY <1>0, <1>8, <2>1, IntentsTyped
<1>9. Ahead(r)
  <2>1. card # Nothing => Reaches(r, card)
    BY <1>0, <1>6, ThinnedReaches DEF Ahead
  <2>2. ASSUME NEW n \in 1 .. Len(r), IsIntent(r[n])
        PROVE  /\ Reaches(r, r[n].card) /\ (card # Nothing => card =< r[n].card)
               /\ \A m \in 1 .. n - 1 : IsIntent(r[m]) => r[m].card =< r[n].card
    <3>1. g[n] \in 1 .. Len(q) /\ r[n] = q[g[n]] /\ IsIntent(q[g[n]]) /\ r[n].card \in Nat
      BY <1>8, <2>2
    <3>2. /\ Reaches(q, r[n].card) /\ (card # Nothing => card =< r[n].card)
          /\ \A m \in 1 .. g[n] - 1 : IsIntent(q[m]) => q[m].card =< r[n].card
      BY <1>6, <3>1 DEF Ahead
    <3>3. Reaches(r, r[n].card)
      BY <1>0, <3>1, <3>2, ThinnedReaches
    <3>4. ASSUME NEW m \in 1 .. n - 1, IsIntent(r[m])
          PROVE  r[m].card =< r[n].card
      <4>1. m \in 1 .. Len(r) /\ m < n
        BY <2>2
      <4>2. g[m] \in 1 .. Len(q) /\ r[m] = q[g[m]] /\ IsIntent(q[g[m]]) /\ g[m] < g[n]
        BY <1>1, <1>8, <3>4, <4>1
      <4>3. g[m] \in 1 .. g[n] - 1
        BY <3>1, <4>2
      <4> QED  BY <3>2, <4>2, <4>3
    <3> QED  BY <3>2, <3>3, <3>4
  <2>3. ASSUME NEW n \in Writings(r)
        PROVE  /\ \A m \in Writings(r) : m < n => r[n].to = Nothing
               /\ r[n].to \notin {Nothing, 0} =>
                    \A c \in 1 .. Len(cards) : cards[c] # << >> => c =< r[n].to
    <3>1. \A m \in Writings(r) : m < n => r[n].to = Nothing
      <4> SUFFICES ASSUME NEW m \in Writings(r), m < n  PROVE r[n].to = Nothing
        OBVIOUS
      <4>1. r[n].to = q[g[n]].to
        BY DEF Thinned
      <4>2. q[g[n]].to = Nothing
        BY <1>1, <1>3, <1>6 DEF Ahead
      <4> QED  BY <4>1, <4>2
    <3>2. ASSUME r[n].to \notin {Nothing, 0}
          PROVE  \A c \in 1 .. Len(cards) : cards[c] # << >> => c =< r[n].to
      <4>1. CASE r[n].to = q[g[n]].to
        BY <1>1, <1>6, <3>2, <4>1 DEF Ahead
      <4>2. CASE r[n].to = IF card = Nothing THEN 0 ELSE card
        BY <1>6, <3>2, <4>2 DEF Ahead, Reaches
      <4> QED  BY <1>1, <4>1, <4>2
    <3> QED  BY <3>1, <3>2
  <2> QED  BY <2>1, <2>2, <2>3 DEF Ahead
<1> QED  BY <1>4, <1>5, <1>7, <1>9 DEF InPlace

LEMMA ThinnedWithin ==
  ASSUME VoiceTyped, NEW q \in Seq(Entry), NEW r \in Seq(Entry), NEW g, Thinned(g, r, q),
         NEW k \in Nat, Within(q, k)
  PROVE  Within(r, k)
<1>1. Reaches(r, k)
  BY ThinnedReaches DEF Within
<1>2. ASSUME NEW n \in 1 .. Len(r), IsIntent(r[n])
      PROVE  r[n].card =< k
  <2>1. g[n] \in 1 .. Len(q) /\ r[n] = q[g[n]]
    BY <1>2 DEF Thinned, SentAs
  <2> QED  BY <1>2, <2>1 DEF Within
<1> QED  BY <1>1, <1>2 DEF Within

LEMMA MovedInPlace ==
  ASSUME VoiceTyped, NEW b, NEW q, InPlace(b, q), NEW k \in Nat, Within(q, k)
  PROVE  InPlace(b, Moved(q)) /\ Within(Moved(q), k)
<1>1. q \in Seq(Entry)
  BY DEF InPlace
<1>2. Moved(q) \in Seq(Entry) /\ \E g : Thinned(g, Moved(q), q)
  BY <1>1, MovedIs
<1> QED  BY <1>1, <1>2, ThinnedInPlace, ThinnedWithin, Zenon

\* The tool call of an intent joins the queue.
LEMMA IntentInPlace ==
  ASSUME VoiceTyped, NEW b, NEW q, InPlace(b, q), NEW e \in Awaiting, Within(q, e.card)
  PROVE  InPlace(b, Append(q, e)) /\ Within(Append(q, e), e.card)
<1>1. PICK r : r = Append(q, e)
  OBVIOUS
<1>2. /\ q \in Seq(Entry) /\ e \in Entry /\ IsIntent(e) /\ e.card \in Nat
  BY EntryKinds DEF InPlace, Entry, Awaiting
<1>3. /\ r \in Seq(Entry) /\ Len(r) = Len(q) + 1 /\ Len(q) \in Nat
      /\ \A n \in 1 .. Len(q) : r[n] = q[n]
      /\ r[Len(q) + 1] = e
  BY <1>1, <1>2
<1>4. Writings(r) = Writings(q) /\ \A n \in Writings(q) : r[n] = q[n]
  BY <1>2, <1>3 DEF Writings
<1>5. Turns(r) = Turns(q)
  BY <1>4 DEF Turns
<1>6. /\ QueueInOrder(r) /\ BufferInOrder(b, r) /\ QueueMeant(r) /\ Unsaid(b, r)
      /\ \A k : Reaches(q, k) => Reaches(r, k)
  BY <1>4, <1>5 DEF InPlace, QueueInOrder, BufferInOrder, QueueMeant, Unsaid, Reaches
<1>7. \A n \in 1 .. Len(r) : n \in 1 .. Len(q) \/ n = Len(q) + 1
  BY <1>3
<1>8. Within(r, e.card)
  BY <1>2, <1>3, <1>6, <1>7 DEF Within
<1>9. Ahead(r)
  <2>1. Ahead(q)
    BY DEF InPlace
  <2>2. card # Nothing => Reaches(r, card)
    BY <1>6, <2>1 DEF Ahead
  <2>3. ASSUME NEW n \in 1 .. Len(r), IsIntent(r[n])
        PROVE  /\ Reaches(r, r[n].card) /\ (card # Nothing => card =< r[n].card)
               /\ \A m \in 1 .. n - 1 : IsIntent(r[m]) => r[m].card =< r[n].card
    <3>1. CASE n \in 1 .. Len(q)
      <4>1. r[n] = q[n] /\ \A m \in 1 .. n - 1 : m \in 1 .. Len(q) /\ r[m] = q[m]
        BY <1>3, <3>1
      <4> QED  BY <1>6, <2>1, <2>3, <3>1, <4>1 DEF Ahead
    <3>2. CASE n = Len(q) + 1
      <4>1. r[n] = e /\ \A m \in 1 .. n - 1 : m \in 1 .. Len(r)
        BY <1>3, <3>2
      <4> QED  BY <1>8, <4>1 DEF Within
    <3> QED  BY <1>7, <3>1, <3>2
  <2>4. \A n \in Writings(r) :
          /\ \A m \in Writings(r) : m < n => r[n].to = Nothing
          /\ r[n].to \notin {Nothing, 0} =>
               \A c \in 1 .. Len(cards) : cards[c] # << >> => c =< r[n].to
    BY <1>4, <2>1 DEF Ahead
  <2> QED  BY <2>2, <2>3, <2>4 DEF Ahead
<1> QED  BY <1>1, <1>3, <1>6, <1>8, <1>9 DEF InPlace

-----------------------------------------------------------------------------
(* The buffer.                                                             *)

\* A turn that is ensured is new only if it had left the buffer or was forgotten.
LEMMA EnsuredInPlace ==
  ASSUME VoiceTyped, NEW b, NEW q, InPlace(b, q), NEW i \in Utterance
  PROVE  /\ InPlace(Ensured(b, i), q)
         /\ Ensured(b, i).turns[i] \in Turn
         /\ Ensured(b, i).ignored = b.ignored
<1>1. b \in Buffers /\ i \in Utterances /\ b.turns[i] \in Turn \union {Nothing}
  BY Typical DEF InPlace, Buffers
<1>2. CASE b.turns[i] # Nothing
  BY <1>1, <1>2 DEF Ensured
<1>3. CASE b.turns[i] = Nothing
  <2>1. PICK t : t = NewTurn
    OBVIOUS
  <2>2. t \in Turn /\ t # Nothing /\ t.outcome = "none"
    BY <2>1, Typical DEF NewTurn
  <2>3. PICK on : on = Ensured(b, i)
    OBVIOUS
  <2>4. PICK order : order = Append(b.order, i)
    OBVIOUS
  <2>5. on = [b EXCEPT !.turns[i] = t, !.order = order]
    BY <1>3, <2>1, <2>3, <2>4 DEF Ensured
  <2>6. /\ b.order \in Seq(Utterance) /\ order \in Seq(Utterance)
        /\ Len(order) = Len(b.order) + 1 /\ Len(b.order) \in Nat
        /\ \A n \in 1 .. Len(b.order) : order[n] = b.order[n]
        /\ order[Len(b.order) + 1] = i
    BY <1>1, <2>4 DEF Buffers
  <2>7. /\ on \in Buffers /\ on.ignored = b.ignored /\ on.order = order
        /\ on.turns[i] = t
        /\ \A j \in Utterances : j # i => on.turns[j] = b.turns[j]
    BY <1>1, <2>2, <2>5, <2>6 DEF Buffers
  <2>8. i =< forgotten \/ i \in b.ignored
    BY <1>3, Typical DEF InPlace, Complete, Utterance
  <2>9. BufferInOrder(on, q)
    <3> SUFFICES ASSUME NEW n \in 1 .. Len(order),
                        order[n] > forgotten, order[n] \notin b.ignored
                 PROVE  /\ \A k \in b.ignored \union Written \union Turns(q) : k < order[n]
                        /\ \A m \in 1 .. n - 1 : order[m] < order[n]
      BY <2>7 DEF BufferInOrder
    <3>1. n # Len(b.order) + 1
      BY <2>6, <2>8, Typical DEF Utterance
    <3>2. n \in 1 .. Len(b.order) /\ \A m \in 1 .. n : m \in 1 .. Len(b.order)
      BY <2>6, <3>1
    <3>3. /\ \A k \in b.ignored \union Written \union Turns(q) : k < b.order[n]
          /\ \A m \in 1 .. n - 1 : b.order[m] < b.order[n]
      BY <2>6, <3>2 DEF InPlace, BufferInOrder
    <3>4. order[n] = b.order[n] /\ \A m \in 1 .. n - 1 : order[m] = b.order[m]
      BY <2>6, <3>2
    <3> QED  BY <3>3, <3>4
  <2>10. Complete(on)
    <3>1. \A j \in Utterances : on.turns[j] # Nothing <=> \E n \in 1 .. Len(order) : order[n] = j
      <4> SUFFICES ASSUME NEW j \in Utterances
                   PROVE  on.turns[j] # Nothing <=> \E n \in 1 .. Len(order) : order[n] = j
        OBVIOUS
      <4>1. CASE j = i
        <5>1. Len(b.order) + 1 \in 1 .. Len(order)
          BY <2>6
        <5> QED  BY <2>2, <2>6, <2>7, <4>1, <5>1
      <4>2. CASE j # i
        <5>1. b.turns[j] # Nothing <=> \E n \in 1 .. Len(b.order) : b.order[n] = j
          BY DEF InPlace, Complete
        <5>2. (\E n \in 1 .. Len(b.order) : b.order[n] = j)
                <=> \E n \in 1 .. Len(order) : order[n] = j
          <6>1. 1 .. Len(order) = (1 .. Len(b.order)) \union {Len(b.order) + 1}
            BY <2>6
          <6> QED  BY <2>6, <4>2, <6>1
        <5> QED  BY <2>7, <4>2, <5>1, <5>2
      <4> QED  BY <4>1, <4>2
    <3>2. \A j \in forgotten + 1 .. spoken : j \in b.ignored \/ on.turns[j] # Nothing
      <4>1. \A j \in forgotten + 1 .. spoken : j \in Utterances
        BY Typical DEF Utterances
      <4> QED  BY <2>2, <2>7, <4>1 DEF InPlace, Complete
    <3>3. \A j \in b.ignored : on.turns[j] # Nothing => on.turns[j].outcome = "none"
      <4>1. \A j \in b.ignored : j \in Utterances
        BY <1>1, Typical DEF Buffers
      <4> QED  BY <2>2, <2>7, <4>1 DEF InPlace, Complete
    <3> QED  BY <2>7, <3>1, <3>2, <3>3 DEF Complete
  <2>11. BufferMeant(on)
    BY <2>7, <2>8, Typical DEF InPlace, BufferMeant, Utterance
  <2>12. Distinct(on)
    <3>1. \A n \in 1 .. Len(b.order) : b.order[n] # i
      BY <1>1, <1>3 DEF InPlace, Complete
    <3>2. \A n \in 1 .. Len(order) : \A m \in 1 .. n - 1 : order[m] # order[n]
      <4> SUFFICES ASSUME NEW n \in 1 .. Len(order), NEW m \in 1 .. n - 1
                   PROVE  order[m] # order[n]
        OBVIOUS
      <4>1. m \in 1 .. Len(b.order)
        BY <2>6
      <4>2. CASE n = Len(b.order) + 1
        BY <2>6, <3>1, <4>1, <4>2
      <4>3. CASE n \in 1 .. Len(b.order)
        BY <2>6, <4>1, <4>3 DEF InPlace, Distinct
      <4> QED  BY <2>6, <4>2, <4>3
    <3> QED  BY <2>7, <3>2 DEF Distinct
  <2>13. Unsaid(on, q)
    <3>1. t.thought = FALSE
      BY <2>1 DEF NewTurn
    <3>2. \A j \in Utterance : j \in Utterances
      BY Typical
    <3> QED  BY <2>7, <3>1, <3>2 DEF InPlace, Unsaid
  <2> QED  BY <2>2, <2>3, <2>7, <2>9, <2>10, <2>11, <2>12, <2>13 DEF InPlace
<1> QED  BY <1>2, <1>3

\* A turn changes and stays in its place.
LEMMA TurnInPlace ==
  ASSUME VoiceTyped, NEW b, NEW q, InPlace(b, q),
         NEW i \in Utterances, b.turns[i] \in Turn, NEW t \in Turn,
         t.capturing \/ t.thought => b.turns[i].capturing \/ b.turns[i].thought,
         t.thought => b.turns[i].thought \/ i \in transcribing,
         i \in b.ignored => t.outcome = "none"
  PROVE  InPlace([b EXCEPT !.turns[i] = t], q)
<1>1. PICK c : c = [b EXCEPT !.turns[i] = t]
  OBVIOUS
<1>2. b \in Buffers
  BY DEF InPlace
<1>3. /\ c \in Buffers /\ c.ignored = b.ignored /\ c.order = b.order
      /\ c.turns[i] = t
      /\ \A j \in Utterances : j # i => c.turns[j] = b.turns[j]
  BY <1>1, <1>2 DEF Buffers
<1>4. t # Nothing /\ b.turns[i] # Nothing
  BY TurnAssumption
<1>5. BufferInOrder(c, q)
  BY <1>3 DEF InPlace, BufferInOrder
<1>6. Complete(c)
  <2>1. \A j \in Utterances : c.turns[j] # Nothing <=> b.turns[j] # Nothing
    BY <1>3, <1>4
  <2>2. \A j \in Utterances : c.turns[j] # Nothing <=> \E n \in 1 .. Len(c.order) : c.order[n] = j
    BY <1>3, <2>1 DEF InPlace, Complete
  <2>3. \A j \in forgotten + 1 .. spoken : j \in c.ignored \/ c.turns[j] # Nothing
    <3>1. \A j \in forgotten + 1 .. spoken : j \in Utterances
      BY Typical DEF Utterances
    <3> QED  BY <1>3, <2>1, <3>1 DEF InPlace, Complete
  <2>4. \A j \in c.ignored : c.turns[j] # Nothing => c.turns[j].outcome = "none"
    <3>1. \A j \in b.ignored : j \in Utterances
      BY <1>2, Typical DEF Buffers
    <3> QED  BY <1>3, <3>1 DEF InPlace, Complete
  <2> QED  BY <2>2, <2>3, <2>4 DEF Complete
<1>7. BufferMeant(c) /\ Distinct(c)
  BY <1>3, <1>4 DEF InPlace, BufferMeant, Distinct
<1>8. Unsaid(c, q)
  <2>1. \A j \in Utterance : j \in Utterances
    BY Typical
  <2> QED  BY <1>3, <1>4, <2>1 DEF InPlace, Unsaid
<1> QED  BY <1>1, <1>3, <1>5, <1>6, <1>7, <1>8 DEF InPlace

LEMMA ReservedInPlace ==
  ASSUME VoiceTyped, NEW b, NEW q, InPlace(b, q), NEW u \in 0 .. spoken
  PROVE  InPlace(Reserved(b, u), q)
<1>1. PICK i : i = IF u = 0 THEN b.current ELSE u
  OBVIOUS
<1>2. CASE i = 0
  BY <1>1, <1>2 DEF Reserved
<1>3. CASE i # 0
  <2>1. i \in Utterance /\ i \in Utterances
    BY <1>1, <1>3, Typical DEF InPlace, Buffers, Utterance
  <2>2. PICK on : on = Ensured(b, i)
    OBVIOUS
  <2>3. InPlace(on, q) /\ on.turns[i] \in Turn /\ on.ignored = b.ignored
    BY <2>1, <2>2, EnsuredInPlace
  <2>4. PICK t : t = on.turns[i]
    OBVIOUS
  <2>5. PICK taken, noted : /\ taken = [t EXCEPT !.available = FALSE, !.thought = FALSE]
                           /\ noted = [t EXCEPT !.suppress = @ + 1]
    OBVIOUS
  <2>6. /\ taken \in Turn /\ noted \in Turn
        /\ taken.capturing = t.capturing /\ ~taken.thought /\ taken.outcome = t.outcome
        /\ noted.capturing = t.capturing /\ noted.thought = t.thought
        /\ noted.outcome = t.outcome
    <3>1. t \in Turn
      BY <2>3, <2>4
    <3>2. taken \in Turn
      BY <2>5, <3>1 DEF Turn
    <3>3. noted \in Turn
      BY <2>5, <3>1 DEF Turn
    <3>4. taken.capturing = t.capturing /\ taken.thought = FALSE /\ taken.outcome = t.outcome
      BY <2>5, <3>1 DEF Turn
    <3>5. /\ noted.capturing = t.capturing /\ noted.thought = t.thought
          /\ noted.outcome = t.outcome
      BY <2>5, <3>1 DEF Turn
    <3> QED  BY <3>2, <3>3, <3>4, <3>5
  <2>7. i \in on.ignored => t.outcome = "none"
    <3>1. t # Nothing
      BY <2>3, <2>4, TurnAssumption
    <3> QED  BY <2>3, <2>4, <3>1 DEF InPlace, Complete
  <2>8. InPlace([on EXCEPT !.turns[i] = taken], q) /\ InPlace([on EXCEPT !.turns[i] = noted], q)
    BY <2>1, <2>3, <2>4, <2>6, <2>7, TurnInPlace
  <2>9. on \in Buffers
    BY <2>3 DEF InPlace
  <2>10. Reserved(b, u) = IF t.available THEN [on EXCEPT !.turns[i] = taken]
                                         ELSE [on EXCEPT !.turns[i] = noted]
    BY <1>1, <1>3, <2>1, <2>2, <2>3, <2>4, <2>5, <2>9, ZenonT(40) DEF Reserved, Buffers
  <2> QED  BY <2>8, <2>10
<1> QED  BY <1>2, <1>3

\* What leaves is the front of the buffer as far as it is ready.
LEMMA LeavingIs ==
  ASSUME VoiceTyped, NEW b \in Buffers
  PROVE  \E n \in 0 .. Len(b.order) :
           /\ Leaving(b) = SubSeq(b.order, 1, n)
           /\ \A k \in 1 .. n : IsReady(b.turns[b.order[k]])
           /\ n < Len(b.order) => ~IsReady(b.turns[b.order[n + 1]])
<1> DEFINE ready(n) == \A k \in 1 .. n : IsReady(b.turns[b.order[k]])
           whole(n) == ready(n) /\ (n < Len(b.order) => ~ready(n + 1))
           T == { n \in 0 .. Len(b.order) : n = Len(b.order) \/ ~ready(n + 1) }
<1>1. Len(b.order) \in Nat
  BY DEF Buffers
<1>2. PICK n \in T : \A m \in T : n =< m
  <2>1. T \subseteq Nat /\ T # {}
    BY <1>1
  <2> QED  BY <2>1, LeastNat
<1>3. n \in 0 .. Len(b.order) /\ (n < Len(b.order) => ~ready(n + 1))
  BY <1>1, <1>2
<1>4. ready(n)
  <2>1. CASE n = 0
    BY <2>1
  <2>2. CASE n # 0
    <3>1. n - 1 \in 0 .. Len(b.order) /\ n - 1 < n /\ n - 1 # Len(b.order) /\ (n - 1) + 1 = n
      BY <1>1, <1>3, <2>2
    <3>2. n - 1 \notin T
      BY <1>2, <3>1
    <3> QED  BY <3>1, <3>2
  <2> QED  BY <2>1, <2>2
<1> HIDE DEF T, ready
<1>5. \E m \in 0 .. Len(b.order) : whole(m)
  BY <1>3, <1>4
<1>6. PICK m \in 0 .. Len(b.order) : m = (CHOOSE k \in 0 .. Len(b.order) : whole(k)) /\ whole(m)
  BY <1>5
<1>7. Leaving(b) = SubSeq(b.order, 1, m)
  BY <1>6 DEF Leaving, ready
<1>8. m < Len(b.order) => ~IsReady(b.turns[b.order[m + 1]])
  <2> SUFFICES ASSUME m < Len(b.order), IsReady(b.turns[b.order[m + 1]])  PROVE FALSE
    OBVIOUS
  <2>1. ready(m) /\ ~ready(m + 1)
    BY <1>6
  <2>2. \A k \in 1 .. m + 1 : k \in 1 .. m \/ k = m + 1
    BY <1>1, <1>6
  <2> QED  BY <2>1, <2>2 DEF ready
<1> QED  BY <1>6, <1>7, <1>8 DEF ready

\* The turns that leave go from the front of the buffer to the end of the queue.
LEMMA DrainInPlace ==
  ASSUME VoiceTyped, NEW b, NEW q, InPlace(b, q), NEW top \in Nat, Within(q, top)
  PROVE  /\ InPlace(Drained(b), Moved(q \o Committed(b)))
         /\ Within(Moved(q \o Committed(b)), top)
<1>1. b \in Buffers /\ q \in Seq(Entry) /\ b.order \in Seq(Utterance) /\ Len(b.order) \in Nat
  BY DEF InPlace, Buffers
<1>2. PICK n \in 0 .. Len(b.order) :
        /\ Leaving(b) = SubSeq(b.order, 1, n)
        /\ \A k \in 1 .. n : IsReady(b.turns[b.order[k]])
  BY <1>1, LeavingIs
<1>3. PICK leaving : leaving = Leaving(b)
  OBVIOUS
<1>4. /\ leaving \in Seq(Utterance) /\ Len(leaving) = n /\ n \in Nat
      /\ \A k \in 1 .. n : leaving[k] = b.order[k] /\ b.order[k] \in Utterance
  BY <1>1, <1>2, <1>3
<1>5. PICK gone : gone = { b.order[k] : k \in 1 .. n }
  OBVIOUS
<1>6. Range(leaving) = gone
  BY <1>4, <1>5 DEF Range
<1>7. gone \subseteq Utterance /\ gone \cap b.ignored = {}
  <2>1. ASSUME NEW k \in 1 .. n  PROVE b.order[k] \notin b.ignored
    <3>1. k \in 1 .. Len(b.order) /\ b.order[k] \in Utterances
      BY <1>2, <1>4, Typical
    <3>2. b.turns[b.order[k]] # Nothing
      BY <3>1 DEF InPlace, Complete
    <3>3. b.turns[b.order[k]].outcome # "none"
      BY <1>2 DEF IsReady
    <3> QED  BY <3>2, <3>3 DEF InPlace, Complete
  <2> QED  BY <1>4, <1>5, <2>1
<1> DEFINE Says(i) == b.turns[i].outcome = "completed" /\ b.turns[i].thought
           left == { k \in 1 .. Len(b.order) : b.order[k] \notin gone }
           said == { k \in 1 .. Len(leaving) : Says(leaving[k]) }
<1>8. PICK order, thoughts : order = Selected(b.order, left) /\ thoughts = Selected(leaving, said)
  OBVIOUS
<1>9. PICK d : d = Drained(b)
  OBVIOUS
<1>10. d = [b EXCEPT !.turns = [i \in Utterances |-> IF i \in gone THEN Nothing ELSE @[i]],
                     !.order = order, !.ignored = @ \union gone]
  BY <1>3, <1>6, <1>8, <1>9 DEF Drained
<1>11. order \in Seq(Utterance) /\ \E h : Picks(h, order, b.order, left)
  BY <1>1, <1>8, SelectedIs, Zenon
<1>12. thoughts \in Seq(Utterance) /\ \E f : Picks(f, thoughts, leaving, said)
  BY <1>4, <1>8, SelectedIs, Zenon
<1>13. PICK h : Picks(h, order, b.order, left)
  BY <1>11
<1>14. PICK f : Picks(f, thoughts, leaving, said)
  BY <1>12
<1>15. PICK added : added = Committed(b)
  OBVIOUS
<1>16. added = [k \in 1 .. Len(thoughts) |-> [turn |-> thoughts[k], epoch |-> epoch, to |-> Nothing]]
  BY <1>3, <1>8, <1>15, Zenon DEF Committed
<1>17. /\ Len(thoughts) \in Nat
       /\ \A k \in 1 .. Len(thoughts) : /\ f[k] \in 1 .. n /\ thoughts[k] = b.order[f[k]]
                                        /\ b.turns[thoughts[k]].thought
       /\ \A k, l \in 1 .. Len(thoughts) : k < l => f[k] < f[l]
  <2>1. \A k \in 1 .. Len(thoughts) : f[k] \in said
    BY <1>14 DEF Picks
  <2>2. \A k \in 1 .. Len(thoughts) : f[k] \in 1 .. n /\ Says(leaving[f[k]])
    BY <1>4, <2>1
  <2>3. \A k \in 1 .. Len(thoughts) : thoughts[k] = leaving[f[k]]
    BY <1>14 DEF Picks
  <2>4. \A k \in 1 .. Len(thoughts) : thoughts[k] = b.order[f[k]]
    BY <1>4, <2>2, <2>3
  <2>5. \A k \in 1 .. Len(thoughts) : b.turns[thoughts[k]].thought
    BY <2>2, <2>3
  <2>6. \A k, l \in 1 .. Len(thoughts) : k < l => f[k] < f[l]
    BY <1>14 DEF Picks
  <2>7. Len(thoughts) \in Nat
    BY <1>12
  <2> QED  BY <2>2, <2>4, <2>5, <2>6, <2>7, Zenon
<1>18. /\ Len(order) \in Nat
       /\ \A k \in 1 .. Len(order) : /\ h[k] \in 1 .. Len(b.order) /\ order[k] = b.order[h[k]]
                                     /\ order[k] \notin gone
       /\ \A k, l \in 1 .. Len(order) : k < l => h[k] < h[l]
       /\ \A m \in 1 .. Len(b.order) : b.order[m] \notin gone => \E k \in 1 .. Len(order) : h[k] = m
  <2>1. \A k \in 1 .. Len(order) : h[k] \in left
    BY <1>13 DEF Picks
  <2>2. \A m \in left : \E k \in 1 .. Len(order) : h[k] = m
    BY <1>13 DEF Picks
  <2> QED  BY <1>11, <1>13, <2>1, <2>2, SMTT(30) DEF Picks
<1> HIDE DEF left, said, Says
<1>19. /\ d \in Buffers /\ d.order = order /\ d.ignored = b.ignored \union gone
       /\ \A i \in Utterances : d.turns[i] = IF i \in gone THEN Nothing ELSE b.turns[i]
  BY <1>1, <1>7, <1>10, <1>11 DEF Buffers
<1>20. PICK r : r = q \o added
  OBVIOUS
<1>21. /\ added \in Seq(Entry) /\ Len(added) = Len(thoughts)
       /\ \A k \in 1 .. Len(thoughts) :
            ~IsIntent(added[k]) /\ added[k].turn = thoughts[k] /\ added[k].to = Nothing
  <2>1. \A k \in 1 .. Len(thoughts) : /\ added[k] \in Writing
                                      /\ added[k].turn = thoughts[k] /\ added[k].to = Nothing
    BY <1>12, <1>16 DEF Writing, VoiceTyped
  <2>2. \A k \in 1 .. Len(thoughts) : added[k] \in Entry /\ ~IsIntent(added[k])
    BY <2>1, EntryKinds DEF Entry
  <2>3. added = [k \in 1 .. Len(thoughts) |-> added[k]]
    BY <1>16
  <2>4. PICK m \in Nat : m = Len(thoughts)
    BY <1>17
  <2>5. added \in [1 .. m -> Entry]
    BY <2>2, <2>3, <2>4, Zenon
  <2>6. added \in Seq(Entry) /\ Len(added) = Len(thoughts)
    BY <2>4, <2>5
  <2> QED  BY <2>1, <2>2, <2>6
<1>22. /\ r \in Seq(Entry) /\ Len(q) \in Nat /\ Len(r) = Len(q) + Len(thoughts)
       /\ \A k \in 1 .. Len(q) : r[k] = q[k]
       /\ \A k \in 1 .. Len(thoughts) : r[Len(q) + k] = added[k]
  <2>1. added \in Seq(Entry) /\ Len(added) = Len(thoughts)
    BY <1>21
  <2>a. q \in Seq(Entry) /\ added \in Seq(Entry)
    BY <1>1, <2>1
  <2>b. r \in Seq(Entry)
    BY <1>20, <2>a
  <2>c. Len(q) \in Nat /\ Len(r) = Len(q) + Len(added)
    BY <1>20, <2>a
  <2>2. r \in Seq(Entry) /\ Len(q) \in Nat /\ Len(r) = Len(q) + Len(thoughts)
    BY <2>1, <2>b, <2>c
  <2>3. \A k \in 1 .. Len(q) : r[k] = q[k]
    BY <1>20, <2>a
  <2>4. \A k \in 1 .. Len(thoughts) : r[Len(q) + k] = added[k]
    BY <1>20, <2>1, <2>a
  <2> QED  BY <2>2, <2>3, <2>4, Zenon
<1>23. \A m \in Writings(r) :
         \/ m \in Writings(q) /\ r[m] = q[m] /\ m =< Len(q)
         \/ \E k \in 1 .. Len(thoughts) :
              /\ m = Len(q) + k /\ r[m].turn = thoughts[k] /\ r[m].to = Nothing
  <2> SUFFICES ASSUME NEW m \in 1 .. Len(r), ~IsIntent(r[m])
               PROVE  \/ m \in Writings(q) /\ r[m] = q[m] /\ m =< Len(q)
                      \/ \E k \in 1 .. Len(thoughts) :
                           /\ m = Len(q) + k /\ r[m].turn = thoughts[k] /\ r[m].to = Nothing
    BY DEF Writings
  <2>1. CASE m =< Len(q)
    BY <1>22, <2>1 DEF Writings
  <2>2. CASE m > Len(q)
    <3>1. m - Len(q) \in 1 .. Len(thoughts) /\ m = Len(q) + (m - Len(q))
      BY <1>17, <1>22, <2>2
    <3> QED  BY <1>21, <1>22, <3>1
  <2> QED  BY <1>22, <2>1, <2>2
<1>24. \A k \in 1 .. Len(thoughts) : thoughts[k] \in gone /\ thoughts[k] \notin b.ignored
  BY <1>5, <1>7, <1>17
<1>25. Turns(r) \subseteq Turns(q) \union gone
  BY <1>23, <1>24 DEF Turns
\* What leaves is said for the first time.
<1>a. ASSUME NEW k \in 1 .. Len(thoughts)
      PROVE  /\ f[k] \in 1 .. Len(b.order) /\ f[k] \in Nat /\ thoughts[k] = b.order[f[k]]
             /\ thoughts[k] \in Utterance /\ thoughts[k] \in Utterances
             /\ b.turns[thoughts[k]] # Nothing
             /\ thoughts[k] \notin Written \union Turns(q)
             /\ thoughts[k] \notin dropped => thoughts[k] > forgotten
  <2>1. /\ f[k] \in 1 .. Len(b.order) /\ f[k] \in Nat /\ thoughts[k] = b.order[f[k]]
        /\ thoughts[k] \in Utterance /\ thoughts[k] \in Utterances
    BY <1>2, <1>4, <1>17, Typical
  <2>2. b.turns[thoughts[k]] # Nothing
    BY <2>1 DEF InPlace, Complete
  <2>3. /\ thoughts[k] \notin Written \union Turns(q)
        /\ thoughts[k] =< forgotten => thoughts[k] \in dropped
    BY <1>17, <1>24, <2>1, <2>2 DEF InPlace, Unsaid
  <2>4. thoughts[k] \notin dropped => thoughts[k] > forgotten
    BY <2>1, <2>3, Typical DEF Utterance
  <2> QED  BY <2>1, <2>2, <2>3, <2>4
<1>b. ASSUME NEW k \in 1 .. Len(thoughts), thoughts[k] \notin dropped
      PROVE  /\ \A i \in Written \union Turns(q) : i < thoughts[k]
             /\ \A l \in 1 .. f[k] - 1 : b.order[l] < thoughts[k]
  BY <1>24, <1>a, <1>b DEF InPlace, BufferInOrder
<1>26. QueueInOrder(r)
  <2> SUFFICES ASSUME NEW m \in Writings(r)
               PROVE  /\ r[m].turn \notin Written
                      /\ \A l \in Writings(r) : l < m =>
                           /\ r[l].turn # r[m].turn
                           /\ r[l].turn \notin dropped /\ r[m].turn \notin dropped
                                => r[l].turn < r[m].turn
                      /\ r[m].turn \notin dropped => \A i \in Written \ dropped : i < r[m].turn
    BY DEF QueueInOrder
  <2>1. CASE m \in Writings(q) /\ r[m] = q[m] /\ m =< Len(q)
    <3>1. \A l \in Writings(r) : l < m => l \in Writings(q) /\ r[l] = q[l]
      <4> SUFFICES ASSUME NEW l \in Writings(r), l < m
                   PROVE  l \in Writings(q) /\ r[l] = q[l]
        OBVIOUS
      <4>1. l \in 1 .. Len(r) /\ m \in 1 .. Len(r)
        BY DEF Writings
      <4>2. ~ \E k \in 1 .. Len(thoughts) : l = Len(q) + k
        BY <1>17, <1>22, <2>1, <4>1
      <4> QED  BY <1>23, <4>2
    <3> QED  BY <2>1, <3>1 DEF InPlace, QueueInOrder
  <2>2. CASE \E k \in 1 .. Len(thoughts) : m = Len(q) + k /\ r[m].turn = thoughts[k]
    <3>1. PICK k \in 1 .. Len(thoughts) : m = Len(q) + k /\ r[m].turn = thoughts[k]
      BY <2>2
    <3>2. /\ f[k] \in 1 .. Len(b.order) /\ f[k] \in Nat /\ thoughts[k] = b.order[f[k]]
          /\ thoughts[k] \notin Written \union Turns(q)
      BY <1>a
    <3>3. thoughts[k] \notin dropped =>
            /\ \A i \in Written \union Turns(q) : i < thoughts[k]
            /\ \A l \in 1 .. f[k] - 1 : b.order[l] < thoughts[k]
      BY <1>b
    <3>4. ASSUME NEW l \in Writings(r), l < m
          PROVE  /\ r[l].turn # thoughts[k]
                 /\ thoughts[k] \notin dropped => r[l].turn < thoughts[k]
      <4>1. CASE l \in Writings(q) /\ r[l] = q[l]
        BY <3>2, <3>3, <4>1 DEF Turns
      <4>2. CASE \E j \in 1 .. Len(thoughts) : l = Len(q) + j /\ r[l].turn = thoughts[j]
        <5>1. PICK j \in 1 .. Len(thoughts) : l = Len(q) + j /\ r[l].turn = thoughts[j]
          BY <4>2
        <5>2. j < k
          BY <1>17, <1>22, <3>1, <3>4, <5>1
        <5>3. f[j] < f[k] /\ f[j] \in 1 .. n
          BY <1>17, <5>2
        <5>4. f[j] \in 1 .. f[k] - 1
          BY <1>4, <3>2, <5>3
        <5>5. b.order[f[j]] # b.order[f[k]]
          BY <3>2, <5>4 DEF InPlace, Distinct
        <5> QED  BY <1>17, <3>2, <3>3, <5>1, <5>4, <5>5
      <4> QED  BY <1>23, <4>1, <4>2
    <3> QED  BY <3>1, <3>2, <3>3, <3>4
  <2> QED  BY <1>23, <2>1, <2>2
<1>27. BufferInOrder(d, r)
  <2> SUFFICES ASSUME NEW x \in 1 .. Len(order), order[x] > forgotten,
                      order[x] \notin b.ignored \union gone
               PROVE  /\ \A i \in b.ignored \union gone \union Written \union Turns(r) : i < order[x]
                      /\ \A m \in 1 .. x - 1 : order[m] < order[x]
    BY <1>19 DEF BufferInOrder
  <2>1. h[x] \in 1 .. Len(b.order) /\ order[x] = b.order[h[x]]
    BY <1>18
  <2>2. /\ \A i \in b.ignored \union Written \union Turns(q) : i < order[x]
        /\ \A m \in 1 .. h[x] - 1 : b.order[m] < order[x]
    BY <2>1 DEF InPlace, BufferInOrder
  <2>3. \A i \in gone : i < order[x]
    <3> SUFFICES ASSUME NEW k \in 1 .. n  PROVE b.order[k] < order[x]
      BY <1>5
    <3>1. h[x] \notin 1 .. n
      BY <1>5, <2>1
    <3>2. k \in 1 .. h[x] - 1
      BY <1>1, <1>2, <2>1, <3>1
    <3> QED  BY <2>2, <3>2
  <2>4. \A m \in 1 .. x - 1 : order[m] < order[x]
    <3> SUFFICES ASSUME NEW m \in 1 .. x - 1  PROVE order[m] < order[x]
      OBVIOUS
    <3>1. m \in 1 .. Len(order) /\ m < x
      BY <1>18
    <3>2. h[m] < h[x] /\ order[m] = b.order[h[m]] /\ h[m] \in 1 .. Len(b.order)
      BY <1>18, <3>1
    <3>3. h[m] \in 1 .. h[x] - 1
      BY <1>1, <2>1, <3>2
    <3> QED  BY <2>2, <3>2, <3>3
  <2> QED  BY <1>25, <2>2, <2>3, <2>4
<1>28. Complete(d)
  <2>1. \A i \in Utterances : d.turns[i] # Nothing <=> \E x \in 1 .. Len(order) : order[x] = i
    <3> SUFFICES ASSUME NEW i \in Utterances
                 PROVE  d.turns[i] # Nothing <=> \E x \in 1 .. Len(order) : order[x] = i
      OBVIOUS
    <3>1. b.turns[i] # Nothing <=> \E m \in 1 .. Len(b.order) : b.order[m] = i
      BY DEF InPlace, Complete
    <3>2. (\E x \in 1 .. Len(order) : order[x] = i)
            <=> i \notin gone /\ \E m \in 1 .. Len(b.order) : b.order[m] = i
      <4>1. ASSUME NEW x \in 1 .. Len(order), order[x] = i
            PROVE  i \notin gone /\ \E m \in 1 .. Len(b.order) : b.order[m] = i
        BY <1>18, <4>1
      <4>2. ASSUME i \notin gone, NEW m \in 1 .. Len(b.order), b.order[m] = i
            PROVE  \E x \in 1 .. Len(order) : order[x] = i
        <5>1. PICK x \in 1 .. Len(order) : h[x] = m
          BY <1>18, <4>2
        <5> QED  BY <1>18, <4>2, <5>1
      <4> QED  BY <4>1, <4>2
    <3> QED  BY <1>19, <3>1, <3>2
  <2>2. \A i \in forgotten + 1 .. spoken : i \in d.ignored \/ d.turns[i] # Nothing
    <3>1. \A i \in forgotten + 1 .. spoken : i \in Utterances
      BY Typical DEF Utterances
    <3> QED  BY <1>19, <3>1 DEF InPlace, Complete
  <2>3. \A i \in d.ignored : d.turns[i] # Nothing => d.turns[i].outcome = "none"
    <3>1. \A i \in d.ignored : i \in Utterances
      BY <1>19, Typical DEF Buffers
    <3> QED  BY <1>19, <3>1 DEF InPlace, Complete
  <2> QED  BY <1>19, <2>1, <2>2, <2>3 DEF Complete
<1>29. QueueMeant(r)
  <2> SUFFICES ASSUME NEW m \in Writings(r), r[m].turn \notin dropped
               PROVE  /\ meant[r[m].turn] # Nothing
                      /\ r[m].to \notin {Nothing, 0} => meant[r[m].turn] =< r[m].to
    BY DEF QueueMeant
  <2>1. CASE m \in Writings(q) /\ r[m] = q[m]
    BY <2>1 DEF InPlace, QueueMeant
  <2>2. CASE \E k \in 1 .. Len(thoughts) : r[m].turn = thoughts[k] /\ r[m].to = Nothing
    <3>1. PICK k \in 1 .. Len(thoughts) : r[m].turn = thoughts[k] /\ r[m].to = Nothing
      BY <2>2
    <3>2. meant[thoughts[k]] # Nothing
      BY <1>17, <1>24, <1>a, <3>1 DEF InPlace, BufferMeant
    <3> QED  BY <3>1, <3>2
  <2> QED  BY <1>23, <2>1, <2>2
<1>30. BufferMeant(d)
  BY <1>19 DEF InPlace, BufferMeant
<1>31. Distinct(d)
  <2> SUFFICES ASSUME NEW x \in 1 .. Len(order), NEW m \in 1 .. x - 1
               PROVE  order[m] # order[x]
    BY <1>19 DEF Distinct
  <2>1. m \in 1 .. Len(order) /\ m < x
    BY <1>18
  <2>2. /\ h[m] < h[x] /\ h[x] \in 1 .. Len(b.order) /\ h[m] \in 1 .. Len(b.order)
        /\ order[m] = b.order[h[m]] /\ order[x] = b.order[h[x]]
    BY <1>18, <2>1
  <2>3. h[m] \in 1 .. h[x] - 1
    BY <1>1, <2>2
  <2> QED  BY <2>2, <2>3 DEF InPlace, Distinct
<1>32. Unsaid(d, r)
  <2> SUFFICES ASSUME NEW i \in Utterance \ (b.ignored \union gone),
                      i \in transcribing \/ (d.turns[i] # Nothing /\ d.turns[i].thought)
               PROVE  i \notin Written \union Turns(r) /\ (i =< forgotten => i \in dropped)
    BY <1>19 DEF Unsaid
  <2>1. d.turns[i] = b.turns[i]
    BY <1>19, Typical
  <2>2. i \notin Written \union Turns(q) /\ (i =< forgotten => i \in dropped)
    BY <2>1 DEF InPlace, Unsaid
  <2> QED  BY <1>25, <2>2
\* The new writings wait to be sent.
<1>33. \A k : Reaches(q, k) => Reaches(r, k)
  BY <1>23 DEF Reaches
<1>34. ASSUME NEW m \in 1 .. Len(r), IsIntent(r[m])
       PROVE  m \in 1 .. Len(q) /\ r[m] = q[m]
  <2>1. ~ \E k \in 1 .. Len(thoughts) : m = Len(q) + k
    BY <1>21, <1>22, <1>34
  <2>2. CASE m =< Len(q)
    BY <1>22, <2>2
  <2>3. CASE m > Len(q)
    <3>1. m - Len(q) \in 1 .. Len(thoughts) /\ m = Len(q) + (m - Len(q))
      BY <1>17, <1>22, <2>3
    <3> QED  BY <2>1, <3>1
  <2> QED  BY <1>22, <2>2, <2>3
<1>35. Within(r, top)
  BY <1>33, <1>34 DEF Within
<1>36. Ahead(r)
  <2>1. Ahead(q)
    BY DEF InPlace
  <2>2. card # Nothing => Reaches(r, card)
    BY <1>33, <2>1 DEF Ahead
  <2>3. ASSUME NEW m \in 1 .. Len(r), IsIntent(r[m])
        PROVE  /\ Reaches(r, r[m].card) /\ (card # Nothing => card =< r[m].card)
               /\ \A l \in 1 .. m - 1 : IsIntent(r[l]) => r[l].card =< r[m].card
    <3>1. m \in 1 .. Len(q) /\ r[m] = q[m]
      BY <1>34, <2>3
    <3>2. \A l \in 1 .. m - 1 : l \in 1 .. Len(q) /\ r[l] = q[l]
      BY <1>22, <3>1
    <3> QED  BY <1>33, <2>1, <2>3, <3>1, <3>2 DEF Ahead
  <2>4. ASSUME NEW m \in Writings(r)
        PROVE  /\ \A l \in Writings(r) : l < m => r[m].to = Nothing
               /\ r[m].to \notin {Nothing, 0} =>
                    \A c \in 1 .. Len(cards) : cards[c] # << >> => c =< r[m].to
    <3>1. CASE r[m].to = Nothing
      BY <3>1
    <3>2. CASE m \in Writings(q) /\ r[m] = q[m] /\ m =< Len(q)
      <4>1. ASSUME NEW l \in Writings(r), l < m  PROVE l \in Writings(q)
        <5>1. l \in 1 .. Len(q) /\ ~IsIntent(r[l]) /\ r[l] = q[l]
          BY <1>22, <3>2, <4>1 DEF Writings
        <5> QED  BY <5>1 DEF Writings
      <4> QED  BY <2>1, <3>2, <4>1 DEF Ahead
    <3> QED  BY <1>23, <3>1, <3>2
  <2> QED  BY <2>2, <2>3, <2>4 DEF Ahead
<1>37. InPlace(d, r)
  BY <1>19, <1>22, <1>26, <1>27, <1>28, <1>29, <1>30, <1>31, <1>32, <1>36 DEF InPlace
<1> QED  BY <1>9, <1>15, <1>20, <1>35, <1>37, MovedInPlace

-----------------------------------------------------------------------------
(* The steps.  Most leave alone what the places of utterances depend on.   *)

Quiet == UNCHANGED <<voiceLimit, spoken, forgotten, dropped, card, meant>>

\* A card that is made is empty.
Widened ==
  \A c \in 1 .. Len(cards') : cards'[c] # << >> => c \in 1 .. Len(cards) /\ cards'[c] = cards[c]

LEMMA SpokenSame ==
  ASSUME UNCHANGED <<spoken, voiceLimit>>
  PROVE  /\ Utterance' = Utterance /\ Utterances' = Utterances /\ Call' = Call
         /\ Writing' = Writing /\ Awaiting' = Awaiting /\ Entry' = Entry /\ Buffers' = Buffers
<1>1. Utterance' = Utterance
  BY DEF Utterance
<1>2. Utterances' = Utterances
  BY DEF Utterances
<1>3. Call' = Call
  BY DEF Call
<1>4. Writing' = Writing
  BY <1>1 DEF Writing
<1>5. Awaiting' = Awaiting
  BY <1>3 DEF Awaiting
<1>6. Entry' = Entry
  BY <1>4, <1>5 DEF Entry
<1>7. Buffers' = Buffers
  BY <1>1, <1>2 DEF Buffers
<1> QED  BY <1>1, <1>2, <1>3, <1>4, <1>5, <1>6, <1>7

LEMMA ReachesOn ==
  ASSUME NEW q, NEW k, Reaches(q, k), q = appends', UNCHANGED <<voiceLimit, meant>>, Widened
  PROVE  /\ \A i \in Utterances' : meant'[i] # Nothing => meant'[i] =< k
         /\ \A c \in 1 .. Len(cards') : cards'[c] # << >> => c =< k
         /\ \A n \in Writings(appends)' : appends'[n].to # Nothing => appends'[n].to =< k
<1>1. Utterances' = Utterances /\ meant' = meant
  BY DEF Utterances
<1>2. Writings(appends)' = Writings(q)
  BY DEF Writings, IsIntent
<1>3. \A i \in Utterances' : meant'[i] # Nothing => meant'[i] =< k
  BY <1>1 DEF Reaches
<1>4. \A c \in 1 .. Len(cards') : cards'[c] # << >> => c =< k
  BY DEF Reaches, Widened
<1>5. \A n \in Writings(appends)' : appends'[n].to # Nothing => appends'[n].to =< k
  BY <1>2 DEF Reaches
<1> QED  BY <1>3, <1>4, <1>5

LEMMA QuietInPlace ==
  ASSUME NEW b, NEW q, InPlace(b, q), Within(q, Len(cards')), b = buffer', q = appends',
         Quiet, Widened, Written' = Written, transcribing' \subseteq transcribing
  PROVE  InPlace(buffer, appends)' /\ Within(appends, Len(cards))'
<1>1. UNCHANGED <<voiceLimit, spoken, forgotten, dropped, card, meant>>
  BY DEF Quiet
<1>2. /\ Utterance' = Utterance /\ Utterances' = Utterances
      /\ Entry' = Entry /\ Buffers' = Buffers
  BY <1>1, SpokenSame
<1>3. buffer' \in Buffers' /\ appends' \in Seq(Entry')
  BY <1>2 DEF InPlace
<1>4. Writings(appends)' = Writings(q) /\ Turns(appends)' = Turns(q)
  BY DEF Writings, Turns, IsIntent
<1>5. QueueInOrder(appends)'
  BY <1>1, <1>4 DEF InPlace, QueueInOrder
<1>6. BufferInOrder(buffer, appends)'
  BY <1>1, <1>4 DEF InPlace, BufferInOrder
<1>7. Complete(buffer)' /\ Distinct(buffer)'
  BY <1>1, <1>2 DEF InPlace, Complete, Distinct
<1>8. Unsaid(buffer, appends)'
  BY <1>1, <1>2, <1>4 DEF InPlace, Unsaid
<1>9. QueueMeant(appends)'
  BY <1>1, <1>4 DEF InPlace, QueueMeant
<1>10. BufferMeant(buffer)'
  BY <1>1, <1>2 DEF InPlace, BufferMeant
<1>11. Ahead(appends)'
  <2>1. Ahead(q)
    BY DEF InPlace
  <2>2. (card # Nothing => Reaches(appends, card))'
    BY <1>1, <2>1, ReachesOn DEF Ahead, Reaches
  <2>3. ASSUME NEW n \in 1 .. Len(appends'), IsIntent(q[n])
        PROVE  /\ Reaches(q, q[n].card) /\ (card' # Nothing => card' =< q[n].card)
               /\ \A m \in 1 .. n - 1 : IsIntent(q[m]) => q[m].card =< q[n].card
    BY <1>1, <2>1, <2>3 DEF Ahead
  <2>4. (\A n \in 1 .. Len(appends) : IsIntent(appends[n]) =>
           /\ Reaches(appends, appends[n].card) /\ (card # Nothing => card =< appends[n].card)
           /\ \A m \in 1 .. n - 1 : IsIntent(appends[m]) => appends[m].card =< appends[n].card)'
    BY <1>1, <2>3, ReachesOn DEF Reaches, IsIntent
  <2>5. (\A n \in Writings(appends) :
           /\ \A m \in Writings(appends) : m < n => appends[n].to = Nothing
           /\ appends[n].to \notin {Nothing, 0} =>
                \A c \in 1 .. Len(cards) : cards[c] # << >> => c =< appends[n].to)'
    BY <1>4, <2>1 DEF Ahead, Widened
  <2> QED  BY <2>2, <2>4, <2>5 DEF Ahead
<1>12. Within(appends, Len(cards))'
  <2>1. Reaches(appends, Len(cards))'
    BY <1>1, ReachesOn DEF Within, Reaches
  <2> QED  BY <1>1, <2>1 DEF Within, IsIntent
<1> QED  BY <1>3, <1>5, <1>6, <1>7, <1>8, <1>9, <1>10, <1>11, <1>12 DEF InPlace

\* Two words on the cards are in the order of speech.
Ordered(c, n, d, m) ==
  LET i == cards[c][n]
      j == cards[d][m]
  IN  /\ i = j => c = d /\ n = m
      /\ i \notin dropped => meant[i] # Nothing /\ meant[i] =< c
      /\ i < j /\ i \notin dropped /\ j \notin dropped => c < d \/ (c = d /\ n < m)

LEMMA OrderIs ==
  /\ DictationKeepsOrder <=>
       \A c, d \in 1 .. Len(cards) : \A n \in 1 .. Len(cards[c]), m \in 1 .. Len(cards[d]) :
         Ordered(c, n, d, m)
  /\ DictationKeepsOrder' <=>
       \A c, d \in 1 .. Len(cards') : \A n \in 1 .. Len(cards'[c]), m \in 1 .. Len(cards'[d]) :
         Ordered(c, n, d, m)'
  BY Zenon DEF DictationKeepsOrder, Ordered

LEMMA OrderKept ==
  ASSUME DictationKeepsOrder, Widened, dropped \subseteq dropped',
         \A c \in 1 .. Len(cards) : \A n \in 1 .. Len(cards[c]) :
           meant'[cards[c][n]] = meant[cards[c][n]]
  PROVE  DictationKeepsOrder'
<1> SUFFICES ASSUME NEW c \in 1 .. Len(cards'), NEW d \in 1 .. Len(cards'),
                    NEW n \in 1 .. Len(cards'[c]), NEW m \in 1 .. Len(cards'[d])
             PROVE  Ordered(c, n, d, m)'
  BY OrderIs
<1>1. cards'[c] # << >> /\ cards'[d] # << >>
  OBVIOUS
<1>2. c \in 1 .. Len(cards) /\ cards'[c] = cards[c] /\ d \in 1 .. Len(cards) /\ cards'[d] = cards[d]
  BY <1>1 DEF Widened
<1>3. Ordered(c, n, d, m)
  BY <1>2, OrderIs
<1>4. meant'[cards[c][n]] = meant[cards[c][n]]
  BY <1>2
<1> QED  BY <1>2, <1>3, <1>4 DEF Ordered

LEMMA StaysHushed ==
  ASSUME DictationInv, UNCHANGED status, transcribing' \subseteq transcribing
  PROVE  Hushed'
  BY DEF DictationInv, Hushed, Active

\* A step whose tools, response and buffer keep their types.
LEMMA QuietStep ==
  ASSUME DictationInv, Quiet, UNCHANGED cards, transcribing' \subseteq transcribing,
         VoiceTyped', Hushed',
         NEW b, NEW q, InPlace(b, q), Within(q, Len(cards)), b = buffer', q = appends'
  PROVE  DictationInv'
<1>1. Written' = Written /\ Widened /\ Within(q, Len(cards'))
  BY DEF Written, Widened
<1>2. DictationKeepsOrder'
  BY <1>1, OrderKept DEF DictationInv, Quiet
<1>3. InPlace(buffer, appends)' /\ Within(appends, Len(cards))'
  BY <1>1, QuietInPlace, Zenon
<1> QED  BY <1>2, <1>3 DEF DictationInv

LEMMA CallsTyped ==
  ASSUME VoiceTyped, NEW call \in Call
  PROVE  /\ Without(call) \in Seq(Call)
         /\ Placed(call, "room") \in Seq(Call) /\ Placed(call, "queue") \in Seq(Call)
<1>1. calls \in Seq(Call) /\ Len(calls) \in Nat
  BY DEF VoiceTyped
<1>2. Without(call) \in Seq(Call)
  BY <1>1, SelectedIs, Zenon DEF Without
<1>3. ASSUME NEW place \in {"room", "queue"}  PROVE Placed(call, place) \in Seq(Call)
  <2>1. PICK c : c = [call EXCEPT !.at = place]
    OBVIOUS
  <2>2. c \in Call
    BY <2>1 DEF Call
  <2>3. \A k \in 1 .. Len(calls) : calls[k] \in Call
    BY <1>1
  <2> QED  BY <1>1, <2>1, <2>2, <2>3 DEF Placed
<1> QED  BY <1>2, <1>3

LEMMA RememberedTyped ==
  ASSUME VoiceTyped, NEW i \in Utterance
  PROVE  Remembered(i) \in Seq(Utterance)
  BY DEF VoiceTyped, Remembered

\* What is typed, and changes in most steps.
Associating ==
  /\ pending \in Seq(Utterance) /\ bound \in 0 .. spoken /\ transcribing \subseteq Utterance
  /\ response \in [ id : Nat, calls : BOOLEAN ] \union {Nothing}
  /\ calls \in Seq(Call)
  /\ settling \subseteq
       [ call : Nat, utterance : 0 .. spoken, outcome : {"completed", "interrupted"} ]

Sessioned ==
  /\ voiceLimit \in VoiceLimits /\ spoken \in 0 .. voiceLimit.utterances
  /\ forgotten \in 0 .. spoken
  /\ generation \in Nat /\ epoch \in Nat /\ responses \in Nat
  /\ cards \in Seq(Seq(Utterance))
  /\ card \in Nat \union {Nothing} /\ capture \in BOOLEAN /\ (capture => card # Nothing)
  /\ meant \in [Utterances -> Nat \union {Nothing}]

LEMMA TypedParts ==
  /\ VoiceTyped <=> Sessioned /\ Associating
  /\ VoiceTyped' <=> Sessioned' /\ Associating'
  BY DEF VoiceTyped, Sessioned, Associating

LEMMA SessionedSame ==
  ASSUME Sessioned, UNCHANGED <<generation, epoch, cards, capture>>, Quiet, responses' \in Nat
  PROVE  Sessioned'
<1>1. Utterance' = Utterance /\ Utterances' = Utterances
  BY SpokenSame DEF Quiet
<1> QED  BY <1>1 DEF Sessioned, Quiet

\* The steps that change neither the buffer nor the queue.
LEMMA AsideStep ==
  ASSUME DictationInv, UNCHANGED <<dictation, buffering, room, notes, generation, spoken, voiceLimit>>,
         responses' \in Nat, Associating', transcribing' \subseteq transcribing, Hushed'
  PROVE  DictationInv'
<1>1. Quiet /\ UNCHANGED <<generation, epoch, cards, capture, buffer, appends>>
  BY DEF Quiet, dictation, buffering, room, notes
<1>2. VoiceTyped'
  BY <1>1, TypedParts, SessionedSame DEF DictationInv
<1>3. PICK b, q : b = buffer' /\ q = appends'
  OBVIOUS
<1>4. InPlace(b, q) /\ Within(q, Len(cards))
  BY <1>1, <1>3 DEF DictationInv
<1>5. UNCHANGED cards
  BY <1>1
<1> QED  BY <1>1, <1>2, <1>3, <1>4, <1>5, QuietStep, Zenon

LEMMA AcknowledgedStep ==
  ASSUME DictationInv, Acknowledged
  PROVE  DictationInv'
<1>1. /\ UNCHANGED <<association, tools, dictation, buffering, room, speech, responding, notes>>
      /\ UNCHANGED <<generation, voiceLimit>>
  BY DEF Acknowledged, voiceBounds
<1>2. UNCHANGED <<pending, bound, calls, settling, spoken, transcribing, response, responses>>
  BY <1>1 DEF association, tools, speech, responding
<1>3. Associating /\ responses \in Nat
  BY TypedParts DEF DictationInv, Sessioned
<1>4. Associating' /\ responses' \in Nat
  BY <1>2, <1>3, SpokenSame, <1>1 DEF Associating
<1>5. Hushed'
  BY DEF Acknowledged, Hushed, Active
<1> QED  BY <1>1, <1>2, <1>4, <1>5, AsideStep

LEMMA TranscribedEmptyStep ==
  ASSUME DictationInv, NEW i \in Utterances, TranscribedEmpty(i)
  PROVE  DictationInv'
<1>1. /\ i \in transcribing /\ transcribing' = transcribing \ {i} /\ pending' = Remembered(i)
      /\ UNCHANGED <<bound, tools, dictation, buffering, room, spoken, responding, meant, dropped,
                     forgotten, status, generation, voiceLimit>>
  BY DEF TranscribedEmpty, session
<1>2. UNCHANGED <<calls, settling, response, responses>>
  BY <1>1 DEF tools, responding
<1>3. Associating /\ Sessioned /\ VoiceTyped
  BY TypedParts DEF DictationInv
<1>4. i \in Utterance /\ Remembered(i) \in Seq(Utterance)
  BY <1>1, <1>3, RememberedTyped DEF Associating
<1>5. Utterance' = Utterance /\ Call' = Call
  BY <1>1, SpokenSame
<1>6. Associating' /\ responses' \in Nat
  BY <1>1, <1>2, <1>3, <1>4, <1>5 DEF Associating, Sessioned
<1>7. Quiet /\ UNCHANGED <<generation, epoch, cards, capture, buffer, appends>>
  BY <1>1 DEF Quiet, dictation, buffering, room
<1>8. VoiceTyped'
  BY <1>3, <1>6, <1>7, TypedParts, SessionedSame
<1>9. PICK b, q : b = buffer' /\ q = appends'
  OBVIOUS
<1>10. InPlace(b, q) /\ Within(q, Len(cards)) /\ UNCHANGED cards
  BY <1>7, <1>9 DEF DictationInv
<1>11. transcribing' \subseteq transcribing /\ Hushed'
  BY <1>1, StaysHushed
<1> QED  BY <1>7, <1>8, <1>9, <1>10, <1>11, QuietStep, Zenon

LEMMA ResponseCreatedStep ==
  ASSUME DictationInv, ResponseCreated
  PROVE  DictationInv'
<1>1. /\ responses' = responses + 1 /\ response' = [id |-> responses', calls |-> FALSE]
      /\ \/ bound' = 0 /\ pending' = pending
         \/ /\ bound' = IF pending = << >> THEN 0 ELSE Head(pending)
            /\ pending' = IF pending = << >> THEN pending ELSE Tail(pending)
      /\ UNCHANGED <<status, generation, tools, dictation, buffering, room, speech, notes, voiceLimit>>
  <2>1. /\ responses' = responses + 1 /\ response' = [id |-> responses', calls |-> FALSE]
        /\ UNCHANGED <<session, tools, dictation, buffering, room, speech, notes, voiceBounds>>
    BY DEF ResponseCreated
  <2>2. \/ bound' = 0 /\ pending' = pending
        \/ /\ bound' = IF pending = << >> THEN 0 ELSE Head(pending)
           /\ pending' = IF pending = << >> THEN pending ELSE Tail(pending)
    BY DEF ResponseCreated
  <2> QED  BY <2>1, <2>2 DEF session, voiceBounds
<1>2. UNCHANGED <<calls, settling, spoken, transcribing>>
  BY <1>1 DEF tools, speech
<1>3. Associating /\ Sessioned
  BY TypedParts DEF DictationInv
<1>4. Utterance' = Utterance /\ Call' = Call
  BY <1>1, <1>2, SpokenSame
<1>5. responses' \in Nat
  BY <1>1, <1>3 DEF Sessioned
<1>6. pending' \in Seq(Utterance) /\ bound' \in 0 .. spoken
  <2>1. pending \in Seq(Utterance) /\ 0 \in 0 .. spoken /\ Utterance \subseteq 0 .. spoken
    BY <1>3 DEF Associating, Sessioned, Utterance
  <2>2. pending # << >> => Head(pending) \in Utterance /\ Tail(pending) \in Seq(Utterance)
    BY <2>1
  <2> QED  BY <1>1, <2>1, <2>2
<1>7. Associating'
  BY <1>1, <1>2, <1>3, <1>4, <1>5, <1>6 DEF Associating
<1>a. transcribing' \subseteq transcribing /\ Hushed'
  BY <1>1, <1>2, StaysHushed
<1> QED  BY <1>1, <1>2, <1>5, <1>7, <1>a, AsideStep

LEMMA FunctionCalledStep ==
  ASSUME DictationInv, NEW tool \in {"start", "finish", "other"}, FunctionCalled(tool)
  PROVE  DictationInv'
<1>1. PICK c : c = [ id |-> response.id, tool |-> tool, utterance |-> bound,
                     generation |-> generation, at |-> "queued" ]
  OBVIOUS
<1>2. /\ response # Nothing /\ response' = [response EXCEPT !.calls = TRUE]
      /\ calls' = Append(calls, c)
      /\ UNCHANGED <<status, generation, association, settling, dictation, buffering, room, speech,
                     responses, notes, voiceLimit>>
  BY <1>1 DEF FunctionCalled, session, voiceBounds
<1>3. UNCHANGED <<pending, bound, spoken, transcribing>>
  BY <1>2 DEF association, speech
<1>4. Associating /\ Sessioned
  BY TypedParts DEF DictationInv
<1>5. Utterance' = Utterance /\ Call' = Call
  BY <1>2, <1>3, SpokenSame
<1>6. response \in [ id : Nat, calls : BOOLEAN ]
  BY <1>2, <1>4 DEF Associating
<1>7. c \in Call
  BY <1>1, <1>4, <1>6 DEF Call, Associating, Sessioned
<1>8. calls' \in Seq(Call) /\ response' \in [ id : Nat, calls : BOOLEAN ]
  <2>1. calls \in Seq(Call)
    BY <1>4 DEF Associating
  <2>2. calls' \in Seq(Call)
    BY <1>2, <1>7, <2>1
  <2>3. response' \in [ id : Nat, calls : BOOLEAN ]
    BY <1>2, <1>6
  <2> QED  BY <2>2, <2>3
<1>9. Associating' /\ responses' \in Nat
  BY <1>2, <1>3, <1>4, <1>5, <1>8 DEF Associating, Sessioned
<1>a. transcribing' \subseteq transcribing /\ Hushed'
  BY <1>2, <1>3, StaysHushed
<1> QED  BY <1>2, <1>3, <1>9, <1>a, AsideStep

LEMMA CallBeginsStep ==
  ASSUME DictationInv, NEW k \in 1 .. Len(calls), CallBegins(calls[k])
  PROVE  DictationInv'
<1>1. PICK call : call = calls[k]
  OBVIOUS
<1>2. /\ calls' = IF InSession(call) THEN Placed(call, "room") ELSE Without(call)
      /\ UNCHANGED <<status, generation, association, settling, dictation, buffering, room, speech,
                     responding, notes, voiceLimit>>
  BY <1>1 DEF CallBegins, session, voiceBounds
<1>3. UNCHANGED <<pending, bound, spoken, transcribing, response, responses>>
  BY <1>2 DEF association, speech, responding
<1>4. Associating /\ Sessioned /\ VoiceTyped
  BY TypedParts DEF DictationInv
<1>5. Utterance' = Utterance /\ Call' = Call
  BY <1>2, <1>3, SpokenSame
<1>6. call \in Call
  BY <1>1, <1>4 DEF Associating
<1>7. calls' \in Seq(Call)
  BY <1>2, <1>4, <1>6, CallsTyped
<1>8. Associating' /\ responses' \in Nat
  BY <1>2, <1>3, <1>4, <1>5, <1>7 DEF Associating, Sessioned
<1>a. transcribing' \subseteq transcribing /\ Hushed'
  BY <1>2, <1>3, StaysHushed
<1> QED  BY <1>2, <1>3, <1>8, <1>a, AsideStep

LEMMA CapabilityRefusedStep ==
  ASSUME DictationInv, NEW k \in 1 .. Len(calls), CapabilityRefused(calls[k])
  PROVE  DictationInv'
<1>1. PICK call : call = calls[k]
  OBVIOUS
<1>2. /\ calls' = Without(call)
      /\ UNCHANGED <<status, generation, pending, bound, settling, dictation, buffering, room, speech,
                     response, responses, notes, voiceLimit>>
  BY <1>1 DEF CapabilityRefused, session, Returns
<1>3. UNCHANGED <<spoken, transcribing>>
  BY <1>2 DEF speech
<1>4. Associating /\ Sessioned /\ VoiceTyped
  BY TypedParts DEF DictationInv
<1>5. Utterance' = Utterance /\ Call' = Call
  BY <1>2, <1>3, SpokenSame
<1>6. call \in Call
  BY <1>1, <1>4 DEF Associating
<1>7. calls' \in Seq(Call)
  BY <1>2, <1>4, <1>6, CallsTyped
<1>8. Associating' /\ responses' \in Nat
  BY <1>2, <1>3, <1>4, <1>5, <1>7 DEF Associating, Sessioned
<1>a. transcribing' \subseteq transcribing /\ Hushed'
  BY <1>2, <1>3, StaysHushed
<1> QED  BY <1>2, <1>3, <1>8, <1>a, AsideStep

\* ensureTurn, what becomes of the turn, and drainReadyTurns: the turn waits for no
\* more than before.
Becomes(i, t) ==
  LET u == Ensured(buffer, i).turns[i]
  IN  /\ t.capturing \/ t.thought => u.capturing \/ u.thought
      /\ t.thought => u.thought \/ i \in transcribing
      /\ t.outcome = "none" => u.outcome = "none"
      /\ u.transcribed => t.transcribed
      /\ i \in buffer.ignored => t.outcome = "none"
      /\ Drain([Ensured(buffer, i) EXCEPT !.turns[i] = t])

LEMMA ChangeInPlace ==
  ASSUME DictationInv, NEW i \in Utterance, NEW t \in Turn, Becomes(i, t)
  PROVE  \E b, q : InPlace(b, q) /\ Within(q, Len(cards)) /\ b = buffer' /\ q = appends'
<1>1. VoiceTyped /\ InPlace(buffer, appends) /\ i \in Utterances /\ Within(appends, Len(cards))
  BY Typical DEF DictationInv
<1>2. PICK on : on = Ensured(buffer, i)
  OBVIOUS
<1>3. InPlace(on, appends) /\ on.turns[i] \in Turn /\ on.ignored = buffer.ignored
  BY <1>1, <1>2, EnsuredInPlace
<1>4. PICK u : u = on.turns[i]
  OBVIOUS
<1>5. /\ t.capturing \/ t.thought => u.capturing \/ u.thought
      /\ t.thought => u.thought \/ i \in transcribing
      /\ i \in buffer.ignored => t.outcome = "none"
  BY <1>2, <1>4 DEF Becomes
<1>6. PICK c : c = [on EXCEPT !.turns[i] = t]
  OBVIOUS
<1>7. InPlace(c, appends)
  BY <1>1, <1>3, <1>4, <1>5, <1>6, TurnInPlace
<1>a. Len(cards) \in Nat
  BY <1>1 DEF VoiceTyped
<1>8. /\ InPlace(Drained(c), Moved(appends \o Committed(c)))
      /\ Within(Moved(appends \o Committed(c)), Len(cards))
  BY <1>1, <1>7, <1>a, DrainInPlace
<1>9. buffer' = Drained(c) /\ appends' = Moved(appends \o Committed(c))
  BY <1>2, <1>6 DEF Becomes, Drain
<1> QED  BY <1>8, <1>9

LEMMA SettleBecomes ==
  ASSUME DictationInv, NEW i \in Utterance, NEW outcome \in {"completed", "interrupted"},
         i \notin buffer.ignored, Settle(i, outcome)
  PROVE  \E t \in Turn : Becomes(i, t) /\ t.outcome = outcome
<1>1. VoiceTyped /\ InPlace(buffer, appends) /\ i # 0
  BY DEF DictationInv, Utterance
<1>2. PICK on : on = Ensured(buffer, i)
  OBVIOUS
<1>3. InPlace(on, appends) /\ on.turns[i] \in Turn /\ i \in Utterances
  BY <1>1, <1>2, EnsuredInPlace, Typical
<1>4. PICK u : u = on.turns[i]
  OBVIOUS
<1>5. PICK t : t = [u EXCEPT !.outcome = outcome]
  OBVIOUS
<1>6. t \in Turn
  BY <1>3, <1>4, <1>5 DEF Turn
<1>7. /\ t.capturing = u.capturing /\ t.thought = u.thought /\ t.outcome = outcome
      /\ t.transcribed = u.transcribed
  BY <1>3, <1>4, <1>5 DEF Turn
<1>8. [on EXCEPT !.turns[i].outcome = outcome] = [on EXCEPT !.turns[i] = t]
  BY <1>3, <1>4, <1>5 DEF InPlace, Buffers
<1>9. Drain([Ensured(buffer, i) EXCEPT !.turns[i] = t])
  BY <1>1, <1>2, <1>8 DEF Settle
<1>10. t.outcome # "none"
  BY <1>7
<1> QED  BY <1>2, <1>4, <1>6, <1>7, <1>9, <1>10 DEF Becomes

LEMMA HeardBecomes ==
  ASSUME DictationInv, NEW i \in Utterance, NEW boundary \in BOOLEAN,
         i \in transcribing, i \notin buffer.ignored, Heard(i, boundary)
  PROVE  \E t \in Turn : Becomes(i, t) /\ t.transcribed
<1>1. VoiceTyped /\ InPlace(buffer, appends)
  BY DEF DictationInv
<1>2. PICK on : on = Ensured(buffer, i)
  OBVIOUS
<1>3. InPlace(on, appends) /\ on.turns[i] \in Turn /\ i \in Utterances
  BY <1>1, <1>2, EnsuredInPlace, Typical
<1>4. PICK u : u = on.turns[i]
  OBVIOUS
<1>5. PICK s, a : /\ s = [u EXCEPT !.transcribed = TRUE, !.suppress = @ - 1]
                  /\ a = [u EXCEPT !.transcribed = TRUE, !.available = TRUE,
                                   !.thought = u.capturing /\ ~boundary]
  OBVIOUS
<1>6. u \in Turn
  BY <1>3, <1>4
<1>7. u.suppress > 0 => s \in Turn
  <2>1. PICK p : p = u.suppress - 1
    OBVIOUS
  <2>2. u.suppress > 0 => p \in Nat
    BY <1>6, <2>1 DEF Turn
  <2>3. s = [u EXCEPT !.transcribed = TRUE, !.suppress = p]
    BY <1>5, <2>1
  <2> QED  BY <1>6, <2>2, <2>3 DEF Turn
<1>8. s.capturing = u.capturing /\ s.thought = u.thought
  BY <1>5, <1>6 DEF Turn
<1>9. a \in Turn
  BY <1>5, <1>6 DEF Turn
<1>10. a.capturing = u.capturing /\ (a.thought => u.capturing)
  BY <1>5, <1>6 DEF Turn
<1>11. s.outcome = u.outcome /\ s.transcribed
  BY <1>5, <1>6 DEF Turn
<1>12. a.outcome = u.outcome /\ a.transcribed
  BY <1>5, <1>6 DEF Turn
<1>13. PICK t : t = IF u.suppress > 0 THEN s ELSE a
  OBVIOUS
<1>14. /\ t \in Turn /\ (t.capturing \/ t.thought => u.capturing \/ u.thought)
       /\ t.outcome = u.outcome /\ t.transcribed
  BY <1>7, <1>8, <1>9, <1>10, <1>11, <1>12, <1>13
<1>15. Drain([Ensured(buffer, i) EXCEPT !.turns[i] = t])
  BY <1>2, <1>4, <1>5, <1>13 DEF Heard
<1> QED  BY <1>2, <1>4, <1>14, <1>15 DEF Becomes

LEMMA SettleInPlace ==
  ASSUME DictationInv, NEW i \in 0 .. spoken, NEW outcome \in {"completed", "interrupted"},
         Settle(i, outcome)
  PROVE  \E b, q : InPlace(b, q) /\ Within(q, Len(cards)) /\ b = buffer' /\ q = appends'
<1>1. CASE i = 0 \/ i \in buffer.ignored
  <2>1. buffer' = buffer /\ appends' = appends
    BY <1>1 DEF Settle, buffering
  <2> QED  BY <2>1 DEF DictationInv
<1>2. CASE i # 0 /\ i \notin buffer.ignored
  <2>1. i \in Utterance
    BY <1>2, Typical DEF DictationInv, Utterance
  <2> QED  BY <1>2, <2>1, SettleBecomes, ChangeInPlace
<1> QED  BY <1>1, <1>2

LEMMA HeardInPlace ==
  ASSUME DictationInv, NEW i \in Utterance, NEW boundary \in BOOLEAN,
         i \in transcribing, Heard(i, boundary)
  PROVE  \E b, q : InPlace(b, q) /\ Within(q, Len(cards)) /\ b = buffer' /\ q = appends'
<1>1. CASE i \in buffer.ignored
  <2>1. buffer' = buffer /\ appends' = appends
    BY <1>1 DEF Heard, buffering
  <2> QED  BY <2>1 DEF DictationInv
<1>2. CASE i \notin buffer.ignored
  BY <1>2, HeardBecomes, ChangeInPlace
<1> QED  BY <1>1, <1>2

\* The steps that only fill or drain the buffer.
LEMMA BufferStep ==
  ASSUME DictationInv, UNCHANGED <<dictation, room, notes, generation, spoken, voiceLimit>>,
         responses' \in Nat, Associating', transcribing' \subseteq transcribing, Hushed',
         \E b, q : InPlace(b, q) /\ Within(q, Len(cards)) /\ b = buffer' /\ q = appends'
  PROVE  DictationInv'
<1>1. Quiet /\ UNCHANGED <<generation, epoch, cards, capture>>
  BY DEF Quiet, dictation, room, notes
<1>2. VoiceTyped'
  BY <1>1, TypedParts, SessionedSame DEF DictationInv
<1>3. PICK b, q : InPlace(b, q) /\ Within(q, Len(cards)) /\ b = buffer' /\ q = appends'
  OBVIOUS
<1>4. UNCHANGED cards
  BY <1>1
<1> QED  BY <1>1, <1>2, <1>3, <1>4, QuietStep, Zenon

LEMMA TranscribedStep ==
  ASSUME DictationInv, NEW i \in Utterances, NEW boundary \in BOOLEAN, Transcribed(i, boundary)
  PROVE  DictationInv'
<1>1. /\ i \in transcribing /\ transcribing' = transcribing \ {i} /\ pending' = Remembered(i)
      /\ Heard(i, boundary)
      /\ UNCHANGED <<bound, tools, dictation, room, spoken, responding, notes, status, generation,
                     voiceLimit>>
  BY DEF Transcribed, session, voiceBounds
<1>2. UNCHANGED <<calls, settling, response, responses>>
  BY <1>1 DEF tools, responding
<1>3. Associating /\ Sessioned /\ VoiceTyped
  BY TypedParts DEF DictationInv
<1>4. i \in Utterance /\ Remembered(i) \in Seq(Utterance)
  BY <1>1, <1>3, RememberedTyped DEF Associating
<1>5. Utterance' = Utterance /\ Call' = Call
  BY <1>1, SpokenSame
<1>6. Associating' /\ responses' \in Nat
  BY <1>1, <1>2, <1>3, <1>4, <1>5 DEF Associating, Sessioned
<1>7. \E b, q : InPlace(b, q) /\ Within(q, Len(cards)) /\ b = buffer' /\ q = appends'
  BY <1>1, <1>4, HeardInPlace
<1>a. transcribing' \subseteq transcribing /\ Hushed'
  BY <1>1, StaysHushed
<1> QED  BY <1>1, <1>6, <1>7, <1>a, BufferStep

LEMMA ResponseDoneStep ==
  ASSUME DictationInv, NEW outcome \in {"completed", "interrupted"}, ResponseDone(outcome)
  PROVE  DictationInv'
<1>1. PICK s : s = [ call |-> response.id, utterance |-> bound, outcome |-> outcome ]
  OBVIOUS
<1>2. /\ response # Nothing /\ response' = Nothing /\ bound' = 0
      /\ UNCHANGED <<status, generation, pending, calls, dictation, room, spoken, transcribing,
                     responses, notes, voiceLimit>>
      /\ \/ settling' = settling \union {s} /\ UNCHANGED buffering
         \/ UNCHANGED settling /\ Settle(bound, outcome)
  BY <1>1 DEF ResponseDone, session, voiceBounds
<1>3. Associating /\ Sessioned
  BY TypedParts DEF DictationInv
<1>4. Utterance' = Utterance /\ Call' = Call
  BY <1>2, SpokenSame
<1>5. s \in [ call : Nat, utterance : 0 .. spoken, outcome : {"completed", "interrupted"} ]
  BY <1>1, <1>2, <1>3 DEF Associating
<1>6. Associating' /\ responses' \in Nat
  BY <1>2, <1>3, <1>4, <1>5 DEF Associating, Sessioned
<1>7. \E b, q : InPlace(b, q) /\ Within(q, Len(cards)) /\ b = buffer' /\ q = appends'
  <2>1. CASE UNCHANGED buffering
    <3>1. buffer' = buffer /\ appends' = appends
      BY <2>1 DEF buffering
    <3> QED  BY <3>1 DEF DictationInv
  <2>2. CASE Settle(bound, outcome)
    <3>1. bound \in 0 .. spoken
      BY <1>3 DEF Associating
    <3> QED  BY <2>2, <3>1, SettleInPlace
  <2> QED  BY <1>2, <2>1, <2>2
<1>a. transcribing' \subseteq transcribing /\ Hushed'
  BY <1>2, StaysHushed
<1> QED  BY <1>2, <1>6, <1>7, <1>a, BufferStep

LEMMA SettleLaterStep ==
  ASSUME DictationInv, SettleLater
  PROVE  DictationInv'
<1>1. PICK s \in settling : settling' = settling \ {s} /\ Settle(s.utterance, s.outcome)
  BY DEF SettleLater
<1>2. UNCHANGED <<status, generation, association, calls, dictation, room, speech, responding, notes,
                  voiceLimit>>
  BY DEF SettleLater, session, voiceBounds
<1>3. UNCHANGED <<pending, bound, spoken, transcribing, response, responses>>
  BY <1>2 DEF association, speech, responding
<1>4. Associating /\ Sessioned
  BY TypedParts DEF DictationInv
<1>5. Utterance' = Utterance /\ Call' = Call
  BY <1>2, <1>3, SpokenSame
<1>6. s.utterance \in 0 .. spoken /\ s.outcome \in {"completed", "interrupted"}
  BY <1>4 DEF Associating
<1>7. Associating' /\ responses' \in Nat
  BY <1>1, <1>2, <1>3, <1>4, <1>5 DEF Associating, Sessioned
<1>8. \E b, q : InPlace(b, q) /\ Within(q, Len(cards)) /\ b = buffer' /\ q = appends'
  BY <1>1, <1>6, SettleInPlace
<1>a. transcribing' \subseteq transcribing /\ Hushed'
  BY <1>2, <1>3, StaysHushed
<1> QED  BY <1>2, <1>3, <1>7, <1>8, <1>a, BufferStep

-----------------------------------------------------------------------------
(* The steps that empty the buffer, move the queue or change the cards.    *)

\* What was said before is queued, written or dropped.
LEMMA EmptiedStep ==
  ASSUME DictationInv, VoiceTyped', Hushed',
         UNCHANGED <<voiceLimit, spoken, cards, appends, meant>>, card' \in {card, Nothing},
         forgotten' = spoken, dropped \subseteq dropped',
         buffer' \in Buffers, buffer'.order = << >>, \A i \in Utterances : buffer'.turns[i] = Nothing,
         \A i \in transcribing' \ buffer'.ignored : i \in transcribing \ buffer.ignored /\ i \in dropped'
  PROVE  DictationInv'
<1>1. /\ Utterance' = Utterance /\ Utterances' = Utterances /\ Buffers' = Buffers /\ Entry' = Entry
  BY SpokenSame
<1>2. /\ Written' = Written /\ Writings(appends)' = Writings(appends)
      /\ Turns(appends)' = Turns(appends) /\ Widened
  BY DEF Written, Writings, Turns, IsIntent, Widened
<1>3. InPlace(buffer, appends) /\ Ahead(appends) /\ Within(appends, Len(cards))
  BY DEF DictationInv, InPlace
<1>4. DictationKeepsOrder'
  BY <1>2, OrderKept DEF DictationInv
<1>5. QueueInOrder(appends)'
  BY <1>2, <1>3 DEF InPlace, QueueInOrder
<1>6. QueueMeant(appends)'
  BY <1>2, <1>3 DEF InPlace, QueueMeant
<1>7. BufferInOrder(buffer, appends)' /\ Distinct(buffer)'
  BY DEF BufferInOrder, Distinct
<1>8. BufferMeant(buffer)'
  BY <1>1 DEF BufferMeant
<1>9. Complete(buffer)'
  <2>1. forgotten' + 1 .. spoken' = {}
    BY Typical DEF DictationInv
  <2>2. \A i \in buffer'.ignored : i \in Utterances
    BY Typical DEF DictationInv, Buffers
  <2>3. 1 .. Len(buffer'.order) = {}
    OBVIOUS
  <2> QED  BY <1>1, <2>1, <2>2, <2>3 DEF Complete
<1>10. Unsaid(buffer, appends)'
  <2> SUFFICES ASSUME NEW i \in Utterance \ buffer'.ignored,
                      i \in transcribing' \/ (buffer'.turns[i] # Nothing /\ buffer'.turns[i].thought)
               PROVE  i \notin Written \union Turns(appends) /\ i \in dropped'
    BY <1>1, <1>2 DEF Unsaid
  <2>1. buffer'.turns[i] = Nothing
    BY Typical DEF DictationInv
  <2>2. i \in transcribing \ buffer.ignored /\ i \in dropped'
    BY <2>1
  <2> QED  BY <1>3, <2>2 DEF InPlace, Unsaid
<1>11. Ahead(appends)'
  <2>1. (card # Nothing => Reaches(appends, card))'
    BY <1>2, <1>3, ReachesOn DEF Ahead, Reaches
  <2>2. ASSUME NEW n \in 1 .. Len(appends'), IsIntent(appends[n])
        PROVE  /\ Reaches(appends, appends[n].card) /\ (card' # Nothing => card' =< appends[n].card)
               /\ \A m \in 1 .. n - 1 : IsIntent(appends[m]) => appends[m].card =< appends[n].card
    BY <1>3, <2>2 DEF Ahead
  <2>3. (\A n \in 1 .. Len(appends) : IsIntent(appends[n]) =>
           /\ Reaches(appends, appends[n].card) /\ (card # Nothing => card =< appends[n].card)
           /\ \A m \in 1 .. n - 1 : IsIntent(appends[m]) => appends[m].card =< appends[n].card)'
    BY <1>2, <2>2, ReachesOn DEF Reaches, IsIntent
  <2>4. (\A n \in Writings(appends) :
           /\ \A m \in Writings(appends) : m < n => appends[n].to = Nothing
           /\ appends[n].to \notin {Nothing, 0} =>
                \A c \in 1 .. Len(cards) : cards[c] # << >> => c =< appends[n].to)'
    BY <1>2, <1>3 DEF Ahead
  <2> QED  BY <2>1, <2>3, <2>4 DEF Ahead
<1>12. Within(appends, Len(cards))'
  <2>1. Reaches(appends, Len(cards))'
    BY <1>2, <1>3, ReachesOn DEF Within, Reaches
  <2> QED  BY <1>3, <2>1 DEF Within, IsIntent
<1>13. buffer' \in Buffers' /\ appends' \in Seq(Entry')
  BY <1>1, <1>3 DEF InPlace
<1> QED  BY <1>4, <1>5, <1>6, <1>7, <1>8, <1>9, <1>10, <1>11, <1>12, <1>13 DEF DictationInv, InPlace

LEMMA EmptyBufferTyped ==
  ASSUME VoiceTyped
  PROVE  /\ EmptyBuffer \in Buffers /\ EmptyBuffer.order = << >>
         /\ \A i \in Utterances : EmptyBuffer.turns[i] = Nothing
<1>1. 0 \in 0 .. spoken /\ << >> \in Seq(Utterance)
  BY Typical
<1>2. [i \in Utterances |-> Nothing] \in [Utterances -> Turn \union {Nothing}]
  OBVIOUS
<1> QED  BY <1>1, <1>2 DEF EmptyBuffer, Buffers

LEMMA SessionedEmptied ==
  ASSUME Sessioned, generation' \in {generation, generation + 1}, epoch' = epoch + 1,
         capture' = FALSE, card' \in {card, Nothing}, forgotten' = spoken,
         UNCHANGED <<voiceLimit, spoken, cards, meant, responses>>
  PROVE  Sessioned'
<1>1. Utterance' = Utterance /\ Utterances' = Utterances
  BY SpokenSame
<1>2. /\ voiceLimit' \in VoiceLimits /\ spoken' \in 0 .. voiceLimit'.utterances
      /\ forgotten' \in 0 .. spoken'
  <2>1. /\ voiceLimit' \in VoiceLimits /\ spoken' \in 0 .. voiceLimit'.utterances
        /\ forgotten' = spoken'
    BY DEF Sessioned
  <2> QED  BY <2>1, VoiceAssumption
<1>3. generation' \in Nat /\ epoch' \in Nat /\ responses' \in Nat
  BY DEF Sessioned
<1>4. cards' \in Seq(Seq(Utterance')) /\ meant' \in [Utterances' -> Nat \union {Nothing}]
  BY <1>1 DEF Sessioned
<1>5. card' \in Nat \union {Nothing}
  BY DEF Sessioned
<1>6. capture' \in BOOLEAN /\ (capture' => card' # Nothing)
  OBVIOUS
<1> QED  BY <1>2, <1>3, <1>4, <1>5, <1>6, Zenon DEF Sessioned

LEMMA StartVoiceStep ==
  ASSUME DictationInv, StartVoice
  PROVE  DictationInv'
<1>1. /\ generation' = generation + 1 /\ epoch' = epoch + 1 /\ capture' = FALSE /\ card' = Nothing
      /\ buffer' = EmptyBuffer /\ forgotten' = spoken
      /\ UNCHANGED <<association, tools, appends, room, speech, responding, meant, dropped,
                     voiceLimit>>
  BY DEF StartVoice, Reset, voiceBounds
<1>2. UNCHANGED <<pending, bound, calls, settling, cards, spoken, transcribing, response, responses>>
  BY <1>1 DEF association, tools, room, speech, responding
<1>3. Associating /\ Sessioned /\ VoiceTyped
  BY TypedParts DEF DictationInv
<1>4. Utterance' = Utterance /\ Utterances' = Utterances /\ Call' = Call
  BY <1>1, <1>2, SpokenSame
<1>5. Associating'
  BY <1>2, <1>3, <1>4 DEF Associating
<1>6. Sessioned'
  BY <1>1, <1>2, <1>3, SessionedEmptied
<1>7. transcribing' = {} /\ Hushed'
  BY <1>2 DEF DictationInv, StartVoice, Hushed, Active
<1>8. VoiceTyped'
  BY <1>5, <1>6, TypedParts
<1> QED  BY <1>1, <1>2, <1>3, <1>7, <1>8, EmptyBufferTyped, EmptiedStep

LEMMA EndStep ==
  ASSUME DictationInv, Release, Reset
  PROVE  DictationInv'
<1>1. /\ generation' = generation + 1 /\ epoch' = epoch + 1 /\ capture' = FALSE /\ card' = Nothing
      /\ buffer' = EmptyBuffer /\ forgotten' = spoken
      /\ pending' = << >> /\ bound' = 0 /\ transcribing' = {} /\ response' = Nothing
      /\ UNCHANGED <<tools, appends, room, spoken, responses, meant, dropped, voiceLimit>>
  BY DEF Release, Reset
<1>2. UNCHANGED <<calls, settling, cards>>
  BY <1>1 DEF tools, room
<1>3. Associating /\ Sessioned /\ VoiceTyped
  BY TypedParts DEF DictationInv
<1>4. Utterance' = Utterance /\ Utterances' = Utterances /\ Call' = Call
  BY <1>1, <1>2, SpokenSame
<1>5. Associating'
  BY <1>1, <1>2, <1>3, <1>4, Typical DEF Associating
<1>6. Sessioned'
  BY <1>1, <1>2, <1>3, SessionedEmptied
<1>7. VoiceTyped' /\ Hushed'
  BY <1>1, <1>5, <1>6, TypedParts DEF Hushed
<1> QED  BY <1>1, <1>2, <1>3, <1>7, EmptyBufferTyped, EmptiedStep

LEMMA CardRemovedStep ==
  ASSUME DictationInv, CardRemoved
  PROVE  DictationInv'
<1>1. /\ epoch' = epoch + 1 /\ capture' = FALSE
      /\ buffer' = [EmptyBuffer EXCEPT !.ignored = buffer.ignored] /\ forgotten' = spoken
      /\ dropped' = dropped \union Buffered
      /\ UNCHANGED <<status, generation, association, tools, card, appends, cards, speech,
                     responding, meant, voiceLimit>>
  BY DEF CardRemoved, session
<1>2. UNCHANGED <<pending, bound, calls, settling, spoken, transcribing, response, responses>>
  BY <1>1 DEF association, tools, speech, responding
<1>3. Associating /\ Sessioned /\ VoiceTyped
  BY TypedParts DEF DictationInv
<1>4. Utterance' = Utterance /\ Utterances' = Utterances /\ Call' = Call
  BY <1>1, <1>2, SpokenSame
<1>5. Associating'
  BY <1>2, <1>3, <1>4 DEF Associating
<1>6. Sessioned'
  BY <1>1, <1>2, <1>3, SessionedEmptied
<1>7. /\ buffer' \in Buffers /\ buffer'.order = << >>
      /\ \A i \in Utterances : buffer'.turns[i] = Nothing
  <2>1. buffer.ignored \in SUBSET Utterance
    BY DEF DictationInv, InPlace, Buffers
  <2> QED  BY <1>1, <1>3, <2>1, EmptyBufferTyped DEF Buffers
<1>8. VoiceTyped' /\ Hushed'
  BY <1>1, <1>2, <1>5, <1>6, TypedParts, StaysHushed
<1>9. buffer'.ignored = buffer.ignored
  BY <1>1 DEF EmptyBuffer
<1>10. \A i \in transcribing' \ buffer'.ignored : i \in transcribing \ buffer.ignored /\ i \in dropped'
  <2> SUFFICES ASSUME NEW i \in transcribing \ buffer.ignored
               PROVE  i \in dropped \union Buffered
    BY <1>1, <1>2, <1>9
  <2>1. i \in Utterance /\ i \in Utterances /\ InPlace(buffer, appends)
    BY <1>3, Typical DEF DictationInv, Associating
  <2>2. CASE i =< forgotten
    BY <2>1, <2>2 DEF InPlace, Unsaid
  <2>3. CASE ~ i =< forgotten
    <3>1. i \in forgotten + 1 .. spoken
      BY <1>3, <2>1, <2>3, Typical DEF Utterance
    <3> QED  BY <2>1, <3>1 DEF InPlace, Complete, Buffered
  <2> QED  BY <2>2, <2>3
<1> QED  BY <1>1, <1>2, <1>7, <1>8, <1>10, EmptiedStep

\* The queue without its head.
LEMMA AfterHead ==
  ASSUME VoiceTyped, NEW b, NEW q, InPlace(b, q), NEW top \in Nat, Within(q, top), q # << >>,
         NEW r, r = Moved(Tail(q))
  PROVE  /\ InPlace(b, r) /\ Within(r, top) /\ Turns(r) \subseteq Turns(q) /\ Head(q) = q[1]
         /\ \A n \in 1 .. Len(r) : IsIntent(r[n]) => Reaches(q, r[n].card)
         /\ IsIntent(Head(q)) =>
              /\ Head(q) \in Awaiting /\ Head(q).card =< top /\ Reaches(r, Head(q).card)
              /\ \A n \in 1 .. Len(r) : IsIntent(r[n]) => Head(q).card =< r[n].card
         /\ ~IsIntent(Head(q)) =>
              /\ Head(q) \in Writing /\ 1 \in Writings(q) /\ Head(q).turn \in Turns(q)
              /\ \A n \in Writings(r) :
                   /\ r[n].turn # Head(q).turn /\ r[n].to \in {Nothing, 0, card}
                   /\ Head(q).turn \notin dropped /\ r[n].turn \notin dropped
                        => Head(q).turn < r[n].turn
<1>1. PICK t, e : t = Tail(q) /\ e = Head(q)
  OBVIOUS
<1>2. q \in Seq(Entry) /\ Ahead(q)
  BY DEF InPlace
<1>3. /\ t \in Seq(Entry) /\ Len(q) \in Nat /\ Len(q) > 0 /\ Len(t) = Len(q) - 1
      /\ \A k \in 1 .. Len(t) : t[k] = q[k + 1]
      /\ e = q[1] /\ e \in Entry /\ 1 \in 1 .. Len(q)
  BY <1>1, <1>2
<1>4. PICK f : f = [k \in 1 .. Len(t) |-> k + 1]
  OBVIOUS
<1>5. Thinned(f, t, q)
  <2>1. \A k, l \in Writings(t) : k < l => t[l].to = q[f[l]].to
    BY <1>3, <1>4 DEF Writings
  <2>2. /\ f \in [1 .. Len(t) -> 1 .. Len(q)]
        /\ \A k, l \in 1 .. Len(t) : k < l => f[k] < f[l]
        /\ \A k \in 1 .. Len(t) : SentAs(t[k], q[f[k]])
    BY <1>3, <1>4 DEF SentAs
  <2> QED  BY <2>1, <2>2 DEF Thinned
<1>6. InPlace(b, t) /\ Within(t, top)
  BY <1>2, <1>3, <1>5, ThinnedInPlace, ThinnedWithin, Zenon
<1>7. r = Moved(t)
  BY <1>1
<1>8. InPlace(b, r) /\ Within(r, top)
  BY <1>6, <1>7, MovedInPlace
<1>a. t \in Seq(Entry)
  BY <1>3
<1>b. r \in Seq(Entry) /\ \E g : Thinned(g, r, t)
  <2>1. Moved(t) \in Seq(Entry) /\ \E g : Thinned(g, Moved(t), t)
    BY <1>a, MovedIs
  <2> QED  BY <2>1, <1>7
<1>9. PICK g : Thinned(g, r, t) /\ r \in Seq(Entry)
  BY <1>b
<1>10. ASSUME NEW n \in 1 .. Len(r)
       PROVE  g[n] + 1 \in 1 .. Len(q) /\ g[n] + 1 > 1 /\ SentAs(r[n], q[g[n] + 1])
  <2>1. g[n] \in 1 .. Len(t) /\ SentAs(r[n], t[g[n]])
    BY <1>9 DEF Thinned
  <2>2. PICK k \in 1 .. Len(t) : k = g[n]
    BY <2>1
  <2>3. t[k] = q[k + 1] /\ k + 1 \in 1 .. Len(q) /\ k + 1 > 1
    BY <1>3, <2>2
  <2> QED  BY <2>1, <2>2, <2>3
<1>11. \A n \in Writings(r) : /\ g[n] + 1 \in Writings(q) /\ g[n] + 1 > 1
                              /\ r[n].turn = q[g[n] + 1].turn
                              /\ \/ r[n].to = q[g[n] + 1].to
                                 \/ r[n].to = IF card = Nothing THEN 0 ELSE card
  BY <1>10 DEF SentAs, Writings
<1>12. Turns(r) \subseteq Turns(q)
  BY <1>11 DEF Turns
<1>13. ASSUME NEW n \in 1 .. Len(r), IsIntent(r[n])
       PROVE  /\ g[n] + 1 \in 1 .. Len(q) /\ g[n] + 1 > 1
              /\ r[n] = q[g[n] + 1] /\ IsIntent(q[g[n] + 1]) /\ Reaches(q, r[n].card)
  <2>1. /\ g[n] + 1 \in 1 .. Len(q) /\ g[n] + 1 > 1
        /\ r[n] = q[g[n] + 1] /\ IsIntent(q[g[n] + 1])
    BY <1>10, <1>13 DEF SentAs
  <2> QED  BY <1>2, <2>1 DEF Ahead
<1>14. ASSUME IsIntent(e)
       PROVE  /\ e \in Awaiting /\ e.card =< top /\ Reaches(r, e.card)
              /\ \A n \in 1 .. Len(r) : IsIntent(r[n]) => e.card =< r[n].card
  <2>1. e \in Awaiting /\ e.card \in Nat
    BY <1>2, <1>3, <1>14, IntentsTyped
  <2>2. Reaches(q, e.card) /\ (card # Nothing => card =< e.card)
    BY <1>2, <1>3, <1>14 DEF Ahead
  <2>3. Reaches(t, e.card)
    BY <1>2, <1>3, <1>5, <2>1, <2>2, ThinnedReaches
  <2>4. Reaches(r, e.card)
    BY <1>3, <1>9, <2>1, <2>2, <2>3, ThinnedReaches
  <2>5. ASSUME NEW n \in 1 .. Len(r), IsIntent(r[n])
        PROVE  e.card =< r[n].card
    <3>1. 1 \in 1 .. (g[n] + 1) - 1
      BY <1>13, <2>5
    <3> QED  BY <1>2, <1>3, <1>13, <1>14, <2>5, <3>1 DEF Ahead
  <2>6. e.card =< top
    BY <1>3, <1>14 DEF Within
  <2> QED  BY <2>1, <2>4, <2>5, <2>6
<1>15. ASSUME ~IsIntent(e)
       PROVE  /\ e \in Writing /\ 1 \in Writings(q) /\ e.turn \in Turns(q)
              /\ \A n \in Writings(r) :
                   /\ r[n].turn # e.turn /\ r[n].to \in {Nothing, 0, card}
                   /\ e.turn \notin dropped /\ r[n].turn \notin dropped => e.turn < r[n].turn
  <2>1. e \in Writing
    BY <1>3, <1>15, EntryKinds DEF Entry
  <2>2. 1 \in Writings(q)
    BY <1>3, <1>15 DEF Writings
  <2>3. e.turn \in Turns(q)
    BY <1>3, <2>2 DEF Turns
  <2>4. \A n \in Writings(r) :
          /\ r[n].turn # e.turn
          /\ e.turn \notin dropped /\ r[n].turn \notin dropped => e.turn < r[n].turn
    BY <1>3, <1>11, <2>2 DEF InPlace, QueueInOrder
  <2>5. \A n \in Writings(r) : r[n].to \in {Nothing, 0, card}
    BY <1>2, <1>11, <2>2 DEF Ahead
  <2> QED  BY <2>1, <2>2, <2>3, <2>4, <2>5
<1> QED  BY <1>1, <1>3, <1>8, <1>12, <1>13, <1>14, <1>15

\* What a capture and its cards are about.
Captured ==
  /\ cards \in Seq(Seq(Utterance)) /\ card \in Nat \union {Nothing} /\ capture \in BOOLEAN
  /\ (capture => card # Nothing)

LEMMA SessionedCaptured ==
  ASSUME Sessioned, Captured',
         UNCHANGED <<voiceLimit, spoken, generation, epoch, forgotten, meant, responses>>
  PROVE  Sessioned'
<1>1. Utterance' = Utterance /\ Utterances' = Utterances
  BY SpokenSame
<1>2. /\ voiceLimit' \in VoiceLimits /\ spoken' \in 0 .. voiceLimit'.utterances
      /\ forgotten' \in 0 .. spoken' /\ generation' \in Nat /\ epoch' \in Nat /\ responses' \in Nat
  BY DEF Sessioned
<1>3. meant' \in [Utterances' -> Nat \union {Nothing}]
  BY <1>1 DEF Sessioned
<1> QED  BY <1>2, <1>3, Zenon DEF Sessioned, Captured

\* The card that is selected is no earlier than any before it.
LEMMA IntentRunsStep ==
  ASSUME DictationInv, IntentRuns
  PROVE  DictationInv'
<1>1. PICK call, thought : call = Head(appends).call /\ thought = Head(appends).card
  OBVIOUS
<1>2. /\ appends # << >> /\ IsIntent(Head(appends)) /\ calls' = Without(call)
      /\ appends' = Moved(Tail(appends))
      /\ UNCHANGED <<session, pending, bound, settling, epoch, buffer, cards, speech, response,
                     responses, meant, dropped, forgotten, voiceBounds>>
  BY <1>1 DEF IntentRuns, Returns, notes
<1>3. \/ capture' = FALSE /\ card' = Nothing
      \/ capture' = TRUE /\ card' = thought
      \/ UNCHANGED <<capture, card>>
  BY <1>1 DEF IntentRuns
<1>4. UNCHANGED <<status, generation, spoken, transcribing, voiceLimit>>
  BY <1>2 DEF session, speech, voiceBounds
<1>5. Associating /\ Sessioned /\ VoiceTyped /\ InPlace(buffer, appends) /\ Within(appends, Len(cards))
  BY TypedParts DEF DictationInv
<1>6. /\ Utterance' = Utterance /\ Utterances' = Utterances /\ Call' = Call
      /\ Entry' = Entry /\ Buffers' = Buffers
  BY <1>4, SpokenSame
<1>7. call \in Call /\ thought \in Nat
  <2>1. Head(appends) \in Entry
    BY <1>2, <1>5 DEF InPlace
  <2>2. Head(appends) \in Awaiting
    BY <1>2, <2>1, EntryKinds DEF Entry
  <2> QED  BY <1>1, <2>2 DEF Awaiting
<1>8. Associating'
  <2>1. calls' \in Seq(Call)
    BY <1>2, <1>5, <1>7, CallsTyped
  <2> QED  BY <1>2, <1>4, <1>5, <1>6, <2>1 DEF Associating
<1>9. Sessioned'
  <2>1. /\ card' \in Nat \union {Nothing} /\ capture' \in BOOLEAN /\ (capture' => card' # Nothing)
    <3>1. CASE capture' = FALSE /\ card' = Nothing
      BY <3>1
    <3>2. CASE capture' = TRUE /\ card' = thought
      <4>1. card' \in Nat /\ card' # Nothing
        BY <1>7, <3>2, VoiceAssumption
      <4> QED  BY <3>2, <4>1, Zenon
    <3>3. CASE UNCHANGED <<capture, card>>
      <4>1. card \in Nat \union {Nothing} /\ capture \in BOOLEAN /\ (capture => card # Nothing)
        BY <1>5, Zenon DEF Sessioned
      <4>2. capture' = capture /\ card' = card
        BY <3>3
      <4> QED  BY <4>1, <4>2, Zenon
    <3> QED  BY <1>3, <3>1, <3>2, <3>3, Zenon
  <2>2. cards' \in Seq(Seq(Utterance'))
    BY <1>2, <1>5, <1>6 DEF Sessioned
  <2>3. Captured'
    BY <2>1, <2>2, Zenon DEF Captured
  <2> QED  BY <1>2, <1>4, <1>5, <2>3, SessionedCaptured DEF session
<1>10. PICK r : r = Moved(Tail(appends))
  OBVIOUS
<1>11. PICK top \in Nat : top = Len(cards)
  BY <1>5 DEF Sessioned
<1>12. /\ InPlace(buffer, r) /\ Within(r, top)
       /\ thought =< top /\ Reaches(r, thought)
       /\ \A n \in 1 .. Len(r) : IsIntent(r[n]) => thought =< r[n].card
  BY <1>1, <1>2, <1>5, <1>10, <1>11, AfterHead
<1>13. Written' = Written /\ Widened
  BY <1>2 DEF Written, Widened
<1>14. appends' = r /\ Writings(appends)' = Writings(r) /\ Turns(appends)' = Turns(r)
  BY <1>2, <1>10 DEF Writings, Turns, IsIntent
<1>15. QueueInOrder(appends)'
  BY <1>2, <1>12, <1>13, <1>14 DEF InPlace, QueueInOrder
<1>16. BufferInOrder(buffer, appends)'
  BY <1>2, <1>12, <1>13, <1>14 DEF InPlace, BufferInOrder
<1>17. Complete(buffer)' /\ Distinct(buffer)'
  BY <1>2, <1>4, <1>6, <1>12 DEF InPlace, Complete, Distinct
<1>18. Unsaid(buffer, appends)'
  BY <1>2, <1>4, <1>6, <1>12, <1>13, <1>14 DEF InPlace, Unsaid
<1>19. QueueMeant(appends)'
  BY <1>2, <1>12, <1>14 DEF InPlace, QueueMeant
<1>20. BufferMeant(buffer)'
  BY <1>2, <1>6, <1>12 DEF InPlace, BufferMeant
<1>21. DictationKeepsOrder'
  BY <1>2, <1>13, OrderKept DEF DictationInv
<1>22. Ahead(r) /\ Within(r, top) /\ meant' = meant /\ voiceLimit' = voiceLimit
  BY <1>2, <1>4, <1>12 DEF InPlace
<1>23. \A k : Reaches(r, k) =>
         /\ \A i \in Utterances' : meant'[i] # Nothing => meant'[i] =< k
         /\ \A c \in 1 .. Len(cards') : cards'[c] # << >> => c =< k
         /\ \A n \in Writings(appends)' : appends'[n].to # Nothing => appends'[n].to =< k
  BY <1>13, <1>14, <1>22, ReachesOn
<1>24. /\ card' # Nothing => Reaches(r, card') /\ card' =< top
       /\ \A n \in 1 .. Len(r) : IsIntent(r[n]) /\ card' # Nothing => card' =< r[n].card
  BY <1>3, <1>12, <1>22 DEF Ahead, Within
<1>25. Ahead(appends)'
  <2>1. (card # Nothing => Reaches(appends, card))'
    BY <1>23, <1>24 DEF Reaches
  <2>2. ASSUME NEW n \in 1 .. Len(r), IsIntent(r[n])
        PROVE  /\ Reaches(r, r[n].card) /\ (card' # Nothing => card' =< r[n].card)
               /\ \A m \in 1 .. n - 1 : IsIntent(r[m]) => r[m].card =< r[n].card
    BY <1>22, <1>24, <2>2 DEF Ahead
  <2>3. (\A n \in 1 .. Len(appends) : IsIntent(appends[n]) =>
           /\ Reaches(appends, appends[n].card) /\ (card # Nothing => card =< appends[n].card)
           /\ \A m \in 1 .. n - 1 : IsIntent(appends[m]) => appends[m].card =< appends[n].card)'
    BY <1>14, <1>23, <2>2 DEF Reaches, IsIntent
  <2>4. (\A n \in Writings(appends) :
           /\ \A m \in Writings(appends) : m < n => appends[n].to = Nothing
           /\ appends[n].to \notin {Nothing, 0} =>
                \A c \in 1 .. Len(cards) : cards[c] # << >> => c =< appends[n].to)'
    BY <1>2, <1>14, <1>22 DEF Ahead
  <2> QED  BY <2>1, <2>3, <2>4 DEF Ahead
<1>26. Within(appends, Len(cards))'
  <2>1. Len(cards') = top
    BY <1>2, <1>11
  <2>2. Reaches(appends, Len(cards))'
    BY <1>22, <1>23, <2>1 DEF Within, Reaches
  <2> QED  BY <1>14, <1>22, <1>24, <2>1, <2>2 DEF Within, IsIntent
<1>27. buffer' \in Buffers' /\ appends' \in Seq(Entry')
  BY <1>2, <1>6, <1>12, <1>14 DEF InPlace
<1>28. InPlace(buffer, appends)'
  BY <1>15, <1>16, <1>17, <1>18, <1>19, <1>20, <1>25, <1>27 DEF InPlace
<1>29. VoiceTyped' /\ Hushed'
  BY <1>4, <1>8, <1>9, TypedParts, StaysHushed
<1> QED  BY <1>21, <1>26, <1>28, <1>29 DEF DictationInv

\* What the head of the queue writes comes after all that is on a card, and
\* before all that is queued or buffered.
LEMMA AppendAnsweredStep ==
  ASSUME DictationInv, NEW answer, AppendAnswered(answer)
  PROVE  DictationInv'
<1>1. PICK e : e = Head(appends)
  OBVIOUS
<1>2. /\ appends # << >> /\ ~IsIntent(e)
      /\ appends' = Moved(Tail(appends))
      /\ UNCHANGED <<session, association, tools, epoch, card, buffer, speech, responding,
                     notes, voiceLimit>>
      /\ \/ cards' = [cards EXCEPT ![e.to] = Append(@, e.turn)] /\ UNCHANGED capture
         \/ UNCHANGED cards /\ capture' = (capture /\ answer = "refused")
  BY <1>1 DEF AppendAnswered
<1>3. UNCHANGED <<generation, pending, bound, calls, settling, spoken, transcribing, response,
                  responses, meant, dropped, forgotten, status>>
  BY <1>2 DEF session, association, tools, speech, responding, notes
<1>4. Associating /\ Sessioned /\ VoiceTyped /\ InPlace(buffer, appends) /\ Within(appends, Len(cards))
  BY TypedParts DEF DictationInv
<1>5. /\ Utterance' = Utterance /\ Utterances' = Utterances /\ Call' = Call
      /\ Entry' = Entry /\ Buffers' = Buffers
  BY <1>2, <1>3, SpokenSame
<1>6. Associating'
  BY <1>3, <1>4, <1>5 DEF Associating
<1>7. PICK r : r = Moved(Tail(appends))
  OBVIOUS
<1>a. PICK top \in Nat : top = Len(cards)
  BY <1>4 DEF Sessioned
<1>8. /\ InPlace(buffer, r) /\ Within(r, top) /\ Turns(r) \subseteq Turns(appends)
      /\ \A n \in 1 .. Len(r) : IsIntent(r[n]) => Reaches(appends, r[n].card)
      /\ e \in Writing /\ 1 \in Writings(appends) /\ e.turn \in Turns(appends)
      /\ \A n \in Writings(r) :
           /\ r[n].turn # e.turn /\ r[n].to \in {Nothing, 0, card}
           /\ e.turn \notin dropped /\ r[n].turn \notin dropped => e.turn < r[n].turn
  BY <1>1, <1>2, <1>4, <1>7, <1>a, AfterHead
<1>9. e = appends[1]
  BY <1>1, <1>2, <1>4 DEF InPlace
<1>10. PICK turn, to : turn = e.turn /\ to = e.to
  OBVIOUS
<1>11. turn \in Utterance /\ to \in Nat \union {Nothing} /\ cards \in Seq(Seq(Utterance))
  BY <1>4, <1>8, <1>10 DEF Writing, Sessioned
<1>12. /\ turn \notin Written
       /\ turn \notin dropped => /\ \A i \in Written \ dropped : i < turn
                                 /\ meant[turn] # Nothing
                                 /\ to \notin {Nothing, 0} => meant[turn] =< to
  BY <1>4, <1>8, <1>9, <1>10 DEF InPlace, QueueInOrder, QueueMeant
<1>13. /\ to \notin {Nothing, 0} => \A c \in 1 .. Len(cards) : cards[c] # << >> => c =< to
       /\ \A k : Reaches(appends, k) /\ to # Nothing => to =< k
  BY <1>4, <1>8, <1>9, <1>10 DEF InPlace, Ahead, Reaches
\* The cards, with the words of turn on one of them.
<1>14. /\ cards' \in Seq(Seq(Utterance)) /\ Len(cards') = Len(cards)
       /\ \A c \in 1 .. Len(cards) :
            \/ cards'[c] = cards[c]
            \/ c = to /\ cards'[c] = Append(cards[c], turn)
  <2>1. CASE UNCHANGED cards
    BY <1>11, <2>1
  <2>2. CASE cards' = [cards EXCEPT ![to] = Append(@, turn)]
    <3>1. CASE to \in 1 .. Len(cards)
      <4>1. PICK d : d = Append(cards[to], turn)
        OBVIOUS
      <4>2. d \in Seq(Utterance)
        BY <1>11, <3>1, <4>1
      <4>3. cards' = [cards EXCEPT ![to] = d]
        BY <2>2, <4>1
      <4> QED  BY <1>11, <3>1, <4>1, <4>2, <4>3
    <3>2. CASE to \notin 1 .. Len(cards)
      <4>1. cards = [c \in 1 .. Len(cards) |-> cards[c]]
        BY <1>11
      <4>2. cards' = cards
        BY <2>2, <3>2, <4>1
      <4> QED  BY <1>11, <4>2
    <3> QED  BY <3>1, <3>2
  <2> QED  BY <1>2, <1>10, <2>1, <2>2
<1>15. \A c \in 1 .. Len(cards) : \A n \in 1 .. Len(cards'[c]) :
         \/ n \in 1 .. Len(cards[c]) /\ cards'[c][n] = cards[c][n]
         \/ /\ n = Len(cards[c]) + 1 /\ cards'[c][n] = turn /\ c = to
            /\ \A k \in 1 .. n - 1 : k \in 1 .. Len(cards[c]) /\ cards'[c][k] = cards[c][k]
  <2> SUFFICES ASSUME NEW c \in 1 .. Len(cards), NEW n \in 1 .. Len(cards'[c])
               PROVE  \/ n \in 1 .. Len(cards[c]) /\ cards'[c][n] = cards[c][n]
                      \/ /\ n = Len(cards[c]) + 1 /\ cards'[c][n] = turn /\ c = to
                         /\ \A k \in 1 .. n - 1 : /\ k \in 1 .. Len(cards[c])
                                                  /\ cards'[c][k] = cards[c][k]
    OBVIOUS
  <2>1. CASE cards'[c] = cards[c]
    BY <2>1
  <2>2. CASE c = to /\ cards'[c] = Append(cards[c], turn)
    <3>1. PICK d : d = cards[c]
      OBVIOUS
    <3>2. d \in Seq(Utterance) /\ cards'[c] = Append(d, turn)
      BY <1>11, <2>2, <3>1
    <3>3. PICK f : f = cards'[c]
      OBVIOUS
    <3>4. /\ Len(d) \in Nat /\ Len(f) = Len(d) + 1 /\ f[Len(d) + 1] = turn
          /\ \A k \in 1 .. Len(d) : f[k] = d[k]
      BY <3>2, <3>3
    <3>5. CASE n = Len(d) + 1
      BY <2>2, <3>1, <3>3, <3>4, <3>5
    <3>6. CASE n # Len(d) + 1
      <4>1. n \in 1 .. Len(d)
        BY <3>3, <3>4, <3>6
      <4> QED  BY <3>1, <3>3, <3>4, <4>1
    <3> QED  BY <3>5, <3>6
  <2> QED  BY <1>14, <2>1, <2>2
<1>16. \A c \in 1 .. Len(cards) : \A n \in 1 .. Len(cards[c]) : cards[c][n] \in Written
  BY DEF Written
<1>17. Written' \subseteq Written \union {turn}
  <2>1. \A c \in 1 .. Len(cards') : \A n \in 1 .. Len(cards'[c]) : cards'[c][n] \in Written \union {turn}
    BY <1>14, <1>15, <1>16
  <2>2. Written' = UNION { { cards'[c][n] : n \in 1 .. Len(cards'[c]) } : c \in 1 .. Len(cards') }
    BY DEF Written
  <2> QED  BY <2>1, <2>2
<1>b. Nothing \notin 1 .. Len(cards) /\ 0 \notin 1 .. Len(cards)
  BY VoiceAssumption
<1>18. DictationKeepsOrder'
  <2> SUFFICES ASSUME NEW c \in 1 .. Len(cards), NEW d \in 1 .. Len(cards),
                      NEW n \in 1 .. Len(cards'[c]), NEW m \in 1 .. Len(cards'[d])
               PROVE  Ordered(c, n, d, m)'
    BY <1>14, OrderIs
  <2>1. \A a, b \in 1 .. Len(cards) : \A k \in 1 .. Len(cards[a]), l \in 1 .. Len(cards[b]) :
          Ordered(a, k, b, l)
    BY OrderIs DEF DictationInv
  <2>2. CASE n \in 1 .. Len(cards[c]) /\ cards'[c][n] = cards[c][n]
    <3>1. cards[c][n] \in Written /\ cards[c] # << >>
      BY <1>16, <2>2
    <3>2. CASE m \in 1 .. Len(cards[d]) /\ cards'[d][m] = cards[d][m]
      <4>1. Ordered(c, n, d, m)
        BY <2>1, <2>2, <3>2
      <4> QED  BY <1>3, <2>2, <3>2, <4>1 DEF Ordered
    <3>3. CASE m = Len(cards[d]) + 1 /\ cards'[d][m] = turn /\ d = to
      <4>1. Ordered(c, n, c, n)
        BY <2>1, <2>2
      <4>2. cards[c][n] # turn /\ c =< d
        BY <1>12, <1>13, <1>b, <3>1, <3>3
      <4>3. c = d => n < m
        BY <2>2, <3>3
      <4>4. c < d \/ (c = d /\ n < m)
        BY <4>2, <4>3
      <4> QED  BY <1>3, <2>2, <3>3, <4>1, <4>2, <4>4 DEF Ordered
    <3> QED  BY <1>15, <3>2, <3>3
  <2>3. CASE n = Len(cards[c]) + 1 /\ cards'[c][n] = turn /\ c = to
    <3>1. turn \notin dropped => meant[turn] # Nothing /\ meant[turn] =< c
      BY <1>12, <1>b, <2>3
    <3>2. CASE m \in 1 .. Len(cards[d]) /\ cards'[d][m] = cards[d][m]
      <4>1. cards[d][m] \in Written /\ cards[d][m] \in Utterance
        BY <1>11, <1>16, <3>2
      <4>2. turn # cards[d][m]
        BY <1>12, <4>1
      <4>3. turn \notin dropped /\ cards[d][m] \notin dropped => ~ turn < cards[d][m]
        BY <1>11, <1>12, <4>1 DEF Utterance
      <4> QED  BY <1>3, <2>3, <3>1, <3>2, <4>2, <4>3 DEF Ordered
    <3>3. CASE m = Len(cards[d]) + 1 /\ cards'[d][m] = turn /\ d = to
      <4>1. ~ turn < turn
        BY <1>11 DEF Utterance
      <4> QED  BY <1>3, <2>3, <3>1, <3>3, <4>1 DEF Ordered
    <3> QED  BY <1>15, <3>2, <3>3
  <2> QED  BY <1>15, <2>2, <2>3
<1>20. Sessioned'
  <2>1. capture' \in BOOLEAN /\ (capture' => card' # Nothing)
    <3>1. capture \in BOOLEAN /\ (capture => card # Nothing) /\ card' = card
      BY <1>2, <1>4, Zenon DEF Sessioned
    <3>2. CASE UNCHANGED capture
      BY <3>1, <3>2, Zenon
    <3>3. CASE capture' = (capture /\ answer = "refused")
      BY <3>1, <3>3, Zenon
    <3> QED  BY <1>2, <3>2, <3>3, Zenon
  <2>2. cards' \in Seq(Seq(Utterance')) /\ card' \in Nat \union {Nothing}
    BY <1>2, <1>4, <1>5, <1>14 DEF Sessioned
  <2>3. Captured'
    BY <2>1, <2>2, Zenon DEF Captured
  <2> QED  BY <1>2, <1>3, <1>4, <2>3, SessionedCaptured
<1>21. appends' = r /\ Writings(appends)' = Writings(r) /\ Turns(appends)' = Turns(r)
  BY <1>2, <1>7 DEF Writings, Turns, IsIntent
<1>22. QueueInOrder(appends)'
  <2> SUFFICES ASSUME NEW n \in Writings(r)
               PROVE  /\ r[n].turn \notin Written'
                      /\ \A m \in Writings(r) : m < n =>
                           /\ r[m].turn # r[n].turn
                           /\ r[m].turn \notin dropped /\ r[n].turn \notin dropped
                                => r[m].turn < r[n].turn
                      /\ r[n].turn \notin dropped => \A i \in Written' \ dropped : i < r[n].turn
    BY <1>3, <1>21 DEF QueueInOrder
  <2>1. /\ r[n].turn \notin Written
        /\ \A m \in Writings(r) : m < n =>
             /\ r[m].turn # r[n].turn
             /\ r[m].turn \notin dropped /\ r[n].turn \notin dropped => r[m].turn < r[n].turn
        /\ r[n].turn \notin dropped => \A i \in Written \ dropped : i < r[n].turn
    BY <1>8 DEF InPlace, QueueInOrder
  <2> QED  BY <1>8, <1>10, <1>17, <2>1
<1>23. BufferInOrder(buffer, appends)' /\ Unsaid(buffer, appends)'
  <2>1. Written' \union Turns(r) \subseteq Written \union Turns(appends)
    BY <1>8, <1>10, <1>17
  <2>2. BufferInOrder(buffer, appends)'
    BY <1>2, <1>3, <1>4, <1>21, <2>1 DEF InPlace, BufferInOrder
  <2>3. Unsaid(buffer, appends)'
    BY <1>2, <1>3, <1>4, <1>5, <1>21, <2>1 DEF InPlace, Unsaid
  <2> QED  BY <2>2, <2>3
<1>24. Complete(buffer)' /\ Distinct(buffer)'
  BY <1>2, <1>3, <1>4, <1>5 DEF InPlace, Complete, Distinct
<1>25. QueueMeant(appends)'
  BY <1>2, <1>3, <1>8, <1>21 DEF InPlace, QueueMeant
<1>26. BufferMeant(buffer)'
  BY <1>2, <1>3, <1>4, <1>5 DEF InPlace, BufferMeant
\* No word is on a card beyond the one it was sent to.
<1>27. \A k : Reaches(appends, k) /\ Reaches(r, k) =>
         /\ \A i \in Utterances' : meant'[i] # Nothing => meant'[i] =< k
         /\ \A c \in 1 .. Len(cards') : cards'[c] # << >> => c =< k
         /\ \A n \in Writings(appends)' : appends'[n].to # Nothing => appends'[n].to =< k
  <2> SUFFICES ASSUME NEW k, Reaches(appends, k), Reaches(r, k)
               PROVE  /\ \A i \in Utterances : meant[i] # Nothing => meant[i] =< k
                      /\ \A c \in 1 .. Len(cards) : cards'[c] # << >> => c =< k
                      /\ \A n \in Writings(r) : r[n].to # Nothing => r[n].to =< k
    BY <1>3, <1>5, <1>14, <1>21
  <2>1. \A c \in 1 .. Len(cards) : cards'[c] # << >> => c =< k
    <3> SUFFICES ASSUME NEW c \in 1 .. Len(cards), cards'[c] # << >>  PROVE c =< k
      OBVIOUS
    <3>1. CASE cards'[c] = cards[c]
      BY <3>1 DEF Reaches
    <3>2. CASE c = to
      BY <1>13, <1>b, <3>2
    <3> QED  BY <1>14, <3>1, <3>2
  <2> QED  BY <2>1 DEF Reaches
<1>28. Ahead(appends) /\ Ahead(r) /\ card' = card
  BY <1>2, <1>4, <1>8 DEF InPlace
<1>29. Ahead(appends)'
  <2>1. (card # Nothing => Reaches(appends, card))'
    BY <1>27, <1>28 DEF Ahead, Reaches
  <2>2. ASSUME NEW n \in 1 .. Len(r), IsIntent(r[n])
        PROVE  /\ Reaches(r, r[n].card) /\ Reaches(appends, r[n].card)
               /\ (card # Nothing => card =< r[n].card)
               /\ \A m \in 1 .. n - 1 : IsIntent(r[m]) => r[m].card =< r[n].card
    BY <1>8, <1>28, <2>2 DEF Ahead
  <2>3. (\A n \in 1 .. Len(appends) : IsIntent(appends[n]) =>
           /\ Reaches(appends, appends[n].card) /\ (card # Nothing => card =< appends[n].card)
           /\ \A m \in 1 .. n - 1 : IsIntent(appends[m]) => appends[m].card =< appends[n].card)'
    BY <1>21, <1>27, <1>28, <2>2 DEF Reaches, IsIntent
  <2>4. ASSUME NEW n \in Writings(r)
        PROVE  /\ \A m \in Writings(r) : m < n => r[n].to = Nothing
               /\ r[n].to \notin {Nothing, 0} =>
                    \A c \in 1 .. Len(cards') : cards'[c] # << >> => c =< r[n].to
    <3>1. r[n].to \in {Nothing, 0, card}
      BY <1>8
    <3>2. \A m \in Writings(r) : m < n => r[n].to = Nothing
      BY <1>28 DEF Ahead
    <3>3. card # Nothing => \A c \in 1 .. Len(cards') : cards'[c] # << >> => c =< card
      BY <1>27, <1>28 DEF Ahead
    <3> QED  BY <3>1, <3>2, <3>3
  <2>5. (\A n \in Writings(appends) :
           /\ \A m \in Writings(appends) : m < n => appends[n].to = Nothing
           /\ appends[n].to \notin {Nothing, 0} =>
                \A c \in 1 .. Len(cards) : cards[c] # << >> => c =< appends[n].to)'
    BY <1>21, <2>4
  <2> QED  BY <2>1, <2>3, <2>5 DEF Ahead
<1>30. Within(appends, Len(cards))'
  <2>1. Len(cards') = top /\ Within(appends, top) /\ Within(r, top)
    BY <1>4, <1>8, <1>14, <1>a
  <2>2. Reaches(appends, Len(cards))'
    BY <1>27, <2>1 DEF Within, Reaches
  <2> QED  BY <1>21, <1>28, <2>1, <2>2 DEF Within, IsIntent
<1>31. buffer' \in Buffers' /\ appends' \in Seq(Entry')
  BY <1>2, <1>5, <1>8, <1>21 DEF InPlace
<1>32. InPlace(buffer, appends)'
  BY <1>22, <1>23, <1>24, <1>25, <1>26, <1>29, <1>31 DEF InPlace
<1>33. VoiceTyped' /\ Hushed'
  BY <1>3, <1>6, <1>20, TypedParts, StaysHushed
<1> QED  BY <1>18, <1>30, <1>32, <1>33 DEF DictationInv

LEMMA WiderSequence ==
  ASSUME NEW S, NEW T, S \subseteq T, NEW s \in Seq(S)
  PROVE  s \in Seq(T)
  OBVIOUS

LEMMA SpokenMore ==
  ASSUME spoken \in Nat, spoken' = spoken + 1, UNCHANGED voiceLimit
  PROVE  /\ Utterance \subseteq Utterance' /\ spoken' \in Utterance' /\ Utterances' = Utterances
         /\ Call \subseteq Call' /\ Writing \subseteq Writing' /\ Entry \subseteq Entry'
<1>1. Utterance \subseteq Utterance' /\ spoken' \in Utterance' /\ 0 .. spoken \subseteq 0 .. spoken'
  BY DEF Utterance
<1>2. Utterances' = Utterances
  BY DEF Utterances
<1>3. Call \subseteq Call'
  BY <1>1 DEF Call
<1>4. Writing \subseteq Writing'
  BY <1>1 DEF Writing
<1>5. Awaiting \subseteq Awaiting'
  BY <1>3 DEF Awaiting
<1>6. Entry \subseteq Entry'
  BY <1>4, <1>5 DEF Entry
<1> QED  BY <1>1, <1>2, <1>3, <1>4, <1>6

\* An utterance begins: its turn is the last of the buffer.
LEMMA SpeechStartsStep ==
  ASSUME DictationInv, SpeechStarts
  PROVE  DictationInv'
<1>1. PICK i : i = spoken + 1
  OBVIOUS
<1>2. /\ spoken < voiceLimit.utterances /\ spoken' = i
      /\ transcribing' = transcribing \union {i} /\ pending' = Remembered(i)
      /\ buffer' = [Ensured(buffer, i) EXCEPT !.current = i]
      /\ meant' = [meant EXCEPT ![i] = IF capture THEN card ELSE Nothing]
      /\ UNCHANGED <<status, generation, epoch, capture, card, bound, calls, settling, appends,
                     cards, response, responses, dropped, forgotten, voiceLimit>>
  BY <1>1 DEF SpeechStarts, session, tools, dictation, room, voiceBounds
<1>a. Hushed'
  BY <1>2 DEF SpeechStarts, Hushed, Active
<1>3. /\ Associating /\ Sessioned /\ VoiceTyped
      /\ InPlace(buffer, appends) /\ Within(appends, Len(cards))
  BY TypedParts DEF DictationInv
<1>4. /\ spoken \in Nat /\ forgotten \in 0 .. spoken /\ i \in Utterances /\ i \notin Utterance
      /\ \A k \in Utterance : k < i
  BY <1>1, <1>2, <1>3, Typical DEF Utterances, Utterance
<1>5. /\ Utterance \subseteq Utterance' /\ i \in Utterance' /\ Utterances' = Utterances
      /\ Call \subseteq Call' /\ Entry \subseteq Entry'
  BY <1>1, <1>2, <1>4, SpokenMore
<1>6. 0 .. spoken \subseteq 0 .. spoken' /\ spoken' \in Nat
  BY <1>1, <1>2, <1>4
<1>7. Associating'
  <2>1. pending' \in Seq(Utterance')
    <3>1. pending \in Seq(Utterance')
      BY <1>3, <1>5 DEF Associating
    <3> QED  BY <1>2, <1>5, <3>1 DEF Remembered
  <2>2. calls' \in Seq(Call')
    BY <1>2, <1>3, <1>5 DEF Associating
  <2>3. bound' \in 0 .. spoken' /\ transcribing' \subseteq Utterance'
    BY <1>2, <1>3, <1>5, <1>6 DEF Associating
  <2>4. settling' \subseteq [ call : Nat, utterance : 0 .. spoken',
                              outcome : {"completed", "interrupted"} ]
    BY <1>2, <1>3, <1>6 DEF Associating
  <2>5. response' \in [ id : Nat, calls : BOOLEAN ] \union {Nothing}
    BY <1>2, <1>3, Zenon DEF Associating
  <2> QED  BY <2>1, <2>2, <2>3, <2>4, <2>5, Zenon DEF Associating
<1>8. PICK m : m = IF capture THEN card ELSE Nothing
  OBVIOUS
<1>9. m \in Nat \union {Nothing} /\ (capture => m = card /\ card # Nothing)
  BY <1>3, <1>8 DEF Sessioned
<1>10. /\ meant' \in [Utterances -> Nat \union {Nothing}] /\ meant'[i] = m
       /\ \A k \in Utterances : k # i => meant'[k] = meant[k]
  BY <1>2, <1>3, <1>4, <1>8, <1>9 DEF Sessioned
<1>11. Sessioned'
  <2>1. cards' \in Seq(Seq(Utterance'))
    <3>1. Seq(Utterance) \subseteq Seq(Utterance')
      BY <1>5, WiderSequence
    <3> QED  BY <1>2, <1>3, <3>1 DEF Sessioned
  <2>2. /\ voiceLimit' \in VoiceLimits /\ spoken' \in 0 .. voiceLimit'.utterances
        /\ forgotten' \in 0 .. spoken'
    BY <1>2, <1>3, <1>4, <1>5, <1>6 DEF Sessioned, Utterances
  <2>3. generation' \in Nat /\ epoch' \in Nat /\ responses' \in Nat
    BY <1>2, <1>3 DEF Sessioned
  <2>4. card' \in Nat \union {Nothing} /\ capture' \in BOOLEAN /\ (capture' => card' # Nothing)
    <3>1. card \in Nat \union {Nothing} /\ capture \in BOOLEAN /\ (capture => card # Nothing)
      BY <1>3, Zenon DEF Sessioned
    <3>2. card' = card /\ capture' = capture
      BY <1>2
    <3> QED  BY <3>1, <3>2, Zenon
  <2>5. meant' \in [Utterances' -> Nat \union {Nothing}]
    BY <1>5, <1>10
  <2> QED  BY <2>1, <2>2, <2>3, <2>4, <2>5, Zenon DEF Sessioned
\* Utterances before this one.
<1>12. \A c \in 1 .. Len(cards) : \A n \in 1 .. Len(cards[c]) : cards[c][n] \in Utterance
  BY <1>3 DEF Sessioned
<1>13. Written' = Written /\ Written \subseteq Utterance
  BY <1>2, <1>12 DEF Written
<1>14. \A n \in Writings(appends) : appends[n].turn \in Utterance
  <2>1. \A n \in Writings(appends) : appends[n] \in Writing
    BY <1>3, EntryKinds DEF InPlace, Entry, Writings
  <2> QED  BY <2>1 DEF Writing
<1>15. Turns(appends) \subseteq Utterance
  BY <1>14 DEF Turns
<1>16. Writings(appends)' = Writings(appends) /\ Turns(appends)' = Turns(appends)
  BY <1>2 DEF Writings, Turns, IsIntent
<1>17. \A k \in Utterance : k \in Utterances /\ meant'[k] = meant[k]
  BY <1>3, <1>4, <1>10, Typical
<1>18. DictationKeepsOrder'
  <2>1. Widened
    BY <1>2 DEF Widened
  <2>2. \A c \in 1 .. Len(cards) : \A n \in 1 .. Len(cards[c]) :
          meant'[cards[c][n]] = meant[cards[c][n]]
    BY <1>12, <1>17
  <2> QED  BY <1>2, <2>1, <2>2, OrderKept DEF DictationInv
<1>20. QueueInOrder(appends)'
  BY <1>2, <1>3, <1>13, <1>16 DEF InPlace, QueueInOrder
<1>21. QueueMeant(appends)'
  BY <1>2, <1>3, <1>14, <1>16, <1>17 DEF InPlace, QueueMeant
\* Its turn is new.
<1>22. /\ buffer \in Buffers /\ buffer.order \in Seq(Utterance) /\ Len(buffer.order) \in Nat
       /\ \A n \in 1 .. Len(buffer.order) : buffer.order[n] \in Utterance
       /\ buffer.ignored \subseteq Utterance
  BY <1>3 DEF InPlace, Buffers
<1>23. buffer.turns[i] = Nothing
  BY <1>3, <1>4, <1>22 DEF InPlace, Complete
<1>24. PICK t, order : t = NewTurn /\ order = Append(buffer.order, i)
  OBVIOUS
<1>25. t \in Turn /\ t # Nothing /\ t.outcome = "none" /\ t.thought = FALSE /\ t.capturing = capture
  BY <1>3, <1>24, Typical DEF NewTurn
<1>26. buffer' = [buffer EXCEPT !.turns[i] = t, !.order = order, !.current = i]
  BY <1>2, <1>22, <1>23, <1>24 DEF Ensured, Buffers
<1>27. /\ order \in Seq(Utterance') /\ Len(order) = Len(buffer.order) + 1
       /\ \A n \in 1 .. Len(buffer.order) : order[n] = buffer.order[n]
       /\ order[Len(buffer.order) + 1] = i
  <2>1. buffer.order \in Seq(Utterance')
    BY <1>5, <1>22
  <2> QED  BY <1>5, <1>24, <2>1
<1>28. /\ buffer'.turns \in [Utterances -> Turn \union {Nothing}]
       /\ buffer'.turns[i] = t /\ \A j \in Utterances : j # i => buffer'.turns[j] = buffer.turns[j]
       /\ buffer'.order = order /\ buffer'.ignored = buffer.ignored /\ buffer'.current = i
  BY <1>4, <1>22, <1>25, <1>26 DEF Buffers
<1>29. buffer' \in Buffers' /\ appends' \in Seq(Entry')
  <2>1. appends' \in Seq(Entry')
    BY <1>2, <1>3, <1>5, WiderSequence DEF InPlace
  <2>2. i \in 0 .. spoken'
    BY <1>1, <1>2, <1>4
  <2>3. buffer' = [ current |-> i, turns |-> buffer'.turns, order |-> order,
                    ignored |-> buffer.ignored ]
    BY <1>22, <1>26, <1>28 DEF Buffers
  <2>4. buffer.ignored \in SUBSET Utterance'
    BY <1>5, <1>22
  <2> QED  BY <1>5, <1>27, <1>28, <2>1, <2>2, <2>3, <2>4 DEF Buffers
<1>30. BufferInOrder(buffer, appends)'
  <2> SUFFICES ASSUME NEW n \in 1 .. Len(order),
                      order[n] > forgotten, order[n] \notin buffer.ignored
               PROVE  /\ \A k \in buffer.ignored \union Written \union Turns(appends) : k < order[n]
                      /\ \A l \in 1 .. n - 1 : order[l] < order[n]
    BY <1>2, <1>13, <1>16, <1>28 DEF BufferInOrder
  <2>1. CASE n = Len(buffer.order) + 1
    BY <1>4, <1>13, <1>15, <1>22, <1>27, <2>1
  <2>2. CASE n # Len(buffer.order) + 1
    <3>1. n \in 1 .. Len(buffer.order) /\ \A l \in 1 .. n : order[l] = buffer.order[l]
      BY <1>22, <1>27, <2>2
    <3>2. /\ \A k \in buffer.ignored \union Written \union Turns(appends) : k < buffer.order[n]
          /\ \A l \in 1 .. n - 1 : buffer.order[l] < buffer.order[n]
      BY <1>3, <1>27, <3>1 DEF InPlace, BufferInOrder
    <3> QED  BY <3>1, <3>2
  <2> QED  BY <2>1, <2>2
<1>31. Complete(buffer)'
  <2>1. \A j \in Utterances : buffer'.turns[j] # Nothing <=> \E n \in 1 .. Len(order) : order[n] = j
    <3> SUFFICES ASSUME NEW j \in Utterances
                 PROVE  buffer'.turns[j] # Nothing <=> \E n \in 1 .. Len(order) : order[n] = j
      OBVIOUS
    <3>1. CASE j = i
      <4>1. Len(buffer.order) + 1 \in 1 .. Len(order)
        BY <1>22, <1>27
      <4> QED  BY <1>25, <1>27, <1>28, <3>1, <4>1
    <3>2. CASE j # i
      <4>1. buffer.turns[j] # Nothing <=> \E n \in 1 .. Len(buffer.order) : buffer.order[n] = j
        BY <1>3 DEF InPlace, Complete
      <4>2. (\E n \in 1 .. Len(buffer.order) : buffer.order[n] = j)
              <=> \E n \in 1 .. Len(order) : order[n] = j
        <5>1. 1 .. Len(order) = (1 .. Len(buffer.order)) \union {Len(buffer.order) + 1}
          BY <1>22, <1>27
        <5> QED  BY <1>27, <3>2, <5>1
      <4> QED  BY <1>28, <3>2, <4>1, <4>2
    <3> QED  BY <3>1, <3>2
  <2>2. \A j \in forgotten + 1 .. spoken' : j \in buffer.ignored \/ buffer'.turns[j] # Nothing
    <3> SUFFICES ASSUME NEW j \in forgotten + 1 .. spoken'
                 PROVE  j \in buffer.ignored \/ buffer'.turns[j] # Nothing
      OBVIOUS
    <3>1. CASE j = i
      BY <1>25, <1>28, <3>1
    <3>2. CASE j # i
      <4>1. j \in forgotten + 1 .. spoken /\ j \in Utterances
        BY <1>1, <1>2, <1>3, <1>4, <3>2, Typical DEF Utterances
      <4> QED  BY <1>3, <1>28, <3>2, <4>1 DEF InPlace, Complete
    <3> QED  BY <3>1, <3>2
  <2>3. \A j \in buffer.ignored : buffer'.turns[j] # Nothing => buffer'.turns[j].outcome = "none"
    <3>1. \A j \in buffer.ignored : j \in Utterances /\ j # i
      BY <1>4, <1>17, <1>22
    <3> QED  BY <1>3, <1>28, <3>1 DEF InPlace, Complete
  <2> QED  BY <1>2, <1>5, <1>28, <2>1, <2>2, <2>3 DEF Complete
<1>32. BufferMeant(buffer)'
  <2> SUFFICES ASSUME NEW j \in Utterances, buffer'.turns[j] # Nothing, j \notin buffer.ignored,
                      j > forgotten, buffer'.turns[j].capturing \/ buffer'.turns[j].thought
               PROVE  meant'[j] # Nothing
    BY <1>2, <1>5, <1>28 DEF BufferMeant
  <2>1. CASE j = i
    BY <1>9, <1>10, <1>25, <1>28, <2>1
  <2>2. CASE j # i
    BY <1>3, <1>10, <1>28, <2>2 DEF InPlace, BufferMeant
  <2> QED  BY <2>1, <2>2
<1>33. Distinct(buffer)'
  <2> SUFFICES ASSUME NEW n \in 1 .. Len(order), NEW l \in 1 .. n - 1
               PROVE  order[l] # order[n]
    BY <1>28 DEF Distinct
  <2>1. l \in 1 .. Len(buffer.order)
    BY <1>22, <1>27
  <2>2. CASE n = Len(buffer.order) + 1
    BY <1>4, <1>22, <1>27, <2>1, <2>2
  <2>3. CASE n # Len(buffer.order) + 1
    <3>1. n \in 1 .. Len(buffer.order) /\ order[n] = buffer.order[n]
      BY <1>22, <1>27, <2>3
    <3> QED  BY <1>3, <1>27, <2>1, <3>1 DEF InPlace, Distinct
  <2> QED  BY <2>2, <2>3
<1>34. Unsaid(buffer, appends)'
  <2> SUFFICES ASSUME NEW j \in Utterance', j \notin buffer.ignored,
                      \/ j \in transcribing'
                      \/ buffer'.turns[j] # Nothing /\ buffer'.turns[j].thought
               PROVE  j \notin Written \union Turns(appends) /\ (j =< forgotten => j \in dropped)
    BY <1>2, <1>13, <1>16, <1>28 DEF Unsaid
  <2>1. CASE j = i
    <3>1. i \notin Written /\ i \notin Turns(appends)
      BY <1>4, <1>13, <1>15
    <3>2. ~ i =< forgotten
      BY <1>1, <1>4
    <3> QED  BY <2>1, <3>1, <3>2
  <2>2. CASE j # i
    <3>1. j \in Utterance
      BY <1>1, <1>2, <1>4, <2>2 DEF Utterance
    <3>2. j \in transcribing \/ (buffer.turns[j] # Nothing /\ buffer.turns[j].thought)
      BY <1>2, <1>17, <1>28, <2>2, <3>1
    <3> QED  BY <1>3, <3>1, <3>2 DEF InPlace, Unsaid
  <2> QED  BY <2>1, <2>2
\* It is meant for the card of now.
<1>35. ASSUME NEW k \in Nat, Reaches(appends, k), card # Nothing => card =< k
       PROVE  /\ \A j \in Utterances' : meant'[j] # Nothing => meant'[j] =< k
              /\ \A c \in 1 .. Len(cards') : cards'[c] # << >> => c =< k
              /\ \A n \in Writings(appends)' : appends'[n].to # Nothing => appends'[n].to =< k
  <2>1. \A j \in Utterances : meant'[j] # Nothing => meant'[j] =< k
    BY <1>8, <1>10, <1>35 DEF Reaches
  <2> QED  BY <1>2, <1>5, <1>16, <1>35, <2>1 DEF Reaches
<1>36. Ahead(appends)'
  <2>1. card' # Nothing => Reaches(appends, card)'
    <3>1. card # Nothing => card \in Nat /\ card =< card /\ Reaches(appends, card)
      BY <1>3 DEF InPlace, Ahead, Sessioned
    <3> QED  BY <1>2, <1>35, <3>1 DEF Reaches
  <2>2. ASSUME NEW n \in 1 .. Len(appends'), IsIntent(appends'[n])
        PROVE  /\ Reaches(appends, appends[n].card)'
               /\ (card' # Nothing => card' =< appends'[n].card)
               /\ \A l \in 1 .. n - 1 : IsIntent(appends'[l]) => appends'[l].card =< appends'[n].card
    <3>1. n \in 1 .. Len(appends) /\ IsIntent(appends[n])
      BY <1>2, <2>2
    <3>2. /\ Reaches(appends, appends[n].card) /\ (card # Nothing => card =< appends[n].card)
          /\ \A l \in 1 .. n - 1 : IsIntent(appends[l]) => appends[l].card =< appends[n].card
      BY <1>3, <3>1 DEF InPlace, Ahead
    <3>3. appends[n].card \in Nat
      BY <1>3, <3>1, IntentsTyped DEF InPlace
    <3> QED  BY <1>2, <1>35, <3>2, <3>3 DEF Reaches
  <2>3. \A n \in Writings(appends)' :
          /\ \A l \in Writings(appends)' : l < n => appends'[n].to = Nothing
          /\ appends'[n].to \notin {Nothing, 0} =>
               \A c \in 1 .. Len(cards') : cards'[c] # << >> => c =< appends'[n].to
    BY <1>2, <1>3, <1>16 DEF InPlace, Ahead
  <2>4. \A n \in 1 .. Len(appends') : IsIntent(appends'[n]) =>
          /\ Reaches(appends, appends[n].card)'
          /\ (card' # Nothing => card' =< appends'[n].card)
          /\ \A l \in 1 .. n - 1 : IsIntent(appends'[l]) => appends'[l].card =< appends'[n].card
    BY <2>2
  <2> QED  BY <2>1, <2>3, <2>4, Zenon DEF Ahead
<1>37. Within(appends, Len(cards))'
  <2>1. Len(cards) \in Nat
    BY <1>3 DEF Sessioned
  <2>2. Reaches(appends, Len(cards)) /\ (card # Nothing => card =< Len(cards))
    BY <1>3 DEF Within
  <2>3. Reaches(appends, Len(cards))'
    BY <1>2, <1>35, <2>1, <2>2 DEF Reaches
  <2> QED  BY <1>2, <1>3, <2>3 DEF Within
<1>38. InPlace(buffer, appends)'
  BY <1>20, <1>21, <1>29, <1>30, <1>31, <1>32, <1>33, <1>34, <1>36 DEF InPlace
<1> QED  BY <1>7, <1>11, <1>a, <1>18, <1>37, <1>38, TypedParts DEF DictationInv

LEMMA WithinMore ==
  ASSUME VoiceTyped, NEW q \in Seq(Entry), NEW k \in Nat, NEW l \in Nat, k =< l, Within(q, k)
  PROVE  Within(q, l)
<1>1. \A i \in Utterances : meant[i] # Nothing => meant[i] \in Nat
  BY DEF VoiceTyped
<1>2. card # Nothing => card \in Nat
  BY DEF VoiceTyped
<1>3. \A n \in 1 .. Len(q) : IsIntent(q[n]) => q[n].card \in Nat
  BY IntentsTyped
<1>4. \A n \in Writings(q) : q[n].to # Nothing => q[n].to \in Nat
  BY WritingsTyped
<1>5. Reaches(q, l)
  BY <1>1, <1>4 DEF Within, Reaches
<1> QED  BY <1>2, <1>3, <1>5 DEF Within

\* A card that is made is empty, and an intent only reserves what was said.
LEMMA CapabilityAnswersStep ==
  ASSUME DictationInv, NEW k \in 1 .. Len(calls), CapabilityAnswers(calls[k])
  PROVE  DictationInv'
<1>1. PICK call : call = calls[k]
  OBVIOUS
<1>2. /\ cards' = IF call.tool = "start" THEN Append(cards, << >>) ELSE cards
      /\ \/ Returns(call) /\ UNCHANGED buffering
         \/ Intent(call, Len(cards'))
      /\ UNCHANGED <<status, generation, pending, bound, settling, dictation, speech, response,
                     responses, notes, voiceLimit>>
  BY <1>1 DEF CapabilityAnswers, session, voiceBounds
<1>3. Quiet /\ UNCHANGED <<generation, epoch, capture, spoken, transcribing>>
  BY <1>2 DEF Quiet, dictation, speech, notes
<1>4. /\ Associating /\ Sessioned /\ VoiceTyped
      /\ InPlace(buffer, appends) /\ Within(appends, Len(cards))
  BY TypedParts DEF DictationInv
<1>5. Utterance' = Utterance /\ Utterances' = Utterances /\ Call' = Call
  BY <1>2, <1>3, SpokenSame
<1>6. call \in Call
  BY <1>1, <1>4 DEF Associating
<1>7. /\ cards' \in Seq(Seq(Utterance)) /\ Len(cards') \in Nat
      /\ \A c \in 1 .. Len(cards') : cards'[c] = << >> \/ (c \in 1 .. Len(cards) /\ cards'[c] = cards[c])
      /\ \A c \in 1 .. Len(cards) : c \in 1 .. Len(cards') /\ cards'[c] = cards[c]
  <2>1. cards \in Seq(Seq(Utterance)) /\ << >> \in Seq(Utterance)
    BY <1>4 DEF Sessioned
  <2>2. PICK none : none = << >> /\ none \in Seq(Utterance)
    BY <2>1
  <2>3. CASE cards' = Append(cards, none)
    <3>1. PICK d : d = Append(cards, none)
      OBVIOUS
    <3>2. d \in Seq(Seq(Utterance))
      BY <2>1, <2>2, <3>1
    <3>3. /\ Len(cards) \in Nat /\ Len(d) = Len(cards) + 1 /\ d[Len(cards) + 1] = none
          /\ \A c \in 1 .. Len(cards) : d[c] = cards[c]
      BY <2>1, <2>2, <3>1
    <3>4. d \in Seq(Seq(Utterance)) /\ Len(d) \in Nat
      BY <3>2
    <3>5. \A c \in 1 .. Len(d) : d[c] = << >> \/ (c \in 1 .. Len(cards) /\ d[c] = cards[c])
      <4>1. \A c \in 1 .. Len(d) : c \in 1 .. Len(cards) \/ c = Len(cards) + 1
        BY <3>3
      <4>2. d[Len(cards) + 1] = << >>
        BY <2>2, <3>3
      <4>3. \A c \in 1 .. Len(cards) : d[c] = cards[c]
        BY <3>3
      <4>4. ASSUME NEW c \in 1 .. Len(d)
            PROVE  d[c] = << >> \/ (c \in 1 .. Len(cards) /\ d[c] = cards[c])
        <5>1. CASE c \in 1 .. Len(cards)
          BY <4>3, <5>1
        <5>2. CASE c = Len(cards) + 1
          BY <4>2, <5>2
        <5> QED  BY <4>1, <5>1, <5>2
      <4> QED  BY <4>4
    <3>6. \A c \in 1 .. Len(cards) : c \in 1 .. Len(d) /\ d[c] = cards[c]
      BY <3>3
    <3>7. cards' = d
      BY <2>3, <3>1
    <3> QED  BY <3>4, <3>5, <3>6, <3>7, Zenon
  <2>4. CASE cards' = cards
    BY <2>1, <2>4
  <2> QED  BY <1>2, <2>2, <2>3, <2>4
<1>8. DictationKeepsOrder' /\ Widened /\ Len(cards) =< Len(cards')
  <2>1. Widened
    BY <1>7 DEF Widened
  <2>2. DictationKeepsOrder'
    BY <1>3, <2>1, OrderKept DEF DictationInv, Quiet
  <2>3. Len(cards) =< Len(cards')
    BY <1>4, <1>7 DEF Sessioned
  <2> QED  BY <2>1, <2>2, <2>3
<1>9. Written' = Written
  <2>1. Written' \subseteq Written
    <3>1. ASSUME NEW c \in 1 .. Len(cards'), NEW n \in 1 .. Len(cards'[c])
          PROVE  cards'[c][n] \in Written
      <4>1. c \in 1 .. Len(cards) /\ cards'[c] = cards[c]
        BY <1>7
      <4> QED  BY <4>1 DEF Written
    <3>2. Written' = UNION { { cards'[c][n] : n \in 1 .. Len(cards'[c]) } : c \in 1 .. Len(cards') }
      BY DEF Written
    <3> QED  BY <3>1, <3>2
  <2>2. Written \subseteq Written'
    <3>1. ASSUME NEW c \in 1 .. Len(cards), NEW n \in 1 .. Len(cards[c])
          PROVE  cards[c][n] \in Written'
      <4>1. c \in 1 .. Len(cards') /\ cards'[c] = cards[c]
        BY <1>7
      <4> QED  BY <4>1 DEF Written
    <3>2. Written = UNION { { cards[c][n] : n \in 1 .. Len(cards[c]) } : c \in 1 .. Len(cards) }
      BY DEF Written
    <3> QED  BY <3>1, <3>2
  <2> QED  BY <2>1, <2>2
<1>10. calls' \in Seq(Call)
  BY <1>2, <1>4, <1>6, CallsTyped DEF Returns, Intent
<1>11. Associating'
  BY <1>2, <1>3, <1>4, <1>5, <1>10 DEF Associating
<1>12. Sessioned'
  <2>1. card' = card /\ capture' = capture
    BY <1>3 DEF Quiet
  <2>2. card \in Nat \union {Nothing} /\ capture \in BOOLEAN /\ (capture => card # Nothing)
    BY <1>4, Zenon DEF Sessioned
  <2>3. cards' \in Seq(Seq(Utterance'))
    BY <1>5, <1>7
  <2>4. Captured'
    BY <2>1, <2>2, <2>3, Zenon DEF Captured
  <2> QED  BY <1>2, <1>3, <1>4, <2>4, SessionedCaptured DEF Quiet
<1>13. Within(appends, Len(cards'))
  <2>1. Len(cards) \in Nat /\ Len(cards) =< Len(cards') /\ Within(appends, Len(cards))
    BY <1>4, <1>8 DEF Sessioned
  <2> QED  BY <1>4, <1>7, <2>1, WithinMore DEF InPlace
<1>14. \E b, q : InPlace(b, q) /\ Within(q, Len(cards')) /\ b = buffer' /\ q = appends'
  <2>1. CASE UNCHANGED buffering
    BY <1>4, <1>13, <2>1 DEF buffering
  <2>2. CASE Intent(call, Len(cards'))
    <3>1. PICK e : e = [call |-> call, card |-> Len(cards')]
      OBVIOUS
    <3>2. e \in Awaiting /\ call.utterance \in 0 .. spoken /\ e.card = Len(cards')
      BY <1>6, <1>7, <3>1 DEF Awaiting, Call
    <3>3. PICK b, r : b = Reserved(buffer, call.utterance) /\ r = Append(appends, e)
      OBVIOUS
    <3>4. InPlace(b, appends)
      BY <1>4, <3>2, <3>3, ReservedInPlace
    <3>5. InPlace(b, r) /\ Within(r, Len(cards'))
      BY <1>4, <1>13, <3>2, <3>3, <3>4, IntentInPlace
    <3>6. InPlace(b, Moved(r)) /\ Within(Moved(r), Len(cards'))
      BY <1>4, <1>7, <3>5, MovedInPlace
    <3>7. buffer' = b /\ appends' = Moved(r)
      BY <2>2, <3>1, <3>3 DEF Intent
    <3> QED  BY <3>6, <3>7
  <2> QED  BY <1>2, <2>1, <2>2
<1>15. PICK b, q : InPlace(b, q) /\ Within(q, Len(cards')) /\ b = buffer' /\ q = appends'
  BY <1>14
<1>16. transcribing' \subseteq transcribing /\ Hushed'
  BY <1>2, <1>3, StaysHushed
<1>17. InPlace(buffer, appends)' /\ Within(appends, Len(cards))'
  BY <1>3, <1>8, <1>9, <1>15, <1>16, QuietInPlace, Zenon
<1> QED  BY <1>8, <1>11, <1>12, <1>16, <1>17, TypedParts DEF DictationInv

-----------------------------------------------------------------------------
(* The theorem.                                                            *)

LEMMA DictationBegins ==
  ASSUME VoiceInit
  PROVE  DictationInv
<1>1. voiceLimit.utterances \in Nat
  BY VoiceAssumption DEF VoiceInit
<1>2. Associating
  <2>1. << >> \in Seq(Utterance) /\ << >> \in Seq(Call)
    OBVIOUS
  <2>2. bound \in 0 .. spoken
    BY DEF VoiceInit
  <2> QED  BY <2>1, <2>2 DEF VoiceInit, Associating
<1>3. Sessioned
  <2>1. /\ voiceLimit \in VoiceLimits /\ spoken \in 0 .. voiceLimit.utterances
        /\ forgotten \in 0 .. spoken /\ generation \in Nat /\ epoch \in Nat /\ responses \in Nat
    BY <1>1 DEF VoiceInit
  <2>2. cards \in Seq(Seq(Utterance))
    BY DEF VoiceInit
  <2>3. card \in Nat \union {Nothing} /\ capture = FALSE
    BY DEF VoiceInit
  <2>4. meant \in [Utterances -> Nat \union {Nothing}]
    BY DEF VoiceInit
  <2> QED  BY <2>1, <2>2, <2>3, <2>4, Zenon DEF Sessioned
<1>4. VoiceTyped
  BY <1>2, <1>3, TypedParts
<1>5. buffer \in Buffers /\ buffer.order = << >> /\ \A i \in Utterances : buffer.turns[i] = Nothing
  BY <1>4, EmptyBufferTyped DEF VoiceInit
<1>6. buffer.ignored = {} /\ appends = << >> /\ cards = << >> /\ spoken = 0 /\ forgotten = 0
  BY DEF VoiceInit, EmptyBuffer
<1>7. DictationKeepsOrder /\ Hushed
  BY <1>6 DEF DictationKeepsOrder, VoiceInit, Hushed
<1>8. Writings(appends) = {} /\ appends \in Seq(Entry) /\ Len(appends) = 0 /\ Len(cards) = 0
  BY <1>6 DEF Writings
<1>9. QueueInOrder(appends) /\ QueueMeant(appends)
  BY <1>8 DEF QueueInOrder, QueueMeant
<1>10. BufferInOrder(buffer, appends) /\ Complete(buffer) /\ BufferMeant(buffer) /\ Distinct(buffer)
  BY <1>5, <1>6 DEF BufferInOrder, Complete, BufferMeant, Distinct
<1>11. Unsaid(buffer, appends)
  BY <1>5, <1>6 DEF Unsaid, Utterance
<1>12. Ahead(appends) /\ Within(appends, Len(cards))
  <2>1. card = Nothing /\ \A i \in Utterances : meant[i] = Nothing
    BY DEF VoiceInit
  <2> QED  BY <1>8, <2>1 DEF Ahead, Within, Reaches
<1> QED  BY <1>4, <1>5, <1>7, <1>8, <1>9, <1>10, <1>11, <1>12 DEF DictationInv, InPlace

LEMMA DictationStep ==
  ASSUME DictationInv, [VoiceNext]_voiceVars
  PROVE  DictationInv'
<1>1. CASE UNCHANGED voiceVars
  <2>1. /\ UNCHANGED <<dictation, buffering, room, notes, status, generation, spoken, voiceLimit>>
        /\ UNCHANGED <<pending, bound, calls, settling, transcribing, response, responses>>
    BY <1>1 DEF voiceVars, session, association, tools, speech, responding, voiceBounds
  <2>2. Associating /\ responses \in Nat
    BY TypedParts DEF DictationInv, Sessioned
  <2>3. Associating' /\ responses' \in Nat
    BY <2>1, <2>2, SpokenSame DEF Associating
  <2>4. transcribing' \subseteq transcribing /\ Hushed'
    BY <2>1, StaysHushed
  <2> QED  BY <2>1, <2>3, <2>4, AsideStep
<1>2. CASE Continues
  BY <1>2, IntentRunsStep, SettleLaterStep, CallBeginsStep DEF Continues
<1>3. CASE Events
  <2>1. CASE StartVoice
    BY <2>1, StartVoiceStep
  <2>2. CASE Acknowledged
    BY <2>2, AcknowledgedStep
  <2>3. CASE StopVoice \/ SessionFails
    BY <2>3, EndStep DEF StopVoice, SessionFails
  <2>4. CASE SpeechStarts
    BY <2>4, SpeechStartsStep
  <2>5. CASE \E i \in Utterances, boundary \in BOOLEAN : Transcribed(i, boundary)
    BY <2>5, TranscribedStep
  <2>6. CASE \E i \in Utterances : TranscribedEmpty(i)
    BY <2>6, TranscribedEmptyStep
  <2>7. CASE ResponseCreated
    BY <2>7, ResponseCreatedStep
  <2>8. CASE \E tool \in {"start", "finish", "other"} : FunctionCalled(tool)
    BY <2>8, FunctionCalledStep
  <2>9. CASE \E outcome \in {"completed", "interrupted"} : ResponseDone(outcome)
    BY <2>9, ResponseDoneStep
  <2>10. CASE \E k \in 1 .. Len(calls) : CapabilityAnswers(calls[k]) \/ CapabilityRefused(calls[k])
    BY <2>10, CapabilityAnswersStep, CapabilityRefusedStep
  <2>11. CASE \E answer \in {"added", "refused", "aborted"} : AppendAnswered(answer)
    BY <2>11, AppendAnsweredStep
  <2>12. CASE CardRemoved
    BY <2>12, CardRemovedStep
  <2> QED  BY <1>3, <2>1, <2>2, <2>3, <2>4, <2>5, <2>6, <2>7, <2>8, <2>9, <2>10, <2>11, <2>12
           DEF Events
<1> QED  BY <1>1, <1>2, <1>3 DEF VoiceNext

\* Dictation stands on the cards in the order of speech, each utterance once, what
\* was said outside a thought nowhere, and nothing on a card before the one it was
\* said for, but for the turns that a removed card had dropped: the buffer and the
\* append queue of realtime-voice-control.tsx.
THEOREM DictationAlwaysKeepsOrder == VoiceSpec => []DictationKeepsOrder
<1>1. VoiceInit => DictationInv
  BY DictationBegins
<1>2. DictationInv /\ [VoiceNext]_voiceVars => DictationInv'
  BY DictationStep
<1>3. DictationInv => DictationKeepsOrder
  BY DEF DictationInv
<1> QED  BY <1>1, <1>2, <1>3, PTL DEF VoiceSpec

-----------------------------------------------------------------------------
(* Dictation goes on.                                                      *)
(*                                                                         *)
(* The service owes a response for each pending utterance and each         *)
(* follow-up, no more and no less, so that whatever is pending is bound in *)
(* the end.  A turn that is held back, since the buffer was last emptied,  *)
(* has its response and its transcript to come: it is never made anew, for *)
(* what is said is buffered until it leaves.  And the first turn is not    *)
(* ready, or it would have left.                                           *)

Associated(i) ==
  i \in Range(pending) \union settled \/ (response # Nothing /\ bound = i)

OnItsWay(i) ==
  \/ i \in Range(pending)
  \/ response # Nothing /\ bound = i
  \/ \E s \in settling : s.utterance = i

Owed ==
  /\ followups \in Nat /\ asked \in Nat /\ unanswered \in Seq(Nat)
  /\ settled \subseteq Utterance
  /\ Len(pending) + followups = Len(unanswered) + asked
  /\ \A i \in transcribing : Associated(i)

Stay(b) == { i \in Utterances : b.turns[i] # Nothing /\ i > forgotten /\ i \notin b.ignored }

HeldBack(b) ==
  \A i \in Stay(b) :
    /\ b.turns[i].outcome = "none" => OnItsWay(i)
    /\ b.turns[i].transcribed \/ i \in transcribing \union silent

FirstUnready(b) == b.order # << >> => ~IsReady(b.turns[b.order[1]])

WaitsInv == Owed /\ HeldBack(buffer) /\ FirstUnready(buffer)

\* What c holds back b held back, and waited for all that c waits for.
Follows(c, b) ==
  \A i \in Stay(c) :
    /\ i \in Stay(b)
    /\ c.turns[i].outcome = "none" => b.turns[i].outcome = "none"
    /\ b.turns[i].transcribed => c.turns[i].transcribed

LEMMA EnsuredFollows ==
  ASSUME VoiceTyped, NEW b, NEW q, InPlace(b, q), NEW i \in Utterance
  PROVE  /\ Follows(Ensured(b, i), b)
         /\ FirstUnready(b) => FirstUnready(Ensured(b, i))
<1>1. b \in Buffers /\ i \in Utterances /\ b.turns[i] \in Turn \union {Nothing}
  BY Typical DEF InPlace, Buffers
<1>2. CASE b.turns[i] # Nothing
  BY <1>1, <1>2 DEF Ensured, Follows
<1>3. CASE b.turns[i] = Nothing
  <2>1. PICK t : t = NewTurn
    OBVIOUS
  <2>2. t # Nothing /\ ~IsReady(t)
    BY <2>1, Typical DEF NewTurn, IsReady
  <2>3. PICK on : on = Ensured(b, i)
    OBVIOUS
  <2>4. PICK order : order = Append(b.order, i)
    OBVIOUS
  <2>5. on = [b EXCEPT !.turns[i] = t, !.order = order]
    BY <1>3, <2>1, <2>3, <2>4 DEF Ensured
  <2>6. /\ b.order \in Seq(Utterance) /\ order # << >>
        /\ b.order = << >> => order[1] = i
        /\ b.order # << >> => order[1] = b.order[1] /\ b.order[1] \in Utterance
                              /\ \E n \in 1 .. Len(b.order) : b.order[n] = b.order[1]
    <3>1. b.order \in Seq(Utterance)
      BY <1>1 DEF Buffers
    <3>2. order # << >>
      BY <2>4, <3>1
    <3>3. b.order = << >> => order[1] = i
      BY <2>4, <3>1
    <3>4. b.order # << >> => 1 \in 1 .. Len(b.order)
      BY <3>1
    <3>5. b.order # << >> => order[1] = b.order[1] /\ b.order[1] \in Utterance
      BY <2>4, <3>1, <3>4
    <3> QED  BY <3>1, <3>2, <3>3, <3>4, <3>5
  <2>7. /\ on.ignored = b.ignored /\ on.order = order /\ on.turns[i] = t
        /\ \A j \in Utterances : j # i => on.turns[j] = b.turns[j]
    BY <1>1, <2>5 DEF Buffers
  <2>8. i =< forgotten \/ i \in b.ignored
    BY <1>3, Typical DEF InPlace, Complete, Utterance
  <2>9. i \notin Stay(on)
    BY <2>7, <2>8, Typical DEF Stay, Utterance
  <2>10. \A j \in Stay(on) : j \in Stay(b) /\ on.turns[j] = b.turns[j]
    BY <2>7, <2>9 DEF Stay
  <2>11. Follows(on, b)
    BY <2>10 DEF Follows
  <2>12. FirstUnready(b) => FirstUnready(on)
    <3>1. CASE b.order = << >>
      BY <2>2, <2>6, <2>7, <3>1 DEF FirstUnready
    <3>2. CASE b.order # << >>
      <4>1. b.order[1] \in Utterances /\ b.turns[b.order[1]] # Nothing
        BY <2>6, <3>2, Typical DEF InPlace, Complete
      <4>2. on.turns[order[1]] = b.turns[b.order[1]]
        BY <1>3, <2>6, <2>7, <3>2, <4>1
      <4> QED  BY <2>7, <3>2, <4>2 DEF FirstUnready
    <3> QED  BY <3>1, <3>2
  <2> QED  BY <2>3, <2>11, <2>12
<1> QED  BY <1>2, <1>3

\* A turn changes, and still waits for no more than before.
LEMMA TurnFollows ==
  ASSUME VoiceTyped, NEW b \in Buffers, NEW i \in Utterances, NEW t \in Turn,
         b.turns[i] \in Turn,
         t.outcome = "none" => b.turns[i].outcome = "none",
         b.turns[i].transcribed => t.transcribed
  PROVE  Follows([b EXCEPT !.turns[i] = t], b)
<1>1. PICK c : c = [b EXCEPT !.turns[i] = t]
  OBVIOUS
<1>2. /\ c.ignored = b.ignored /\ c.turns[i] = t
      /\ \A j \in Utterances : j # i => c.turns[j] = b.turns[j]
  BY <1>1 DEF Buffers
<1>3. b.turns[i] # Nothing
  BY TurnAssumption
<1>4. Stay(c) \subseteq Stay(b)
  BY <1>2, <1>3 DEF Stay
<1>5. ASSUME NEW j \in Stay(c)
      PROVE  /\ c.turns[j].outcome = "none" => b.turns[j].outcome = "none"
             /\ b.turns[j].transcribed => c.turns[j].transcribed
  BY <1>2, <1>5, Zenon DEF Stay
<1> QED  BY <1>1, <1>4, <1>5 DEF Follows

LEMMA FollowsOn ==
  ASSUME NEW b, NEW c, NEW d, Follows(d, c), Follows(c, b)
  PROVE  Follows(d, b)
  BY DEF Follows

\* What leaves was ready, and the first of what stays is not.
LEMMA DrainedFollows ==
  ASSUME VoiceTyped, NEW b, NEW q, InPlace(b, q)
  PROVE  Follows(Drained(b), b) /\ FirstUnready(Drained(b))
<1>1. b \in Buffers /\ b.order \in Seq(Utterance) /\ Len(b.order) \in Nat
  BY DEF InPlace, Buffers
<1>2. PICK n \in 0 .. Len(b.order) :
        /\ Leaving(b) = SubSeq(b.order, 1, n)
        /\ \A k \in 1 .. n : IsReady(b.turns[b.order[k]])
        /\ n < Len(b.order) => ~IsReady(b.turns[b.order[n + 1]])
  BY <1>1, LeavingIs
<1>3. PICK leaving : leaving = Leaving(b)
  OBVIOUS
<1>4. /\ Len(leaving) = n /\ n \in Nat
      /\ \A k \in 1 .. n : leaving[k] = b.order[k] /\ b.order[k] \in Utterance
  BY <1>1, <1>2, <1>3
<1>5. PICK gone : gone = { b.order[k] : k \in 1 .. n }
  OBVIOUS
<1>6. Range(leaving) = gone
  BY <1>4, <1>5 DEF Range
<1> DEFINE left == { k \in 1 .. Len(b.order) : b.order[k] \notin gone }
<1>7. PICK order : order = Selected(b.order, left)
  OBVIOUS
<1>8. PICK d : d = Drained(b)
  OBVIOUS
<1>9. d = [b EXCEPT !.turns = [i \in Utterances |-> IF i \in gone THEN Nothing ELSE @[i]],
                    !.order = order, !.ignored = @ \union gone]
  BY <1>3, <1>6, <1>7, <1>8 DEF Drained
<1>10. order \in Seq(Utterance) /\ \E h : Picks(h, order, b.order, left)
  BY <1>1, <1>7, SelectedIs, Zenon
<1>11. PICK h : Picks(h, order, b.order, left)
  BY <1>10
<1>12. /\ d.order = order /\ d.ignored = b.ignored \union gone
       /\ \A i \in Utterances : d.turns[i] = IF i \in gone THEN Nothing ELSE b.turns[i]
  BY <1>1, <1>9 DEF Buffers
<1>13. \A i \in Stay(d) : i \in Stay(b) /\ d.turns[i] = b.turns[i]
  BY <1>12 DEF Stay
<1>14. Follows(d, b)
  BY <1>13 DEF Follows
<1>15. FirstUnready(d)
  <2> SUFFICES ASSUME order # << >>
               PROVE  ~IsReady(d.turns[order[1]])
    BY <1>12 DEF FirstUnready
  <2>1. 1 \in 1 .. Len(order) /\ Len(order) \in Nat
    BY <1>10
  <2>2. h[1] \in 1 .. Len(b.order) /\ b.order[h[1]] \notin gone
    <3>1. h[1] \in left
      BY <1>11, <2>1 DEF Picks
    <3> QED  BY <3>1
  <2>3. order[1] = b.order[h[1]]
    BY <1>11, <2>1 DEF Picks
  <2>4. h[1] \notin 1 .. n
    BY <1>5, <2>2
  <2>5. n + 1 \in 1 .. Len(b.order) /\ n < Len(b.order) /\ n + 1 =< h[1]
    BY <1>1, <1>4, <2>2, <2>4
  <2>6. ~IsReady(b.turns[b.order[n + 1]])
    BY <1>2, <2>5
  <2>7. b.order[n + 1] \notin gone
    BY <1>2, <1>5, <2>6
  <2>8. PICK k \in 1 .. Len(order) : h[k] = n + 1
    <3>1. n + 1 \in left
      BY <2>5, <2>7
    <3> HIDE DEF left
    <3> QED  BY <1>11, <2>5, <3>1 DEF Picks
  <2>9. k = 1 \/ h[1] < h[k]
    BY <1>11, <2>1, <2>8 DEF Picks
  <2>10. h[1] = n + 1
    BY <1>4, <2>2, <2>5, <2>8, <2>9
  <2>11. order[1] \in Utterances /\ order[1] \notin gone
    BY <1>1, <2>2, <2>3, Typical
  <2> QED  BY <1>12, <2>3, <2>6, <2>10, <2>11
<1> QED  BY <1>8, <1>14, <1>15

LEMMA TurnStaysUnready ==
  ASSUME VoiceTyped, NEW b \in Buffers, NEW i \in Utterances, NEW t \in Turn,
         b.turns[i] \in Turn, IsReady(t) => IsReady(b.turns[i]), FirstUnready(b)
  PROVE  FirstUnready([b EXCEPT !.turns[i] = t])
<1>1. PICK c : c = [b EXCEPT !.turns[i] = t]
  OBVIOUS
<1>2. /\ c.order = b.order /\ c.turns[i] = t
      /\ \A j \in Utterances : j # i => c.turns[j] = b.turns[j]
  BY <1>1 DEF Buffers
<1>3. b.order # << >> => b.order[1] \in Utterances
  <2>1. b.order \in Seq(Utterance)
    BY DEF Buffers
  <2>2. b.order # << >> => b.order[1] \in Utterance
    BY <2>1
  <2> QED  BY <2>2, Typical
<1>4. FirstUnready(c)
  <2> SUFFICES ASSUME b.order # << >>  PROVE ~IsReady(c.turns[b.order[1]])
    BY <1>2 DEF FirstUnready
  <2>1. ~IsReady(b.turns[b.order[1]])
    BY DEF FirstUnready
  <2>2. CASE b.order[1] = i
    BY <1>2, <2>1, <2>2
  <2>3. CASE b.order[1] # i
    BY <1>2, <1>3, <2>1, <2>3
  <2> QED  BY <2>2, <2>3
<1> QED  BY <1>1, <1>4

LEMMA ReservedFollows ==
  ASSUME VoiceTyped, NEW b, NEW q, InPlace(b, q), NEW u \in 0 .. spoken, FirstUnready(b)
  PROVE  Follows(Reserved(b, u), b) /\ FirstUnready(Reserved(b, u))
<1>1. PICK i : i = IF u = 0 THEN b.current ELSE u
  OBVIOUS
<1>2. CASE i = 0
  <2>1. Reserved(b, u) = b
    BY <1>1, <1>2 DEF Reserved
  <2> QED  BY <2>1 DEF Follows
<1>3. CASE i # 0
  <2>1. i \in Utterance /\ i \in Utterances
    BY <1>1, <1>3, Typical DEF InPlace, Buffers, Utterance
  <2>2. PICK on : on = Ensured(b, i)
    OBVIOUS
  <2>3. InPlace(on, q) /\ on.turns[i] \in Turn /\ on \in Buffers
    BY <2>1, <2>2, EnsuredInPlace DEF InPlace
  <2>4. Follows(on, b) /\ FirstUnready(on)
    BY <2>1, <2>2, EnsuredFollows
  <2>5. PICK t : t = on.turns[i]
    OBVIOUS
  <2>6. PICK taken, noted : /\ taken = [t EXCEPT !.available = FALSE, !.thought = FALSE]
                           /\ noted = [t EXCEPT !.suppress = @ + 1]
    OBVIOUS
  <2>7. t \in Turn
    BY <2>3, <2>5
  <2>8. taken \in Turn /\ noted \in Turn
    <3>1. taken \in Turn
      BY <2>6, <2>7 DEF Turn
    <3>2. noted \in Turn
      BY <2>6, <2>7 DEF Turn
    <3> QED  BY <3>1, <3>2
  <2>9. taken.outcome = t.outcome /\ taken.transcribed = t.transcribed
    BY <2>6, <2>7 DEF Turn
  <2>10. noted.outcome = t.outcome /\ noted.transcribed = t.transcribed
    BY <2>6, <2>7 DEF Turn
  <2>11. PICK s \in {taken, noted} : Reserved(b, u) = [on EXCEPT !.turns[i] = s]
    <3>1. Reserved(b, u) = IF t.available THEN [on EXCEPT !.turns[i] = taken]
                                          ELSE [on EXCEPT !.turns[i] = noted]
      BY <1>1, <1>3, <2>1, <2>2, <2>3, <2>5, <2>6, ZenonT(40) DEF Reserved, Buffers
    <3> QED  BY <3>1
  <2>12. s \in Turn /\ s.outcome = t.outcome /\ s.transcribed = t.transcribed
    BY <2>8, <2>9, <2>10, <2>11
  <2>13. IsReady(s) => IsReady(on.turns[i])
    BY <2>5, <2>12 DEF IsReady
  <2>14. Follows([on EXCEPT !.turns[i] = s], on)
    BY <2>1, <2>3, <2>5, <2>12, TurnFollows
  <2>15. FirstUnready([on EXCEPT !.turns[i] = s])
    BY <2>1, <2>3, <2>4, <2>12, <2>13, TurnStaysUnready
  <2> QED  BY <2>4, <2>11, <2>14, <2>15, FollowsOn
<1> QED  BY <1>2, <1>3

LEMMA ChangeFollows ==
  ASSUME DictationInv, NEW i \in Utterance, NEW t \in Turn, Becomes(i, t)
  PROVE  /\ Follows(buffer', buffer) /\ FirstUnready(buffer')
         /\ i \in Stay(buffer') => /\ buffer'.turns[i].outcome = "none" => t.outcome = "none"
                                   /\ t.transcribed => buffer'.turns[i].transcribed
<1>1. VoiceTyped /\ InPlace(buffer, appends) /\ i \in Utterances
  BY Typical DEF DictationInv
<1>2. PICK on : on = Ensured(buffer, i)
  OBVIOUS
<1>3. /\ InPlace(on, appends) /\ on.turns[i] \in Turn /\ on.ignored = buffer.ignored
      /\ on \in Buffers
  BY <1>1, <1>2, EnsuredInPlace DEF InPlace
<1>4. Follows(on, buffer)
  BY <1>1, <1>2, EnsuredFollows
<1>5. PICK u : u = on.turns[i]
  OBVIOUS
<1>6. /\ t.capturing \/ t.thought => u.capturing \/ u.thought
      /\ t.thought => u.thought \/ i \in transcribing
      /\ t.outcome = "none" => u.outcome = "none"
      /\ u.transcribed => t.transcribed
      /\ i \in buffer.ignored => t.outcome = "none"
  BY <1>2, <1>5 DEF Becomes
<1>7. PICK c : c = [on EXCEPT !.turns[i] = t]
  OBVIOUS
<1>8. InPlace(c, appends)
  BY <1>1, <1>3, <1>5, <1>6, <1>7, TurnInPlace
<1>9. Follows(c, on)
  BY <1>1, <1>3, <1>5, <1>6, <1>7, TurnFollows
<1>10. Follows(Drained(c), c) /\ FirstUnready(Drained(c))
  BY <1>1, <1>8, DrainedFollows
<1>11. buffer' = Drained(c)
  BY <1>2, <1>7 DEF Becomes, Drain
<1>12. Follows(Drained(c), buffer)
  BY <1>4, <1>9, <1>10, FollowsOn
<1>13. c.turns[i] = t
  BY <1>1, <1>3, <1>7 DEF Buffers
<1>14. i \in Stay(Drained(c)) =>
         /\ Drained(c).turns[i].outcome = "none" => t.outcome = "none"
         /\ t.transcribed => Drained(c).turns[i].transcribed
  BY <1>10, <1>13 DEF Follows
<1> QED  BY <1>10, <1>11, <1>12, <1>14

LEMMA SettleFollows ==
  ASSUME DictationInv, FirstUnready(buffer),
         NEW i \in 0 .. spoken, NEW outcome \in {"completed", "interrupted"},
         Settle(i, outcome)
  PROVE  /\ Follows(buffer', buffer) /\ FirstUnready(buffer')
         /\ i \in Stay(buffer') => buffer'.turns[i].outcome # "none"
<1>1. CASE i = 0 \/ i \in buffer.ignored
  <2>1. buffer' = buffer
    BY <1>1 DEF Settle, buffering
  <2>2. i \notin Stay(buffer)
    BY <1>1 DEF Stay, Utterances
  <2> QED  BY <2>1, <2>2 DEF Follows
<1>2. CASE i # 0 /\ i \notin buffer.ignored
  <2>1. i \in Utterance
    BY <1>2, Typical DEF DictationInv, Utterance
  <2>2. PICK t \in Turn : Becomes(i, t) /\ t.outcome = outcome
    BY <1>2, <2>1, SettleBecomes
  <2>3. t.outcome # "none"
    BY <2>2
  <2> QED  BY <2>1, <2>2, <2>3, ChangeFollows
<1> QED  BY <1>1, <1>2

LEMMA HeardFollows ==
  ASSUME DictationInv, FirstUnready(buffer),
         NEW i \in Utterance, NEW boundary \in BOOLEAN,
         i \in transcribing, Heard(i, boundary)
  PROVE  /\ Follows(buffer', buffer) /\ FirstUnready(buffer')
         /\ i \in Stay(buffer') => buffer'.turns[i].transcribed
<1>1. CASE i \in buffer.ignored
  <2>1. buffer' = buffer
    BY <1>1 DEF Heard, buffering
  <2>2. i \notin Stay(buffer)
    BY <1>1 DEF Stay
  <2> QED  BY <2>1, <2>2 DEF Follows
<1>2. CASE i \notin buffer.ignored
  <2>1. PICK t \in Turn : Becomes(i, t) /\ t.transcribed
    BY <1>2, HeardBecomes
  <2> QED  BY <2>1, ChangeFollows
<1> QED  BY <1>1, <1>2

-----------------------------------------------------------------------------
(* The steps.                                                              *)

\* What is owed to the steps that neither begin nor answer anything.
LEMMA OwedSame ==
  ASSUME Owed, UNCHANGED <<spoken, followups, asked, unanswered, settled, pending, bound>>,
         transcribing' \subseteq transcribing, response' # Nothing \/ response' = response
  PROVE  Owed'
<1>1. Utterance' = Utterance
  BY DEF Utterance
<1>2. \A i \in transcribing' : Associated(i)'
  BY DEF Owed, Associated
<1> QED  BY <1>1, <1>2 DEF Owed

\* A call that returns asks for one more response, and counts it.
LEMMA AnswersOwed ==
  ASSUME Owed, VoiceTyped, NEW call, Answers(call),
         UNCHANGED <<spoken, unanswered, settled, pending, bound, transcribing, response>>
  PROVE  Owed'
<1>1. Utterance' = Utterance
  BY DEF Utterance
<1>2. \A i \in transcribing' : Associated(i)'
  BY DEF Owed, Associated
<1>3. Len(pending) \in Nat /\ Len(unanswered) \in Nat
  BY DEF Owed, VoiceTyped
<1>4. /\ followups' \in Nat /\ asked' \in Nat
      /\ Len(pending) + followups' = Len(unanswered) + asked'
  BY <1>3 DEF Owed, Answers
<1> QED  BY <1>1, <1>2, <1>4 DEF Owed

\* The response under way stays one.
Continuing == response' # Nothing \/ response' = response

LEMMA WaitsOn ==
  ASSUME WaitsInv, Owed', UNCHANGED <<voiceLimit, forgotten>>,
         Follows(buffer', buffer), FirstUnready(buffer'),
         \A i \in Stay(buffer') :
           /\ buffer'.turns[i].outcome = "none" /\ OnItsWay(i) => OnItsWay(i)'
           /\ i \in transcribing \union silent =>
                buffer'.turns[i].transcribed \/ i \in transcribing' \union silent'
  PROVE  WaitsInv'
<1>1. Stay(buffer)' = Stay(buffer')
  BY DEF Stay, Utterances
<1>2. ASSUME NEW i \in Stay(buffer')
      PROVE  /\ buffer'.turns[i].outcome = "none" => OnItsWay(i)'
             /\ buffer'.turns[i].transcribed \/ i \in transcribing' \union silent'
  <2>1. /\ i \in Stay(buffer)
        /\ buffer'.turns[i].outcome = "none" => buffer.turns[i].outcome = "none"
        /\ buffer.turns[i].transcribed => buffer'.turns[i].transcribed
    BY <1>2 DEF Follows
  <2>2. /\ buffer.turns[i].outcome = "none" => OnItsWay(i)
        /\ buffer.turns[i].transcribed \/ i \in transcribing \union silent
    BY <2>1 DEF WaitsInv, HeldBack
  <2> QED  BY <1>2, <2>1, <2>2
<1>3. HeldBack(buffer)'
  BY <1>1, <1>2 DEF HeldBack
<1>4. FirstUnready(buffer)'
  BY DEF FirstUnready, IsReady
<1> QED  BY <1>3, <1>4 DEF WaitsInv

LEMMA WaitsAside ==
  ASSUME WaitsInv, Owed', Continuing,
         UNCHANGED <<voiceLimit, forgotten, buffer, pending, bound, settling, transcribing, silent>>
  PROVE  WaitsInv'
<1>1. \A i : OnItsWay(i) => OnItsWay(i)'
  BY DEF OnItsWay, Continuing
<1>2. Follows(buffer', buffer)
  BY DEF Follows
<1>3. FirstUnready(buffer')
  BY DEF WaitsInv
<1> QED  BY <1>1, <1>2, <1>3, WaitsOn

\* The steps that leave the speech and its responses alone.
LEMMA WaitsQuietly ==
  ASSUME WaitsInv,
         UNCHANGED <<association, responding, settling, buffer, speech, silent, forgotten, voiceLimit>>
  PROVE  WaitsInv'
<1>1. UNCHANGED <<pending, bound, settled, followups, unanswered, response, asked, spoken,
                  transcribing>>
  BY DEF association, responding, speech
<1>2. Owed' /\ Continuing
  BY <1>1, OwedSame DEF WaitsInv, Continuing
<1> QED  BY <1>1, <1>2, WaitsAside

\* The steps in which a call returns.
LEMMA WaitsAnswered ==
  ASSUME DictationInv, WaitsInv, NEW call, Answers(call),
         UNCHANGED <<pending, bound, settled, unanswered, response, settling, buffer, speech,
                     silent, forgotten, voiceLimit>>
  PROVE  WaitsInv'
<1>1. UNCHANGED <<spoken, transcribing>>
  BY DEF speech
<1>2. Owed'
  BY <1>1, AnswersOwed DEF DictationInv, WaitsInv
<1> QED  BY <1>1, <1>2, WaitsAside DEF Continuing

LEMMA FunctionCalledWaits ==
  ASSUME DictationInv, WaitsInv, NEW tool, FunctionCalled(tool)
  PROVE  WaitsInv'
<1>1. /\ response # Nothing /\ response' = [response EXCEPT !.calls = TRUE]
      /\ UNCHANGED <<association, settling, buffering, speech, unanswered, asked, notes, voiceBounds>>
  BY DEF FunctionCalled
<1>2. UNCHANGED <<pending, bound, settled, followups, unanswered, asked, settling, buffer, spoken,
                  transcribing, silent, forgotten, voiceLimit>>
  BY <1>1 DEF association, buffering, speech, notes, voiceBounds
<1>3. response' # Nothing
  <2>1. response \in [ id : Nat, calls : BOOLEAN ]
    BY <1>1 DEF DictationInv, VoiceTyped
  <2>2. response' \in [ id : Nat, calls : BOOLEAN ]
    BY <1>1, <2>1
  <2> QED  BY <2>2, TurnAssumption
<1>4. Owed'
  BY <1>2, <1>3, OwedSame DEF WaitsInv
<1> QED  BY <1>2, <1>3, <1>4, WaitsAside DEF Continuing

LEMMA CapabilityAnswersWaits ==
  ASSUME DictationInv, WaitsInv, NEW k \in 1 .. Len(calls), CapabilityAnswers(calls[k])
  PROVE  WaitsInv'
<1>1. PICK call : call = calls[k]
  OBVIOUS
<1>2. call.utterance \in 0 .. spoken
  <2>1. calls \in Seq(Call)
    BY DEF DictationInv, VoiceTyped
  <2>2. call \in Call
    BY <1>1, <2>1
  <2> QED  BY <2>2 DEF Call
<1>3. UNCHANGED <<pending, bound, settled, unanswered, response, settling, speech, notes, voiceBounds>>
  BY DEF CapabilityAnswers
<1>4. UNCHANGED <<spoken, transcribing, silent, forgotten, voiceLimit>>
  BY <1>3 DEF speech, notes, voiceBounds
<1>5. CASE Returns(call) /\ UNCHANGED buffering
  BY <1>3, <1>4, <1>5, WaitsAnswered DEF Returns, buffering
<1>6. CASE Intent(call, Len(cards'))
  <2>1. buffer' = Reserved(buffer, call.utterance) /\ UNCHANGED <<followups, asked>>
    BY <1>6 DEF Intent
  <2>2. Follows(buffer', buffer) /\ FirstUnready(buffer')
    <3>1. VoiceTyped /\ InPlace(buffer, appends) /\ FirstUnready(buffer)
      BY DEF DictationInv, WaitsInv
    <3> QED  BY <1>2, <2>1, <3>1, ReservedFollows
  <2>3. Owed'
    BY <1>3, <1>4, <2>1, OwedSame DEF WaitsInv
  <2>4. \A i : OnItsWay(i) => OnItsWay(i)'
    BY <1>3 DEF OnItsWay
  <2> QED  BY <1>4, <2>2, <2>3, <2>4, WaitsOn
<1> QED  BY <1>1, <1>5, <1>6 DEF CapabilityAnswers

\* The response that begins is one of those owed, and binds the first that is
\* pending or counts a follow-up off.
LEMMA ResponseCreatedWaits ==
  ASSUME DictationInv, WaitsInv, ResponseCreated
  PROVE  WaitsInv'
<1>1. /\ response = Nothing
      /\ \/ unanswered # << >> /\ unanswered' = Tail(unanswered) /\ asked' = asked
         \/ asked > 0 /\ asked' = asked - 1 /\ unanswered' = unanswered
      /\ response' = [id |-> responses + 1, calls |-> FALSE]
  BY DEF ResponseCreated
<1>2. \/ followups > 0 /\ followups' = followups - 1 /\ bound' = 0 /\ pending' = pending
      \/ /\ ~ followups > 0 /\ followups' = followups
         /\ bound' = IF pending = << >> THEN 0 ELSE Head(pending)
         /\ pending' = IF pending = << >> THEN pending ELSE Tail(pending)
  BY DEF ResponseCreated
<1>3. UNCHANGED <<settled, settling, buffer, spoken, transcribing, silent, forgotten, voiceLimit>>
  BY DEF ResponseCreated, tools, buffering, speech, notes, voiceBounds
<1>4. /\ pending \in Seq(Utterance) /\ Len(pending) \in Nat /\ responses \in Nat
      /\ Owed /\ unanswered \in Seq(Nat) /\ Len(unanswered) \in Nat
      /\ followups \in Nat /\ asked \in Nat
      /\ Len(pending) + followups = Len(unanswered) + asked
  BY DEF DictationInv, VoiceTyped, WaitsInv, Owed
<1>5. response' # Nothing
  <2>1. response' \in [ id : Nat, calls : BOOLEAN ]
    BY <1>1, <1>4
  <2> QED  BY <2>1, TurnAssumption
<1>6. /\ asked' \in Nat /\ unanswered' \in Seq(Nat) /\ Len(unanswered') \in Nat
      /\ Len(unanswered') + asked' = Len(unanswered) + asked - 1
  <2>1. CASE unanswered # << >> /\ unanswered' = Tail(unanswered) /\ asked' = asked
    <3>1. unanswered' \in Seq(Nat) /\ Len(unanswered') = Len(unanswered) - 1 /\ Len(unanswered) # 0
      BY <1>4, <2>1
    <3> QED  BY <1>4, <2>1, <3>1
  <2>2. CASE asked > 0 /\ asked' = asked - 1 /\ unanswered' = unanswered
    BY <1>4, <2>2
  <2> QED  BY <1>1, <2>1, <2>2
<1>7. \/ followups > 0 /\ followups' = followups - 1 /\ pending' = pending
      \/ /\ followups' = followups /\ pending # << >> /\ pending' = Tail(pending)
         /\ bound' = Head(pending)
  <2>1. CASE ~ followups > 0 /\ pending = << >>
    <3>1. Len(pending) = 0
      BY <2>1
    <3> QED  BY <1>4, <1>6, <2>1, <3>1
  <2> QED  BY <1>2, <2>1
<1>8. /\ followups' \in Nat /\ Len(pending') \in Nat
      /\ Len(pending') + followups' = Len(pending) + followups - 1
  <2>1. CASE followups > 0 /\ followups' = followups - 1 /\ pending' = pending
    BY <1>4, <2>1
  <2>2. CASE followups' = followups /\ pending # << >> /\ pending' = Tail(pending)
    <3>1. Len(pending') = Len(pending) - 1 /\ Len(pending) # 0
      BY <1>4, <2>2
    <3> QED  BY <1>4, <2>2, <3>1
  <2> QED  BY <1>7, <2>1, <2>2
<1>9. \A i \in Range(pending) : i \in Range(pending)' \/ bound' = i
  <2>1. CASE pending' = pending
    BY <2>1
  <2>2. CASE pending # << >> /\ pending' = Tail(pending) /\ bound' = Head(pending)
    <3> SUFFICES ASSUME NEW n \in 1 .. Len(pending), pending[n] # bound'
                 PROVE  pending[n] \in Range(pending')
      <4>1. Range(pending) = { pending[n] : n \in 1 .. Len(pending) }
        BY <1>4 DEF Range
      <4> QED  BY <4>1
    <3>1. /\ Len(pending') = Len(pending) - 1 /\ bound' = pending[1]
          /\ \A m \in 1 .. Len(pending') : pending'[m] = pending[m + 1]
      BY <1>4, <2>2
    <3>2. n # 1
      BY <3>1
    <3>3. n - 1 \in 1 .. Len(pending') /\ (n - 1) + 1 = n
      BY <1>4, <3>1, <3>2
    <3>4. pending'[n - 1] = pending[n] /\ n - 1 \in DOMAIN pending'
      BY <1>4, <2>2, <3>1, <3>3
    <3> QED  BY <3>4 DEF Range
  <2> QED  BY <1>7, <2>1, <2>2
<1>10. \A i : OnItsWay(i) => OnItsWay(i)'
  BY <1>1, <1>3, <1>5, <1>9 DEF OnItsWay
<1>11. Owed'
  <2>1. Utterance' = Utterance
    BY <1>3 DEF Utterance
  <2>2. ASSUME NEW i \in transcribing  PROVE Associated(i)'
    <3>1. Associated(i)
      BY <1>4, <2>2 DEF Owed
    <3>2. i \in Range(pending) \/ i \in settled
      BY <1>1, <3>1 DEF Associated
    <3>3. CASE i \in settled
      BY <1>3, <3>3 DEF Associated
    <3>4. CASE i \in Range(pending)
      <4>1. i \in Range(pending)' \/ bound' = i
        BY <1>9, <3>4
      <4> QED  BY <1>5, <4>1 DEF Associated
    <3> QED  BY <3>2, <3>3, <3>4
  <2>3. Len(pending') + followups' = Len(unanswered') + asked'
    <3>1. Len(pending) + followups - 1 = Len(unanswered) + asked - 1
      BY <1>4
    <3> QED  BY <1>6, <1>8, <3>1, Zenon
  <2>4. settled' \subseteq Utterance' /\ transcribing' = transcribing
    BY <1>3, <1>4, <2>1 DEF Owed
  <2> QED  BY <1>6, <1>8, <2>2, <2>3, <2>4 DEF Owed
<1>12. Follows(buffer', buffer) /\ FirstUnready(buffer')
  BY <1>3 DEF Follows, WaitsInv
<1> QED  BY <1>3, <1>10, <1>11, <1>12, WaitsOn

\* A response that is settled: its turn has an outcome.
LEMMA SettleWaits ==
  ASSUME DictationInv, WaitsInv, Owed', UNCHANGED <<voiceLimit, forgotten>>,
         NEW i \in 0 .. spoken, NEW outcome \in {"completed", "interrupted"},
         Settle(i, outcome),
         \A j \in Utterances : j # i /\ OnItsWay(j) => OnItsWay(j)',
         UNCHANGED <<transcribing, silent>>
  PROVE  WaitsInv'
<1>1. /\ Follows(buffer', buffer) /\ FirstUnready(buffer')
      /\ i \in Stay(buffer') => buffer'.turns[i].outcome # "none"
  BY SettleFollows DEF WaitsInv
<1>2. \A j \in Stay(buffer') : j \in Utterances
  BY DEF Stay
<1> QED  BY <1>1, <1>2, WaitsOn

LEMMA ResponseDoneWaits ==
  ASSUME DictationInv, WaitsInv, NEW outcome \in {"completed", "interrupted"}, ResponseDone(outcome)
  PROVE  WaitsInv'
<1>1. PICK s : s = [ call |-> response.id, utterance |-> bound, outcome |-> outcome ]
  OBVIOUS
<1>2. /\ response # Nothing /\ response' = Nothing /\ bound' = 0
      /\ settled' = settled \union ({bound} \ {0})
      /\ UNCHANGED <<pending, followups, spoken, transcribing, unanswered, asked, notes, voiceBounds>>
      /\ \/ settling' = settling \union {s} /\ UNCHANGED buffering
         \/ UNCHANGED settling /\ Settle(bound, outcome)
  BY <1>1 DEF ResponseDone
<1>3. UNCHANGED <<silent, forgotten, voiceLimit>>
  BY <1>2 DEF notes, voiceBounds
<1>4. bound \in 0 .. spoken /\ transcribing \subseteq Utterance
  BY DEF DictationInv, VoiceTyped
<1>5. Owed'
  <2>1. Utterance' = Utterance /\ {bound} \ {0} \subseteq Utterance
    BY <1>2, <1>4 DEF Utterance
  <2>2. \A i \in transcribing' : Associated(i)'
    <3> SUFFICES ASSUME NEW i \in transcribing  PROVE Associated(i)'
      BY <1>2
    <3>1. i # 0 /\ Associated(i)
      BY <1>4 DEF WaitsInv, Owed, Utterance
    <3> QED  BY <1>2, <3>1 DEF Associated
  <2> QED  BY <1>2, <2>1, <2>2 DEF WaitsInv, Owed
<1>6. CASE settling' = settling \union {s} /\ UNCHANGED buffering
  <2>1. \A i : OnItsWay(i) => OnItsWay(i)'
    BY <1>1, <1>2, <1>6 DEF OnItsWay
  <2>2. Follows(buffer', buffer) /\ FirstUnready(buffer')
    BY <1>6 DEF Follows, WaitsInv, buffering
  <2> QED  BY <1>2, <1>3, <1>5, <2>1, <2>2, WaitsOn
<1>7. CASE UNCHANGED settling /\ Settle(bound, outcome)
  <2>1. \A i \in Utterances : i # bound /\ OnItsWay(i) => OnItsWay(i)'
    BY <1>2, <1>7 DEF OnItsWay
  <2> QED  BY <1>2, <1>3, <1>4, <1>5, <1>7, <2>1, SettleWaits
<1> QED  BY <1>2, <1>6, <1>7

LEMMA SettleLaterWaits ==
  ASSUME DictationInv, WaitsInv, SettleLater
  PROVE  WaitsInv'
<1>1. PICK s \in settling : settling' = settling \ {s} /\ Settle(s.utterance, s.outcome)
  BY DEF SettleLater
<1>2. UNCHANGED <<association, speech, responding, notes, voiceBounds>>
  BY DEF SettleLater
<1>3. UNCHANGED <<pending, bound, settled, followups, spoken, transcribing, unanswered, response,
                  asked, silent, forgotten, voiceLimit>>
  BY <1>2 DEF association, speech, responding, notes, voiceBounds
<1>4. s.utterance \in 0 .. spoken /\ s.outcome \in {"completed", "interrupted"}
  BY DEF DictationInv, VoiceTyped
<1>5. Owed'
  BY <1>3, OwedSame DEF WaitsInv
<1>6. \A i \in Utterances : i # s.utterance /\ OnItsWay(i) => OnItsWay(i)'
  BY <1>1, <1>3 DEF OnItsWay
<1> QED  BY <1>1, <1>3, <1>4, <1>5, <1>6, SettleWaits

\* Each utterance whose transcript comes is pending, bound or settled already.
LEMMA TranscriptRemembered ==
  ASSUME WaitsInv, NEW i \in transcribing
  PROVE  Remembered(i) = pending
  BY DEF WaitsInv, Owed, Associated, Remembered

LEMMA TranscribedWaits ==
  ASSUME DictationInv, WaitsInv, NEW i \in Utterances, NEW boundary \in BOOLEAN,
         Transcribed(i, boundary)
  PROVE  WaitsInv'
<1>1. /\ i \in transcribing /\ transcribing' = transcribing \ {i} /\ pending' = Remembered(i)
      /\ Heard(i, boundary)
      /\ UNCHANGED <<bound, settled, followups, tools, spoken, responding, notes, voiceBounds>>
  BY DEF Transcribed
<1>2. UNCHANGED <<pending, settling, response, unanswered, asked, silent, forgotten, voiceLimit>>
  BY <1>1, TranscriptRemembered DEF tools, responding, notes, voiceBounds
<1>3. i \in Utterance
  BY <1>1 DEF DictationInv, VoiceTyped
<1>4. Owed'
  BY <1>1, <1>2, OwedSame DEF WaitsInv
<1>5. /\ Follows(buffer', buffer) /\ FirstUnready(buffer')
      /\ i \in Stay(buffer') => buffer'.turns[i].transcribed
  BY <1>1, <1>3, HeardFollows DEF WaitsInv
<1>6. \A j : OnItsWay(j) => OnItsWay(j)'
  BY <1>1, <1>2 DEF OnItsWay
<1>7. \A j \in Stay(buffer') : j \in transcribing \union silent =>
        buffer'.turns[j].transcribed \/ j \in transcribing' \union silent'
  BY <1>1, <1>2, <1>5
<1> QED  BY <1>2, <1>4, <1>5, <1>6, <1>7, WaitsOn

LEMMA TranscribedEmptyWaits ==
  ASSUME DictationInv, WaitsInv, NEW i \in Utterances, TranscribedEmpty(i)
  PROVE  WaitsInv'
<1>1. /\ i \in transcribing /\ transcribing' = transcribing \ {i} /\ pending' = Remembered(i)
      /\ silent' = silent \union {i}
      /\ UNCHANGED <<bound, settled, followups, tools, buffering, spoken, responding, forgotten,
                     voiceLimit>>
  BY DEF TranscribedEmpty
<1>2. UNCHANGED <<pending, settling, response, unanswered, asked, buffer>>
  BY <1>1, TranscriptRemembered DEF tools, responding, buffering
<1>3. Owed'
  BY <1>1, <1>2, OwedSame DEF WaitsInv
<1>4. Follows(buffer', buffer) /\ FirstUnready(buffer')
  BY <1>2 DEF Follows, WaitsInv
<1>5. \A j : OnItsWay(j) => OnItsWay(j)'
  BY <1>1, <1>2 DEF OnItsWay
<1>6. transcribing \union silent \subseteq transcribing' \union silent'
  BY <1>1
<1> QED  BY <1>1, <1>3, <1>4, <1>5, <1>6, WaitsOn

\* An utterance begins: it is pending, and the service owes its response and its
\* transcript.
LEMMA SpeechStartsWaits ==
  ASSUME DictationInv, WaitsInv, SpeechStarts
  PROVE  WaitsInv'
<1>1. PICK i : i = spoken + 1
  OBVIOUS
<1>2. /\ spoken < voiceLimit.utterances /\ spoken' = i
      /\ transcribing' = transcribing \union {i} /\ pending' = Remembered(i)
      /\ unanswered' = Append(unanswered, i)
      /\ buffer' = [Ensured(buffer, i) EXCEPT !.current = i]
      /\ UNCHANGED <<bound, settled, followups, settling, response, asked, silent, forgotten,
                     voiceLimit>>
  BY <1>1 DEF SpeechStarts, tools, voiceBounds
<1>3. /\ VoiceTyped /\ InPlace(buffer, appends) /\ Owed
      /\ pending \in Seq(Utterance) /\ bound \in 0 .. spoken
      /\ followups \in Nat /\ asked \in Nat /\ unanswered \in Seq(Nat)
      /\ settled \subseteq Utterance
      /\ Len(pending) + followups = Len(unanswered) + asked
  BY DEF DictationInv, VoiceTyped, WaitsInv, Owed
<1>4. /\ spoken \in Nat /\ forgotten \in 0 .. spoken /\ i \in Nat
      /\ i \in Utterances /\ i \notin Utterance /\ i # bound
  <2>1. spoken \in Nat /\ forgotten \in 0 .. spoken /\ voiceLimit.utterances \in Nat
    BY <1>3, Typical DEF VoiceTyped
  <2>2. i \in Nat /\ i \in 1 .. voiceLimit.utterances /\ i \notin 1 .. spoken /\ i # bound
    BY <1>1, <1>2, <1>3, <2>1
  <2> QED  BY <2>1, <2>2 DEF Utterances, Utterance
<1>5. Utterance \subseteq Utterance' /\ Utterances' = Utterances
  BY <1>1, <1>2, <1>4, SpokenMore
<1>6. PICK later : later = Append(pending, i)
  OBVIOUS
<1>7. Range(pending) = { pending[n] : n \in 1 .. Len(pending) }
  BY <1>3 DEF Range
<1>8. pending' = later
  <2>1. i \notin Range(pending)
    BY <1>3, <1>4, <1>7
  <2> QED  BY <1>2, <1>3, <1>4, <1>6, <2>1 DEF Remembered
<1>9. /\ Len(later) = Len(pending) + 1 /\ Len(pending) \in Nat
      /\ \A n \in 1 .. Len(pending) : later[n] = pending[n]
      /\ later[Len(pending) + 1] = i
  BY <1>3, <1>6
<1>10. Range(later) = Range(pending) \union {i}
  <2>1. later \in Seq(Nat)
    <3>1. Utterance \subseteq Nat
      BY <1>4 DEF Utterance
    <3>2. Seq(Utterance) \subseteq Seq(Nat)
      BY <3>1, WiderSequence
    <3>3. pending \in Seq(Nat)
      BY <1>3, <3>2
    <3> QED  BY <1>4, <1>6, <3>3
  <2>2. Range(later) = { later[n] : n \in 1 .. Len(later) }
    BY <2>1 DEF Range
  <2>3. 1 .. Len(later) = (1 .. Len(pending)) \union {Len(pending) + 1}
    BY <1>9
  <2> QED  BY <1>7, <1>9, <2>2, <2>3
<1>11. Owed'
  <2>1. unanswered' \in Seq(Nat) /\ Len(unanswered') = Len(unanswered) + 1 /\ Len(unanswered) \in Nat
    BY <1>2, <1>3, <1>4
  <2>2. Len(pending') + followups' = Len(unanswered') + asked'
    BY <1>2, <1>3, <1>8, <1>9, <2>1
  <2>3. \A j \in transcribing' : Associated(j)'
    <3> SUFFICES ASSUME NEW j \in transcribing'  PROVE Associated(j)'
      OBVIOUS
    <3>1. CASE j = i
      BY <1>8, <1>10, <3>1 DEF Associated
    <3>2. CASE j \in transcribing
      <4>1. Associated(j)
        BY <1>3, <3>2 DEF Owed
      <4> QED  BY <1>2, <1>8, <1>10, <4>1 DEF Associated
    <3> QED  BY <1>2, <3>1, <3>2
  <2>4. settled' \subseteq Utterance' /\ followups' \in Nat /\ asked' \in Nat
    BY <1>2, <1>3, <1>5
  <2> QED  BY <2>1, <2>2, <2>3, <2>4 DEF Owed
\* Its turn is new, and the last.
<1>12. /\ buffer \in Buffers /\ buffer.order \in Seq(Utterance) /\ Len(buffer.order) \in Nat
       /\ \A n \in 1 .. Len(buffer.order) : buffer.order[n] \in Utterance
  BY <1>3 DEF InPlace, Buffers
<1>13. buffer.turns[i] = Nothing
  BY <1>3, <1>4, <1>12 DEF InPlace, Complete
<1>14. PICK t, order : t = NewTurn /\ order = Append(buffer.order, i)
  OBVIOUS
<1>15. t # Nothing /\ t.outcome = "none" /\ ~IsReady(t)
  BY <1>3, <1>14, Typical DEF NewTurn, IsReady
<1>16. buffer' = [buffer EXCEPT !.turns[i] = t, !.order = order, !.current = i]
  BY <1>2, <1>12, <1>13, <1>14 DEF Ensured, Buffers
<1>17. /\ buffer'.order = order /\ buffer'.turns[i] = t /\ buffer'.ignored = buffer.ignored
       /\ \A j \in Utterances : j # i => buffer'.turns[j] = buffer.turns[j]
  BY <1>4, <1>12, <1>16 DEF Buffers
<1>18. \A j : OnItsWay(j) => OnItsWay(j)'
  BY <1>2, <1>8, <1>10 DEF OnItsWay
<1>19. OnItsWay(i)'
  BY <1>8, <1>10 DEF OnItsWay
<1>20. HeldBack(buffer)'
  <2> SUFFICES ASSUME NEW j \in Stay(buffer)'
               PROVE  /\ buffer'.turns[j].outcome = "none" => OnItsWay(j)'
                      /\ buffer'.turns[j].transcribed \/ j \in transcribing' \union silent'
    BY DEF HeldBack
  <2>1. CASE j = i
    BY <1>2, <1>19, <2>1
  <2>2. CASE j # i
    <3>1. j \in Stay(buffer) /\ buffer'.turns[j] = buffer.turns[j]
      BY <1>2, <1>5, <1>17, <2>2 DEF Stay
    <3>2. /\ buffer.turns[j].outcome = "none" => OnItsWay(j)
          /\ buffer.turns[j].transcribed \/ j \in transcribing \union silent
      BY <3>1 DEF WaitsInv, HeldBack
    <3> QED  BY <1>2, <1>18, <3>1, <3>2
  <2> QED  BY <2>1, <2>2
<1>21. FirstUnready(buffer)'
  <2>1. CASE buffer.order = << >>
    <3>1. order[1] = i
      BY <1>14, <2>1
    <3> QED  BY <1>15, <1>17, <3>1 DEF FirstUnready, IsReady
  <2>2. CASE buffer.order # << >>
    <3>1. 1 \in 1 .. Len(buffer.order)
      BY <1>12, <2>2
    <3>2. order[1] = buffer.order[1] /\ buffer.order[1] \in Utterance
      BY <1>12, <1>14, <3>1
    <3>3. buffer'.turns[order[1]] = buffer.turns[buffer.order[1]]
      BY <1>3, <1>4, <1>17, <3>2, Typical
    <3>4. ~IsReady(buffer.turns[buffer.order[1]])
      BY <2>2 DEF WaitsInv, FirstUnready
    <3> QED  BY <1>17, <3>3, <3>4 DEF FirstUnready, IsReady
  <2> QED  BY <2>1, <2>2
<1> QED  BY <1>11, <1>20, <1>21 DEF WaitsInv

\* Of the utterances before the buffer was emptied, nothing is promised.
LEMMA EmptiedWaits ==
  ASSUME DictationInv, VoiceTyped', forgotten' = spoken,
         UNCHANGED <<spoken, voiceLimit>>, Owed', buffer'.order = << >>,
         \A i \in Utterances : buffer'.turns[i] = Nothing
  PROVE  WaitsInv'
<1>1. Utterances' = Utterances
  BY DEF Utterances
<1>2. Stay(buffer)' = {}
  BY <1>1 DEF Stay
<1> QED  BY <1>2 DEF WaitsInv, HeldBack, FirstUnready

LEMMA StartVoiceWaits ==
  ASSUME DictationInv, WaitsInv, StartVoice
  PROVE  WaitsInv'
<1>1. /\ buffer' = EmptyBuffer /\ forgotten' = spoken
      /\ UNCHANGED <<association, speech, responding, voiceLimit>>
  BY DEF StartVoice, Reset, voiceBounds
<1>2. UNCHANGED <<pending, bound, settled, followups, spoken, transcribing, unanswered, response, asked>>
  BY <1>1 DEF association, speech, responding
<1>3. Owed'
  BY <1>2, OwedSame DEF WaitsInv
<1>4. VoiceTyped'
  BY StartVoiceStep DEF DictationInv
<1>5. buffer'.order = << >> /\ \A i \in Utterances : buffer'.turns[i] = Nothing
  BY <1>1, EmptyBufferTyped DEF DictationInv
<1> QED  BY <1>1, <1>2, <1>3, <1>4, <1>5, EmptiedWaits

LEMMA EndWaits ==
  ASSUME DictationInv, WaitsInv, Release, Reset
  PROVE  WaitsInv'
<1>1. /\ buffer' = EmptyBuffer /\ forgotten' = spoken
      /\ pending' = << >> /\ settled' = {} /\ followups' = 0
      /\ transcribing' = {} /\ unanswered' = << >> /\ asked' = 0
      /\ UNCHANGED <<spoken, voiceLimit>>
  BY DEF Release, Reset
<1>2. Owed'
  BY <1>1 DEF Owed
<1>3. VoiceTyped'
  BY EndStep DEF DictationInv
<1>4. buffer'.order = << >> /\ \A i \in Utterances : buffer'.turns[i] = Nothing
  BY <1>1, EmptyBufferTyped DEF DictationInv
<1> QED  BY <1>1, <1>2, <1>3, <1>4, EmptiedWaits

LEMMA CardRemovedWaits ==
  ASSUME DictationInv, WaitsInv, CardRemoved
  PROVE  WaitsInv'
<1>1. /\ buffer' = [EmptyBuffer EXCEPT !.ignored = buffer.ignored] /\ forgotten' = spoken
      /\ UNCHANGED <<association, speech, responding, voiceLimit>>
  BY DEF CardRemoved
<1>2. UNCHANGED <<pending, bound, settled, followups, spoken, transcribing, unanswered, response, asked>>
  BY <1>1 DEF association, speech, responding
<1>3. Owed'
  BY <1>2, OwedSame DEF WaitsInv
<1>4. VoiceTyped'
  BY CardRemovedStep DEF DictationInv
<1>5. buffer'.order = << >> /\ \A i \in Utterances : buffer'.turns[i] = Nothing
  BY <1>1, EmptyBufferTyped DEF DictationInv, EmptyBuffer
<1> QED  BY <1>1, <1>2, <1>3, <1>4, <1>5, EmptiedWaits

LEMMA WaitsBegins ==
  ASSUME VoiceInit
  PROVE  WaitsInv
<1>1. /\ pending = << >> /\ settled = {} /\ followups = 0 /\ transcribing = {}
      /\ unanswered = << >> /\ asked = 0
  BY DEF VoiceInit
<1>2. Owed
  BY <1>1 DEF Owed
<1>3. buffer.order = << >> /\ \A i \in Utterances : buffer.turns[i] = Nothing
  BY DEF VoiceInit, EmptyBuffer
<1> QED  BY <1>2, <1>3 DEF WaitsInv, HeldBack, FirstUnready, Stay

LEMMA WaitsStep ==
  ASSUME DictationInv, WaitsInv, [VoiceNext]_voiceVars
  PROVE  WaitsInv'
<1>1. CASE UNCHANGED voiceVars
  <2>1. UNCHANGED <<association, responding, settling, buffer, speech, silent, forgotten, voiceLimit>>
    BY <1>1 DEF voiceVars, association, tools, buffering, speech, responding, notes, voiceBounds
  <2> QED  BY <2>1, WaitsQuietly
<1>2. CASE IntentRuns
  <2>1. PICK call : call = Head(appends).call
    OBVIOUS
  <2>2. /\ Answers(call)
        /\ UNCHANGED <<pending, bound, settled, unanswered, response, settling, buffer, speech,
                       silent, forgotten, voiceBounds>>
    BY <1>2, <2>1 DEF IntentRuns, Returns, notes
  <2> QED  BY <2>2, WaitsAnswered DEF voiceBounds
<1>3. CASE SettleLater
  BY <1>3, SettleLaterWaits
<1>4. CASE \E k \in 1 .. Len(calls) : CallBegins(calls[k])
  <2>1. UNCHANGED <<association, responding, settling, buffering, speech, notes, voiceBounds>>
    BY <1>4 DEF CallBegins
  <2> QED  BY <2>1, WaitsQuietly DEF buffering, notes, voiceBounds
<1>5. CASE StartVoice
  BY <1>5, StartVoiceWaits
<1>6. CASE Acknowledged
  <2>1. UNCHANGED <<association, responding, tools, buffering, speech, notes, voiceBounds>>
    BY <1>6 DEF Acknowledged
  <2> QED  BY <2>1, WaitsQuietly DEF tools, buffering, notes, voiceBounds
<1>7. CASE StopVoice \/ SessionFails
  BY <1>7, EndWaits DEF StopVoice, SessionFails
<1>8. CASE SpeechStarts
  BY <1>8, SpeechStartsWaits
<1>9. CASE \E i \in Utterances, boundary \in BOOLEAN : Transcribed(i, boundary)
  BY <1>9, TranscribedWaits
<1>10. CASE \E i \in Utterances : TranscribedEmpty(i)
  BY <1>10, TranscribedEmptyWaits
<1>11. CASE ResponseCreated
  BY <1>11, ResponseCreatedWaits
<1>12. CASE \E tool \in {"start", "finish", "other"} : FunctionCalled(tool)
  BY <1>12, FunctionCalledWaits
<1>13. CASE \E outcome \in {"completed", "interrupted"} : ResponseDone(outcome)
  BY <1>13, ResponseDoneWaits
<1>14. CASE \E k \in 1 .. Len(calls) : CapabilityAnswers(calls[k]) \/ CapabilityRefused(calls[k])
  <2>1. PICK k \in 1 .. Len(calls) : CapabilityAnswers(calls[k]) \/ CapabilityRefused(calls[k])
    BY <1>14
  <2>2. CASE CapabilityAnswers(calls[k])
    BY <2>2, CapabilityAnswersWaits
  <2>3. CASE CapabilityRefused(calls[k])
    <3>1. PICK call : call = calls[k]
      OBVIOUS
    <3>2. /\ Answers(call)
          /\ UNCHANGED <<pending, bound, settled, unanswered, response, settling, buffering, speech,
                         notes, voiceLimit>>
      BY <2>3, <3>1 DEF CapabilityRefused, Returns
    <3> QED  BY <3>2, WaitsAnswered DEF buffering, notes
  <2> QED  BY <2>1, <2>2, <2>3
<1>15. CASE \E answer \in {"added", "refused", "aborted"} : AppendAnswered(answer)
  <2>1. UNCHANGED <<association, responding, tools, buffer, speech, notes, voiceLimit>>
    BY <1>15 DEF AppendAnswered
  <2> QED  BY <2>1, WaitsQuietly DEF tools, notes
<1>16. CASE CardRemoved
  BY <1>16, CardRemovedWaits
<1> QED  BY <1>1, <1>2, <1>3, <1>4, <1>5, <1>6, <1>7, <1>8, <1>9, <1>10, <1>11, <1>12, <1>13,
            <1>14, <1>15, <1>16 DEF VoiceNext, Continues, Events

\* The first turn of the buffer, which holds back all others, waits for something
\* that comes, but for the turns OnlyRemadeTurnsBlock names: drainReadyTurns of
\* voice-turn-buffer and bindResponseToInputId of client.ts.
THEOREM OnlyRemadeTurnsEverBlock == VoiceSpec => []OnlyRemadeTurnsBlock
<1>1. VoiceInit => DictationInv /\ WaitsInv
  BY DictationBegins, WaitsBegins
<1>2. DictationInv /\ WaitsInv /\ [VoiceNext]_voiceVars => (DictationInv /\ WaitsInv)'
  BY DictationStep, WaitsStep
<1>3. DictationInv /\ WaitsInv => OnlyRemadeTurnsBlock
  <2> SUFFICES ASSUME DictationInv, WaitsInv, buffer.order # << >>,
                      NEW i, i = Head(buffer.order),
                      i \notin silent, i \notin buffer.ignored, ~ i =< forgotten
               PROVE  Awaited(i)
    BY DEF OnlyRemadeTurnsBlock
  <2>1. /\ VoiceTyped /\ InPlace(buffer, appends) /\ buffer \in Buffers
        /\ buffer.order \in Seq(Utterance)
    BY DEF DictationInv, InPlace, Buffers
  <2>2. i = buffer.order[1] /\ 1 \in 1 .. Len(buffer.order) /\ i \in Utterance
    BY <2>1
  <2>3. i \in Utterances /\ buffer.turns[i] # Nothing
    BY <2>1, <2>2, Typical DEF InPlace, Complete
  <2>4. i \in Stay(buffer)
    BY <2>1, <2>2, <2>3, Typical DEF Stay, Utterance
  <2>5. buffer.turns[i] \in Turn /\ ~IsReady(buffer.turns[i])
    BY <2>1, <2>2, <2>3 DEF Buffers, WaitsInv, FirstUnready
  <2>6. /\ buffer.turns[i].outcome = "none" => OnItsWay(i)
        /\ buffer.turns[i].transcribed \/ i \in transcribing \union silent
    BY <2>4 DEF WaitsInv, HeldBack
  <2>7. CASE buffer.turns[i].outcome # "none"
    <3>1. ~ buffer.turns[i].transcribed
      BY <2>5, <2>7 DEF IsReady
    <3> QED  BY <2>6, <2>7, <3>1 DEF Awaited
  <2>8. CASE buffer.turns[i].outcome = "none"
    <3>1. ASSUME i \in Range(pending)
          PROVE  \E n \in 1 .. Len(pending) : pending[n] = i /\ n + followups =< Len(unanswered) + asked
      <4>1. /\ pending \in Seq(Utterance) /\ Len(pending) \in Nat /\ followups \in Nat
            /\ Len(pending) + followups = Len(unanswered) + asked
        BY <2>1 DEF VoiceTyped, WaitsInv, Owed
      <4>2. PICK n \in 1 .. Len(pending) : pending[n] = i
        BY <3>1, <4>1 DEF Range
      <4>3. n + followups =< Len(pending) + followups
        BY <4>1
      <4> QED  BY <4>1, <4>2, <4>3
    <3> QED  BY <2>6, <2>8, <3>1 DEF OnItsWay, Awaited, ResponseComes
  <2> QED  BY <2>7, <2>8
<1> QED  BY <1>1, <1>2, <1>3, PTL DEF VoiceSpec
=============================================================================
