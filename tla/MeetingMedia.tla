---------------------------- MODULE MeetingMedia ----------------------------
(***************************************************************************)
(* Direct meeting media (lib/meeting/media-controller.ts): every           *)
(* participant of a room runs one controller, which acquires camera and    *)
(* microphone, opens one signalling channel per member of the roster and   *)
(* negotiates a WebRTC connection with each.  Signals carry no session     *)
(* number; readiness is announced again and again and the lower            *)
(* participant id makes the offer.                                         *)
(*                                                                         *)
(* Signals are handled one at a time (signalWork), but stop, dispose, a    *)
(* new roster and channel callbacks come in at every await.                *)
(***************************************************************************)
EXTENDS Naturals, Sequences, FiniteSets

CONSTANTS
  Participants,   \* a set of numbers, ordered as localeCompare orders the ids
  None,
  MaxPeers,       \* MAX_REMOTE_PEERS
  Scenarios       \* bounds: what at most happens in a behaviour; several

ASSUME MediaAssumption ==
  /\ Participants \subseteq Nat /\ IsFiniteSet(Participants)
  /\ None \notin Nat
  /\ MaxPeers \in Nat
  \* gathering: the participants whose peers find a candidate; actors: those
  \* who do something but start; streams each may acquire; switches of the
  \* camera; events: stops, disposals and rosters that lose somebody;
  \* faults: refusals, failed calls, lost signals and connections
  /\ \A s \in Scenarios : /\ s.gathering \union s.actors \subseteq Participants
                          /\ {s.streams, s.switches, s.events, s.faults} \subseteq Nat

VARIABLES
  allowed,     \* allowedParticipantIds of each controller
  disposed,
  life,        \* lifecycleVersion
  starting,    \* the start under way: the life it began in and what it awaits
  acquired,    \* how many streams it has acquired
  stream,      \* localStream, by its number; 0 if null
  devices,     \* acquired streams that are not released
  shows,       \* snapshot.state, an error by its message
  camera,      \* snapshot.cameraEnabled
  chan,        \* state of the controller's channel to each sender's topic
  net,         \* net[q][p]: signals on q's topic on their way to p
  work,        \* signalWork: what the controller still has to handle
  step,        \* what the handler of the first of them awaits
  peers,       \* the controller's peer records
  made,        \* how many peer connections it has made
  limit,       \* the scenario of this behaviour
  switches, events, faults

lifecycle == <<life, starting, acquired, stream, devices, disposed, camera>>
signalling == <<chan, net>>
negotiation == <<work, step, peers, made>>
bounds == <<limit, switches, events, faults>>
vars == <<allowed, lifecycle, shows, signalling, negotiation, bounds>>

-----------------------------------------------------------------------------
(* Signals, peer records and what is queued.                               *)

Ready(to)        == [kind |-> "ready", to |-> to, by |-> 0, answers |-> 0]
Left             == [kind |-> "left", to |-> None, by |-> 0, answers |-> 0]
Offer(to, n)     == [kind |-> "offer", to |-> to, by |-> n, answers |-> 0]
Answer(to, n, m) == [kind |-> "answer", to |-> to, by |-> n, answers |-> m]
Candidate(to, n) == [kind |-> "ice", to |-> to, by |-> n, answers |-> 0]

Signal == [ kind : {"ready", "left", "offer", "answer", "ice"},
            to : Participants \union {None}, by : Nat, answers : Nat ]

\* A queued signal with its sender, or a switch of a stream's camera.
Work == [from : Participants, signal : Signal] \union [on : BOOLEAN, of : Nat]

\* local and remote are the two descriptions, the remote one by the number of
\* the peer that made it; bare peers were made while the camera was off; ice
\* holds the peers whose candidate was added, pendingIce those that wait.
PeerRecord ==
  [ id : Nat, of : Nat, bare : BOOLEAN, video : BOOLEAN, sent : BOOLEAN,
    local : {"none", "offer", "answer"}, remote : Nat, pendingIce : SUBSET Nat,
    ice : SUBSET Nat, connected : BOOLEAN ]

\* null is no peer.
ASSUME NoneAssumption == None \notin PeerRecord

NewPeer(p) ==
  [ id |-> made[p] + 1, of |-> stream[p], bare |-> ~camera[p], video |-> camera[p],
    sent |-> FALSE, local |-> "none", remote |-> 0, pendingIce |-> {}, ice |-> {},
    connected |-> FALSE ]

PeersOf(p) == { q \in Participants : peers[p][q] # None }

NoPeers == [q \in Participants |-> None]

\* The awaits of a handler: the relay servers and then the detaching of a
\* sender for a peer that is not registered yet, an offer, a description.
Step == [at : {"servers", "offering", "describing"}, id : Nat]
          \union [at : {"detaching"}, peer : PeerRecord]

Starting == [life : Nat, at : {"servers", "permission", "auth", "cleanup"}]

Superseded(p) == disposed[p] \/ starting[p].life # life[p]

-----------------------------------------------------------------------------
(* The topics.  Whoever has joined a topic gets what its owner sends.      *)

Joined(p, q) == chan[p][q] = "joined"

OnTopic(p, signals) ==
  [net EXCEPT ![p] = [s \in Participants |->
     IF s # p /\ Joined(s, p) THEN net[p][s] \o signals ELSE net[p][s]]]

Fault == faults < limit.faults /\ faults' = faults + 1

\* send: a signal that is not acknowledged is lost and changes what is shown.
Send(p, signals) ==
  \/ /\ chan[p][p] = "none"
     /\ UNCHANGED <<net, shows, faults>>
  \/ /\ chan[p][p] # "none"
     /\ net' = OnTopic(p, signals)
     /\ UNCHANGED <<shows, faults>>
  \/ /\ chan[p][p] # "none" /\ signals # << >> /\ Fault
     /\ shows' = IF stream[p] # 0 THEN [shows EXCEPT ![p] = "signaling_lost"] ELSE shows
     /\ UNCHANGED net

\* What is on its way to p on a topic outside S reaches no callback any more.
Dropped(queues, p, S) ==
  [q \in Participants |-> IF q \in S THEN queues[q] ELSE [queues[q] EXCEPT ![p] = << >>]]

SyncChannels(p, S) ==
  /\ chan' = [chan EXCEPT ![p] = [q \in Participants |->
                IF q \notin S THEN "none"
                ELSE IF chan[p][q] = "none" THEN "joining" ELSE chan[p][q]]]
  /\ net' = Dropped(net, p, S)

(* Faulty variant: peer connections are left to fail by themselves.        *)
CleanupKeepsPeers(p, announce) ==
  /\ net' = Dropped(IF announce /\ chan[p][p] # "none" THEN OnTopic(p, <<Left>>) ELSE net,
                    p, {})
  /\ chan' = [chan EXCEPT ![p] = [q \in Participants |-> "none"]]
  /\ peers' = peers
  /\ devices' = [devices EXCEPT ![p] = @ \ {stream[p]}]
  /\ stream' = [stream EXCEPT ![p] = 0]
  /\ camera' = [camera EXCEPT ![p] = FALSE]

(* cleanupResources: channels, peers and devices go at once, and the       *)
(* departure is announced on the channel that was just detached.           *)
Cleanup(p, announce) ==
  /\ net' = Dropped(IF announce /\ chan[p][p] # "none" THEN OnTopic(p, <<Left>>) ELSE net,
                    p, {})
  /\ chan' = [chan EXCEPT ![p] = [q \in Participants |-> "none"]]
  /\ peers' = [peers EXCEPT ![p] = NoPeers]
  /\ devices' = [devices EXCEPT ![p] = @ \ {stream[p]}]
  /\ stream' = [stream EXCEPT ![p] = 0]
  /\ camera' = [camera EXCEPT ![p] = FALSE]

-----------------------------------------------------------------------------
(* Starting.                                                               *)

\* More than a meeting holds: MAX_MEETING_PARTICIPANTS is one more than MAX_REMOTE_PEERS.
OverCapacity(S) == Cardinality(S) > MaxPeers + 1

Start(p) ==
  /\ acquired[p] < limit.streams
  /\ ~disposed[p] /\ stream[p] = 0 /\ starting[p] = None
  /\ shows[p] # "active"
  /\ IF p \in allowed[p] /\ ~OverCapacity(allowed[p])
     THEN /\ starting' = [starting EXCEPT ![p] = [life |-> life[p], at |-> "servers"]]
          /\ UNCHANGED shows
     ELSE /\ shows' = [shows EXCEPT ![p] = IF OverCapacity(allowed[p])
                                          THEN "over_capacity" ELSE "no_membership"]
          /\ UNCHANGED starting
  /\ UNCHANGED <<allowed, acquired, life, stream, devices, disposed, camera, signalling,
                 negotiation, bounds>>

Awaits(p, what) == starting[p] # None /\ starting[p].at = what

ServersResolved(p) ==
  /\ Awaits(p, "servers")
  /\ IF Superseded(p)
     THEN /\ starting' = [starting EXCEPT ![p] = None]
          /\ UNCHANGED shows
     ELSE /\ starting' = [starting EXCEPT ![p].at = "permission"]
          /\ shows' = [shows EXCEPT ![p] = "requesting_permission"]
  /\ UNCHANGED <<allowed, acquired, life, stream, devices, disposed, camera, signalling,
                 negotiation, bounds>>

(* Faulty variant: a superseded start keeps what it acquired.              *)
MediaGrantedAnyway(p) ==
  /\ Awaits(p, "permission")
  /\ acquired' = [acquired EXCEPT ![p] = @ + 1]
  /\ devices' = [devices EXCEPT ![p] = @ \union {acquired[p] + 1}]
  /\ IF Superseded(p)
     THEN /\ starting' = [starting EXCEPT ![p] = None]
          /\ UNCHANGED <<stream, shows, camera>>
     ELSE /\ starting' = [starting EXCEPT ![p].at = "auth"]
          /\ stream' = [stream EXCEPT ![p] = acquired[p] + 1]
          /\ shows' = [shows EXCEPT ![p] = "connecting"]
          /\ camera' = [camera EXCEPT ![p] = TRUE]
  /\ UNCHANGED <<allowed, life, disposed, signalling, negotiation, bounds>>

MediaGranted(p) ==
  /\ Awaits(p, "permission")
  /\ acquired' = [acquired EXCEPT ![p] = @ + 1]
  /\ IF Superseded(p)
     THEN /\ starting' = [starting EXCEPT ![p] = None]
          /\ UNCHANGED <<stream, devices, shows, camera>>
     ELSE /\ starting' = [starting EXCEPT ![p].at = "auth"]
          /\ devices' = [devices EXCEPT ![p] = @ \union {acquired[p] + 1}]
          /\ stream' = [stream EXCEPT ![p] = acquired[p] + 1]
          /\ shows' = [shows EXCEPT ![p] = "connecting"]
          /\ camera' = [camera EXCEPT ![p] = TRUE]
  /\ UNCHANGED <<allowed, life, disposed, signalling, negotiation, bounds>>

MediaDenied(p) ==
  /\ Awaits(p, "permission") /\ Fault
  /\ starting' = [starting EXCEPT ![p] = None]
  /\ shows' = IF Superseded(p) THEN shows ELSE [shows EXCEPT ![p] = "no_media"]
  /\ UNCHANGED <<allowed, acquired, life, stream, devices, disposed, camera, signalling,
                 negotiation, limit, switches, events>>

Authorized(p) ==
  /\ Awaits(p, "auth")
  /\ starting' = [starting EXCEPT ![p] = None]
  /\ IF Superseded(p) \/ stream[p] = 0 THEN UNCHANGED signalling
                                       ELSE SyncChannels(p, allowed[p])
  /\ UNCHANGED <<allowed, acquired, life, stream, devices, disposed, camera, shows,
                 negotiation, bounds>>

(* A roster that came during the await has opened channels already, and    *)
(* removing them is awaited before the error is shown.                     *)
AuthFails(p) ==
  /\ Awaits(p, "auth") /\ Fault
  /\ IF Superseded(p)
     THEN /\ starting' = [starting EXCEPT ![p] = None]
          /\ UNCHANGED <<stream, devices, camera, signalling, peers, shows>>
     ELSE /\ Cleanup(p, FALSE)
          /\ IF \E q \in Participants : chan[p][q] # "none"
             THEN /\ starting' = [starting EXCEPT ![p].at = "cleanup"]
                  /\ UNCHANGED shows
             ELSE /\ starting' = [starting EXCEPT ![p] = None]
                  /\ shows' = [shows EXCEPT ![p] = "no_signaling"]
  /\ UNCHANGED <<allowed, acquired, life, disposed, work, step, made, limit, switches, events>>

\* No second look at the life: a stop during the clean-up is overwritten.
CleanedUp(p) ==
  /\ Awaits(p, "cleanup")
  /\ starting' = [starting EXCEPT ![p] = None]
  /\ shows' = [shows EXCEPT ![p] = "no_signaling"]
  /\ UNCHANGED <<allowed, acquired, life, stream, devices, disposed, camera, signalling,
                 negotiation, bounds>>

-----------------------------------------------------------------------------
(* What people and the room do.                                            *)

Event(p) == p \in limit.actors /\ events < limit.events /\ events' = events + 1

\* The departure is announced, but not for sure.
Depart(p) ==
  /\ life' = [life EXCEPT ![p] = @ + 1]
  /\ \/ Cleanup(p, TRUE) /\ UNCHANGED faults
     \/ chan[p][p] # "none" /\ Cleanup(p, FALSE) /\ Fault

Stop(p) ==
  /\ Event(p) /\ stream[p] # 0
  /\ Depart(p)
  /\ shows' = [shows EXCEPT ![p] = "off"]
  /\ UNCHANGED <<allowed, acquired, starting, disposed, work, step, made, limit, switches>>

Dispose(p) ==
  /\ Event(p) /\ ~disposed[p]
  /\ disposed' = [disposed EXCEPT ![p] = TRUE]
  /\ Depart(p)
  /\ shows' = [shows EXCEPT ![p] = "off"]
  /\ UNCHANGED <<allowed, acquired, starting, work, step, made, limit, switches>>

\* setAllowedParticipantIds with the room over capacity, as it was decided or
\* by the number of its members, or without p in it.
Excluded(p, S, over) ==
  /\ Event(p) /\ ~disposed[p]
  /\ OverCapacity(S) => over
  /\ over \/ p \notin S
  /\ allowed' = [allowed EXCEPT ![p] = S]
  /\ Depart(p)
  /\ shows' = [shows EXCEPT ![p] = IF over THEN "over_capacity" ELSE "no_membership"]
  /\ UNCHANGED <<acquired, starting, disposed, work, step, made, limit, switches>>

RosterChanges(p, S) ==
  /\ ~disposed[p] /\ p \in S /\ S # allowed[p] /\ ~OverCapacity(S)
  /\ IF allowed[p] \subseteq S THEN UNCHANGED events ELSE Event(p)
  /\ allowed' = [allowed EXCEPT ![p] = S]
  /\ shows' = IF shows[p] = "over_capacity" /\ stream[p] = 0
              THEN [shows EXCEPT ![p] = "off"] ELSE shows
  /\ peers' = [peers EXCEPT ![p] = [q \in Participants |->
                 IF q \in S THEN peers[p][q] ELSE None]]
  /\ IF stream[p] # 0 THEN SyncChannels(p, S) ELSE UNCHANGED signalling
  /\ UNCHANGED <<lifecycle, work, step, made, limit, switches, faults>>

SetCamera(p) ==
  /\ p \in limit.actors /\ switches < limit.switches /\ stream[p] # 0
  /\ switches' = switches + 1
  /\ camera' = [camera EXCEPT ![p] = ~@]
  /\ work' = [work EXCEPT ![p] = Append(@, [on |-> ~camera[p], of |-> stream[p]])]
  /\ UNCHANGED <<allowed, acquired, life, starting, stream, devices, disposed, shows,
                 signalling, step, peers, made, limit, events, faults>>

-----------------------------------------------------------------------------
(* The channels.                                                           *)

(* Faulty variant: readiness is announced once only, on the own channel.   *)
NoAnnouncement(p, q) == << >>

\* What p sends once it hears q: nothing before its own channel has joined.
Announcement(p, q) == IF Joined(p, p) THEN <<Ready(q)>> ELSE << >>

\* A subscription announces readiness to whoever can hear it by now: targeted
\* signals reach only their target's queue, so their order does not matter.
Subscribed(p, q) ==
  /\ chan[p][q] \in {"joining", "lost"}
  /\ chan' = [chan EXCEPT ![p][q] = "joined"]
  /\ IF q = p
     THEN \/ /\ net' = [net EXCEPT ![p] = [s \in Participants |->
                          IF s = p \/ ~Joined(s, p) THEN net[p][s]
                          ELSE net[p][s] \o (IF Joined(p, s) THEN <<Ready(None), Ready(s)>>
                                                           ELSE <<Ready(None)>>)]]
             /\ shows' = [shows EXCEPT ![p] = "active"]
             /\ UNCHANGED faults
          \/ /\ Fault
             /\ shows' = [shows EXCEPT ![p] = "signaling_lost"]
             /\ UNCHANGED net
     ELSE Send(p, Announcement(p, q))
  /\ UNCHANGED <<allowed, lifecycle, negotiation, limit, switches, events>>

ChannelFails(p, q) ==
  /\ chan[p][q] \in {"joining", "joined"} /\ Fault
  /\ chan' = [chan EXCEPT ![p][q] = "lost"]
  /\ net' = [net EXCEPT ![q][p] = << >>]
  /\ shows' = [shows EXCEPT ![p] = "signaling_lost"]
  /\ UNCHANGED <<allowed, lifecycle, negotiation, limit, switches, events>>

\* A channel that is gone was emptied, so whoever hears it is allowed.
Deliver(q, p) ==
  /\ net[q][p] # << >>
  /\ net' = [net EXCEPT ![q][p] = Tail(@)]
  /\ work' = [work EXCEPT ![p] = Append(@, [from |-> q, signal |-> Head(net[q][p])])]
  /\ UNCHANGED <<allowed, lifecycle, shows, chan, step, peers, made, bounds>>

-----------------------------------------------------------------------------
(* The handlers.  The first queued item is worked on until it is Done.     *)

IsSignal(w) == "signal" \in DOMAIN w

Idle(p) == step[p] = None /\ work[p] # << >>

Done(p) == /\ work' = [work EXCEPT ![p] = Tail(@)]
           /\ step' = [step EXCEPT ![p] = None]

Busy(p, s) == step' = [step EXCEPT ![p] = s] /\ UNCHANGED work

PutPeer(p, q, r) == peers' = [peers EXCEPT ![p][q] = r]

\* A handler that throws is reported, though not after a disposal.
Throws(p) ==
  /\ Done(p)
  /\ shows' = IF disposed[p] THEN shows ELSE [shows EXCEPT ![p] = "no_negotiation"]

Ignored(p, w) ==
  \/ disposed[p] \/ stream[p] = 0
  \/ w.from \notin allowed[p]
  \/ w.signal.to \notin {None, p}

IgnoreSignal(p) ==
  /\ Idle(p) /\ IsSignal(Head(work[p]))
  /\ LET w == Head(work[p])
     IN  \/ Ignored(p, w)
         \/ w.signal.kind # "left" /\ peers[p][w.from] = None
              /\ Cardinality(PeersOf(p)) >= MaxPeers
  /\ Done(p)
  /\ UNCHANGED <<allowed, lifecycle, shows, signalling, peers, made, bounds>>

HandleLeft(p) ==
  /\ Idle(p) /\ IsSignal(Head(work[p]))
  /\ LET w == Head(work[p])
     IN  /\ ~Ignored(p, w) /\ w.signal.kind = "left"
         /\ PutPeer(p, w.from, None)
  /\ Done(p)
  /\ UNCHANGED <<allowed, lifecycle, shows, signalling, made, bounds>>

\* Which of two participants makes the offer.
Offers(p, q) == p < q

(* What the handler does once it has its peer record r.                    *)
Proceed(p, q, signal, r) ==
  CASE signal.kind = "ready" /\ Offers(p, q) /\ r.local = "none" ->
         /\ PutPeer(p, q, r)
         /\ Busy(p, [at |-> "offering", id |-> r.id])
         /\ UNCHANGED <<net, shows, faults>>
    [] signal.kind = "ready" /\ Offers(p, q) /\ r.local # "none" ->
         /\ PutPeer(p, q, r) /\ Done(p)
         /\ UNCHANGED <<net, shows, faults>>
    [] signal.kind = "ready" /\ ~Offers(p, q) ->
         /\ PutPeer(p, q, r) /\ Done(p)
         /\ Send(p, <<Ready(q)>>)
    [] signal.kind \in {"offer", "answer"} ->
         /\ PutPeer(p, q, r)
         /\ Busy(p, [at |-> "describing", id |-> r.id])
         /\ UNCHANGED <<net, shows, faults>>
    [] signal.kind = "ice" /\ r.remote = 0 ->
         /\ PutPeer(p, q, [r EXCEPT !.pendingIce = @ \union {signal.by}]) /\ Done(p)
         /\ UNCHANGED <<net, shows, faults>>
    [] signal.kind = "ice" /\ r.remote = signal.by ->
         /\ PutPeer(p, q, [r EXCEPT !.ice = @ \union {signal.by}]) /\ Done(p)
         /\ UNCHANGED <<net, shows, faults>>
    [] signal.kind = "ice" /\ r.remote \notin {0, signal.by} ->
         /\ PutPeer(p, q, r) /\ Throws(p)
         /\ UNCHANGED <<net, faults>>

HandleSignal(p) ==
  /\ Idle(p) /\ IsSignal(Head(work[p]))
  /\ LET w == Head(work[p])
     IN  /\ ~Ignored(p, w) /\ w.signal.kind # "left"
         /\ peers[p][w.from] # None
         /\ Proceed(p, w.from, w.signal, peers[p][w.from])
  /\ UNCHANGED <<allowed, lifecycle, chan, made, limit, switches, events>>

\* ensurePeer asks for the relay servers first.
AskServers(p) ==
  /\ Idle(p) /\ IsSignal(Head(work[p]))
  /\ LET w == Head(work[p])
     IN  /\ ~Ignored(p, w) /\ w.signal.kind # "left"
         /\ peers[p][w.from] = None
         /\ Cardinality(PeersOf(p)) < MaxPeers
  /\ Busy(p, [at |-> "servers", id |-> 0])
  /\ UNCHANGED <<allowed, lifecycle, shows, signalling, peers, made, bounds>>

At(p, what) == step[p] # None /\ step[p].at = what

UseServers(p) ==
  /\ At(p, "servers")
  /\ LET w == Head(work[p])
     IN  IF disposed[p] \/ stream[p] = 0 \/ w.from \notin allowed[p]
         THEN Done(p) /\ UNCHANGED <<net, shows, faults, peers, made>>
         ELSE /\ made' = [made EXCEPT ![p] = @ + 1]
              /\ IF camera[p] THEN Proceed(p, w.from, w.signal, NewPeer(p))
                 ELSE /\ Busy(p, [at |-> "detaching", peer |-> NewPeer(p)])
                      /\ UNCHANGED <<net, shows, faults, peers>>
  /\ UNCHANGED <<allowed, lifecycle, chan, limit, switches, events>>

\* With the camera off its sender is emptied before the peer is registered,
\* and nothing is looked at again after that await.
Detached(p) ==
  /\ At(p, "detaching")
  /\ \/ Proceed(p, Head(work[p]).from, Head(work[p]).signal, step[p].peer)
     \/ Fault /\ Throws(p) /\ UNCHANGED <<net, peers>>
  /\ UNCHANGED <<allowed, lifecycle, chan, made, limit, switches, events>>

\* The peer that a handler works on may have been closed during its await.
Closed(p) ==
  LET q == Head(work[p]).from
  IN  peers[p][q] = None \/ peers[p][q].id # step[p].id

OfferMade(p) ==
  /\ At(p, "offering")
  /\ LET q == Head(work[p]).from
     IN  IF Closed(p) THEN Throws(p) /\ UNCHANGED <<net, faults, peers>>
         ELSE /\ PutPeer(p, q, [peers[p][q] EXCEPT !.local = "offer"])
              /\ Send(p, <<Offer(q, step[p].id)>>)
              /\ Done(p)
  /\ UNCHANGED <<allowed, lifecycle, chan, made, limit, switches, events>>

\* A description takes the candidates that waited for it; one of another peer
\* makes the handler throw before it answers.
Describe(p) ==
  /\ At(p, "describing")
  /\ LET q == Head(work[p]).from
         signal == Head(work[p]).signal
         r == peers[p][q]
         described == [r EXCEPT !.remote = signal.by, !.pendingIce = {},
                                !.ice = @ \union (r.pendingIce \intersect {signal.by})]
     IN  IF Closed(p) THEN Throws(p) /\ UNCHANGED <<net, faults, peers>>
         ELSE \/ /\ IF signal.kind = "answer" THEN r.local # "offer" \/ r.remote # 0
                                               ELSE r.local # "none"
                 /\ Throws(p)
                 /\ UNCHANGED <<net, faults, peers>>
              \/ /\ r.pendingIce \ {signal.by} # {}
                 /\ PutPeer(p, q, described)
                 /\ Throws(p)
                 /\ UNCHANGED <<net, faults>>
              \/ /\ r.pendingIce \subseteq {signal.by}
                 /\ signal.kind = "answer" /\ r.local = "offer" /\ r.remote = 0
                 /\ PutPeer(p, q, described)
                 /\ Done(p)
                 /\ UNCHANGED <<net, shows, faults>>
              \/ /\ r.pendingIce \subseteq {signal.by}
                 /\ signal.kind = "offer"
                 /\ PutPeer(p, q, [described EXCEPT !.local = "answer"])
                 /\ Send(p, <<Answer(q, r.id, signal.by)>>)
                 /\ Done(p)
  /\ UNCHANGED <<allowed, lifecycle, chan, made, limit, switches, events>>

(* Faulty variant: peers that are already connected keep what they send.   *)
SwitchNewSenders(p) ==
  /\ Idle(p) /\ ~IsSignal(Head(work[p]))
  /\ LET w == Head(work[p])
     IN  peers' = [peers EXCEPT ![p] = [q \in Participants |->
                     IF peers[p][q] = None \/ disposed[p] \/ stream[p] # w.of
                        \/ peers[p][q].connected
                     THEN peers[p][q] ELSE [peers[p][q] EXCEPT !.video = w.on]]]
  /\ UNCHANGED faults
  /\ Done(p)
  /\ UNCHANGED <<allowed, lifecycle, shows, signalling, made, limit, switches, events>>

\* A switch of a stream that is gone is skipped; a sender that cannot be
\* switched costs its peer.
SwitchSenders(p) ==
  /\ Idle(p) /\ ~IsSignal(Head(work[p]))
  /\ LET w == Head(work[p])
         On(q) == IF peers[p][q] = None THEN None
                  ELSE [peers[p][q] EXCEPT !.video = w.on]
     IN  IF disposed[p] \/ stream[p] # w.of THEN UNCHANGED <<peers, faults>>
         ELSE \/ /\ peers' = [peers EXCEPT ![p] = [q \in Participants |-> On(q)]]
                 /\ UNCHANGED faults
              \/ \E lost \in PeersOf(p) :
                   /\ peers' = [peers EXCEPT ![p] = [q \in Participants |->
                                  IF q = lost THEN None ELSE On(q)]]
                   /\ Fault
  /\ Done(p)
  /\ UNCHANGED <<allowed, lifecycle, shows, signalling, made, limit, switches, events>>

-----------------------------------------------------------------------------
(* The peer connections; where neither gathers, descriptions carry the      *)
(* candidates.                                                             *)

MayFind(p, q) ==
  /\ p \in limit.gathering
  /\ peers[p][q] # None /\ peers[p][q].local # "none" /\ ~peers[p][q].sent

CandidateFound(p, q) ==
  /\ MayFind(p, q)
  /\ PutPeer(p, q, [peers[p][q] EXCEPT !.sent = TRUE])
  /\ Send(p, <<Candidate(q, peers[p][q].id)>>)
  /\ UNCHANGED <<allowed, lifecycle, chan, work, step, made, limit, switches, events>>

\* The other side still has the connection that p's peer talks to.
Partner(p, q) == peers[q][p] # None /\ peers[q][p].id = peers[p][q].remote

Paired(p, q) == Partner(p, q) /\ peers[q][p].remote = peers[p][q].id

MayConnect(p, q) ==
  /\ peers[p][q] # None /\ ~peers[p][q].connected
  /\ Paired(p, q)
  /\ \/ {p, q} \intersect limit.gathering = {}
     \/ peers[p][q].ice \union peers[q][p].ice # {}

Connect(p, q) ==
  /\ MayConnect(p, q)
  /\ PutPeer(p, q, [peers[p][q] EXCEPT !.connected = TRUE])
  /\ UNCHANGED <<allowed, lifecycle, shows, signalling, work, step, made, bounds>>

\* A connection whose other end is gone or talks to somebody else fails, and
\* so does any connection when the network fails.
ConnectionFails(p, q) ==
  /\ peers[p][q] # None /\ peers[p][q].remote # 0
  /\ \/ /\ Partner(p, q) => peers[q][p].remote \notin {0, peers[p][q].id}
        /\ UNCHANGED faults
     \/ Fault
  /\ PutPeer(p, q, None)
  /\ UNCHANGED <<allowed, lifecycle, shows, signalling, work, step, made, limit, switches,
                 events>>

-----------------------------------------------------------------------------
Init ==
  /\ allowed \in [Participants -> SUBSET Participants]
  /\ \A p \in Participants : p \in allowed[p]
  /\ disposed = [p \in Participants |-> FALSE]
  /\ life = [p \in Participants |-> 0]
  /\ starting = [p \in Participants |-> None]
  /\ acquired = [p \in Participants |-> 0]
  /\ stream = [p \in Participants |-> 0]
  /\ devices = [p \in Participants |-> {}]
  /\ shows = [p \in Participants |-> "off"]
  /\ camera = [p \in Participants |-> FALSE]
  /\ chan = [p \in Participants |-> [q \in Participants |-> "none"]]
  /\ net = [q \in Participants |-> [p \in Participants |-> << >>]]
  /\ work = [p \in Participants |-> << >>]
  /\ step = [p \in Participants |-> None]
  /\ peers = [p \in Participants |-> NoPeers]
  /\ made = [p \in Participants |-> 0]
  /\ limit \in Scenarios
  /\ switches = 0 /\ events = 0 /\ faults = 0

Starts(p) ==
  Start(p) \/ ServersResolved(p) \/ MediaGranted(p) \/ MediaDenied(p)
    \/ Authorized(p) \/ AuthFails(p) \/ CleanedUp(p)

Handles(p) ==
  IgnoreSignal(p) \/ HandleLeft(p) \/ HandleSignal(p) \/ AskServers(p)
    \/ UseServers(p) \/ Detached(p) \/ OfferMade(p) \/ Describe(p) \/ SwitchSenders(p)

Next ==
  \E p \in Participants :
    \/ Starts(p) \/ Stop(p) \/ Dispose(p) \/ SetCamera(p)
    \/ \E S \in SUBSET Participants :
         \/ \E over \in BOOLEAN : Excluded(p, S, over)
         \/ RosterChanges(p, S)
    \/ Handles(p)
    \/ \E q \in Participants :
         \/ Subscribed(p, q) \/ ChannelFails(p, q) \/ Deliver(q, p)
         \/ CandidateFound(p, q) \/ Connect(p, q) \/ ConnectionFails(p, q)

\* Promises of the browser settle, channels join, signals arrive and paired
\* connections come up; nobody has to press anything.
Fairness ==
  \A p \in Participants :
    /\ WF_vars(ServersResolved(p)) /\ WF_vars(MediaGranted(p))
    /\ WF_vars(Authorized(p)) /\ WF_vars(CleanedUp(p)) /\ WF_vars(Handles(p))
    /\ \A q \in Participants :
         /\ WF_vars(Subscribed(p, q)) /\ WF_vars(Deliver(q, p))
         /\ WF_vars(CandidateFound(p, q)) /\ WF_vars(Connect(p, q))

Spec == Init /\ [][Next]_vars /\ Fairness

-----------------------------------------------------------------------------
(* The records of every controller have their types: peers, queued work and *)
(* the awaits of start and of the signal handler (media-controller.ts).     *)
Shown == {"off", "requesting_permission", "connecting", "active", "signaling_lost",
          "no_membership", "no_media", "no_signaling", "no_negotiation", "over_capacity"}

TypeOK ==
  /\ allowed \in [Participants -> SUBSET Participants]
  /\ disposed \in [Participants -> BOOLEAN]
  /\ camera \in [Participants -> BOOLEAN]
  /\ life \in [Participants -> Nat] /\ acquired \in [Participants -> Nat]
  /\ stream \in [Participants -> Nat]
  /\ made \in [Participants -> Nat]
  /\ devices \in [Participants -> SUBSET Nat]
  /\ starting \in [Participants -> Starting \union {None}]
  /\ shows \in [Participants -> Shown]
  /\ chan \in [Participants -> [Participants -> {"none", "joining", "joined", "lost"}]]
  /\ net \in [Participants -> [Participants -> Seq(Signal)]]
  /\ work \in [Participants -> Seq(Work)]
  /\ step \in [Participants -> Step \union {None}]
  /\ peers \in [Participants -> [Participants -> PeerRecord \union {None}]]
  /\ {switches, events, faults} \subseteq Nat

(* Whatever a stop, a roster or a disposal interrupts, no camera or         *)
(* microphone stays on that the controller does not hold as its stream      *)
(* (start's second look at the life, releaseLocalMedia).                    *)
DevicesReleased ==
  \A p \in Participants : devices[p] = {stream[p]} \ {0}

(* A peer outlives the stream it was made for only if it was made with the  *)
(* camera off: ensurePeer looks at the room again after every await but     *)
(* that of replaceTrack(null).                                              *)
StalePeersWereBare ==
  \A p, q \in Participants :
    peers[p][q] # None /\ peers[p][q].of # stream[p] => peers[p][q].bare

(* When nothing is queued, what is sent to every peer of the stream is what *)
(* the participant chose, whatever negotiation the switches fell into.      *)
SendersFollowCamera ==
  \A p, q \in Participants :
    /\ work[p] = << >> /\ peers[p][q] # None /\ peers[p][q].of = stream[p]
    => peers[p][q].video = camera[p]

(* Two that nobody disturbs never meet in a negotiation error: one of them  *)
(* offers, however their announcements, rosters and candidates cross.       *)
Undisturbed == events = 0 /\ faults = 0

BothPresent(p, q) ==
  \A r \in {p, q} : stream[r] # 0 /\ q \in allowed[r] /\ p \in allowed[r]

ConnectedTo(p, q) == peers[p][q] # None /\ peers[p][q].connected

\* The offer went out before the other side had joined the offerer's topic.
Unheard(p, q) ==
  /\ peers[p][q] # None /\ peers[p][q].local = "offer" /\ peers[p][q].remote = 0
  /\ peers[q][p] = None \/ peers[q][p].local = "none"

(* Two that both hold their media and know each other come to be connected, *)
(* in whatever order their rosters, channels and announcements come: "The   *)
(* non-offering peer now answers every valid readiness announcement; the    *)
(* offering peer's existing local-description guard keeps offer creation    *)
(* idempotent" (docs/verification-ledger.md:2310).                          *)
CallsConnect ==
  \A p, q \in Participants : p # q =>
    ([]<>(Undisturbed /\ BothPresent(p, q)) => <>(~Undisturbed \/ ConnectedTo(p, q)))

(* When nothing is left to do for two that nobody disturbed, they are       *)
(* connected: the only way to miss each other is an offer that nobody heard *)
(* and that the local description keeps from being made again (sendOffer).  *)
Settled(p, q) ==
  /\ \A r \in {p, q} : starting[r] = None /\ work[r] = << >>
  /\ \A r, s \in {p, q} :
       /\ net[r][s] = << >> /\ Joined(r, s)
       /\ ~MayFind(r, s) /\ ~MayConnect(r, s)

MissedOnlyUnheard ==
  \A p, q \in Participants :
    /\ p # q /\ Undisturbed /\ Settled(p, q) /\ BothPresent(p, q)
    => ConnectedTo(p, q) \/ Unheard(p, q) \/ Unheard(q, p)
=============================================================================
