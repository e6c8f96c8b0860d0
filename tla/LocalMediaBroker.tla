-------------------------- MODULE LocalMediaBroker --------------------------
(***************************************************************************)
(* The broker of local devices (lib/meeting/local-media-broker.ts): hand   *)
(* input and the meeting each borrow clones of one camera track and one    *)
(* microphone track, which are opened when first needed and closed with    *)
(* the last lease.  Opening a device waits for a person's permission, and  *)
(* every borrower goes on by itself once what it waits for is there.       *)
(***************************************************************************)
EXTENDS Naturals, FiniteSets

CONSTANTS
  Borrowers,    \* calls of acquireHandVideo and acquireMeetingMedia
  MaxTracks     \* bound: tracks opened of each kind

ASSUME BrokerAssumption == MaxTracks \in Nat

Kinds == {"video", "audio"}

VARIABLES
  source,          \* videoSource and audioSource, by number; 0 if null
  opening,         \* videoPending and audioPending: a device is being opened
  references,      \* videoReferences and audioReferences
  brokerDisposed,
  request,         \* of each borrower: new, waiting, gone, or its lease
  running,         \* external: the tracks of each kind the hardware runs
  opened,          \* how many tracks of each kind have been opened
  unwanted         \* kinds whose device came when nobody waited for it any more

brokerVars == <<source, opening, references, brokerDisposed, request, running, opened,
                unwanted>>

\* A borrower needs some kinds of track and has got some of them already.
Requests ==
  [at : {"new", "gone"}]
    \union [at : {"waiting"}, needs : SUBSET Kinds, got : [Kinds -> Nat]]
    \union [at : {"leased"}, needs : SUBSET Kinds, got : [Kinds -> Nat], whole : BOOLEAN]

Waiting(b) == request[b].at = "waiting"
Leases == { b \in Borrowers : request[b].at = "leased" }
Runs(k, n) == n \in running[k]

\* Borrowers that still wait for a device of kind k.
WaitingFor(k) ==
  { b \in Borrowers : Waiting(b) /\ k \in request[b].needs /\ request[b].got[k] = 0 }

Gone == [at |-> "gone"]

-----------------------------------------------------------------------------
\* ensureVideo and ensureAudio: a live source is there at once, an ended or
\* missing one is opened once for all that wait.
Acquire(b, needs) ==
  /\ request[b].at = "new"
  /\ IF brokerDisposed
     THEN /\ request' = [request EXCEPT ![b] = Gone]
          /\ UNCHANGED opening
     ELSE LET got == [k \in Kinds |->
                        IF k \in needs /\ Runs(k, source[k]) THEN source[k] ELSE 0]
          IN  /\ request' = [request EXCEPT ![b] =
                               [at |-> "waiting", needs |-> needs, got |-> got]]
              /\ opening' = [k \in Kinds |-> opening[k] \/ (k \in needs /\ got[k] = 0)]
  /\ UNCHANGED <<source, references, brokerDisposed, running, opened, unwanted>>

DeviceOpens(k) ==
  /\ opening[k] /\ opened[k] < MaxTracks
  /\ opening' = [opening EXCEPT ![k] = FALSE]
  /\ opened' = [opened EXCEPT ![k] = @ + 1]
  /\ IF brokerDisposed
     THEN /\ request' = [b \in Borrowers |->
                           IF b \in WaitingFor(k) THEN Gone ELSE request[b]]
          /\ UNCHANGED <<source, running, unwanted>>
     ELSE /\ source' = [source EXCEPT ![k] = opened[k] + 1]
          /\ running' = [running EXCEPT ![k] = @ \union {opened[k] + 1}]
          /\ request' = [b \in Borrowers |->
                           IF b \in WaitingFor(k)
                           THEN [request[b] EXCEPT !.got[k] = opened[k] + 1]
                           ELSE request[b]]
          /\ unwanted' = IF WaitingFor(k) = {} THEN unwanted \union {k} ELSE unwanted
  /\ UNCHANGED <<references, brokerDisposed>>

\* releaseUnusedSources, with the references there are after this step.
CloseUnused(refs) ==
  /\ references' = refs
  /\ source' = [k \in Kinds |-> IF refs[k] = 0 THEN 0 ELSE source[k]]
  /\ running' = [k \in Kinds |->
                   IF refs[k] = 0 THEN running[k] \ {source[k]} ELSE running[k]]
  /\ unwanted' = unwanted \ { k \in Kinds : refs[k] = 0 /\ source[k] # 0 }

\* A refusal rejects all who wait for the device; the meeting then closes what
\* nobody uses, and may never learn of a device it does not wait for any more.
DeviceRefused(k) ==
  /\ opening[k]
  /\ opening' = [opening EXCEPT ![k] = FALSE]
  /\ request' = [b \in Borrowers |-> IF b \in WaitingFor(k) THEN Gone ELSE request[b]]
  /\ IF \E b \in WaitingFor(k) : request[b].needs = Kinds
     THEN CloseUnused(references)
     ELSE UNCHANGED <<references, source, running, unwanted>>
  /\ UNCHANGED <<brokerDisposed, opened>>

Plus(refs, needs) == [k \in Kinds |-> IF k \in needs THEN refs[k] + 1 ELSE refs[k]]

Minus(refs, needs) ==
  [k \in Kinds |-> IF k \in needs /\ refs[k] > 0 THEN refs[k] - 1 ELSE refs[k]]

\* cloneLease, once every track is there: a track that has ended meanwhile is
\* cloned as it is.
Lease(b) ==
  /\ Waiting(b) /\ \A k \in request[b].needs : request[b].got[k] # 0
  /\ IF brokerDisposed
     THEN /\ request' = [request EXCEPT ![b] = Gone]
          /\ UNCHANGED references
     ELSE LET needs == request[b].needs
              got == request[b].got
          IN  /\ request' = [request EXCEPT ![b] =
                               [at |-> "leased", needs |-> needs, got |-> got,
                                whole |-> \A k \in needs : Runs(k, got[k])]]
              /\ references' = Plus(references, needs)
  /\ UNCHANGED <<source, opening, brokerDisposed, running, opened, unwanted>>

(* Faulty variant: a source is closed with the first of its leases.        *)
ReleaseFirst(b) ==
  /\ b \in Leases
  /\ request' = [request EXCEPT ![b] = Gone]
  /\ CloseUnused([k \in Kinds |-> IF k \in request[b].needs THEN 0 ELSE references[k]])
  /\ UNCHANGED <<opening, brokerDisposed, opened>>

(* Faulty variant: a release only counts down.                             *)
ReleaseCounts(b) ==
  /\ b \in Leases
  /\ request' = [request EXCEPT ![b] = Gone]
  /\ references' = Minus(references, request[b].needs)
  /\ UNCHANGED <<source, running, unwanted, opening, brokerDisposed, opened>>

Release(b) ==
  /\ b \in Leases
  /\ request' = [request EXCEPT ![b] = Gone]
  /\ CloseUnused(Minus(references, request[b].needs))
  /\ UNCHANGED <<opening, brokerDisposed, opened>>

DisposeBroker ==
  /\ ~brokerDisposed
  /\ brokerDisposed' = TRUE
  /\ request' = [b \in Borrowers |-> IF b \in Leases THEN Gone ELSE request[b]]
  /\ CloseUnused([k \in Kinds |-> 0])
  /\ UNCHANGED <<opening, opened>>

\* External: the device is unplugged or its permission withdrawn.
TrackEnds(k) ==
  /\ running[k] # {}
  /\ running' = [running EXCEPT ![k] = {}]
  /\ UNCHANGED <<source, opening, references, brokerDisposed, request, opened, unwanted>>

-----------------------------------------------------------------------------
BrokerInit ==
  /\ source = [k \in Kinds |-> 0]
  /\ opening = [k \in Kinds |-> FALSE]
  /\ references = [k \in Kinds |-> 0]
  /\ brokerDisposed = FALSE
  /\ request = [b \in Borrowers |-> [at |-> "new"]]
  /\ running = [k \in Kinds |-> {}]
  /\ opened = [k \in Kinds |-> 0]
  /\ unwanted = {}

BrokerNext ==
  \/ \E b \in Borrowers :
       \/ Acquire(b, {"video"}) \/ Acquire(b, Kinds)
       \/ Lease(b) \/ Release(b)
  \/ \E k \in Kinds : DeviceOpens(k) \/ DeviceRefused(k) \/ TrackEnds(k)
  \/ DisposeBroker

BrokerSpec == BrokerInit /\ [][BrokerNext]_brokerVars

-----------------------------------------------------------------------------
(* The broker's sources, counters and leases have their types.             *)
BrokerTypeOK ==
  /\ source \in [Kinds -> Nat] /\ opened \in [Kinds -> Nat]
  /\ opening \in [Kinds -> BOOLEAN] /\ references \in [Kinds -> Nat]
  /\ brokerDisposed \in BOOLEAN
  /\ request \in [Borrowers -> Requests]
  /\ running \in [Kinds -> SUBSET Nat] /\ unwanted \subseteq Kinds

(* No device runs that the broker could not close: whatever order openings, *)
(* refusals, releases and the disposal come in, a running track is the      *)
(* source, and after the disposal none runs.                                *)
RunningIsHeld ==
  \A k \in Kinds : running[k] \subseteq (IF brokerDisposed THEN {} ELSE {source[k]})

(* One borrower's release never takes a device from another: a lease that   *)
(* began whole stays whole until the device itself ends (videoReferences,   *)
(* releaseUnusedSources).                                                   *)
LeasesKeepTheirTracks ==
  [][ \A k \in Kinds : \A b \in Borrowers :
        /\ b \in Leases /\ b \in Leases' /\ k \in request[b].needs
        /\ Runs(k, request[b].got[k]) /\ ~Runs(k, request[b].got[k])'
        => TrackEnds(k) ]_brokerVars

(* A device runs only for somebody, who leases or awaits it, but for the    *)
(* one that opened when the borrower had already been refused the other.    *)
RunningIsWanted ==
  \A k \in Kinds :
    /\ running[k] # {} /\ k \notin unwanted
    => references[k] > 0 \/ \E b \in Borrowers : Waiting(b) /\ request[b].got[k] # 0

(* Both: whatever runs is the broker's to close, and somebody's              *)
(* (releaseUnusedSources, dispose).                                         *)
DevicesAccounted == RunningIsHeld /\ RunningIsWanted
=============================================================================
