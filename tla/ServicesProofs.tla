-------------------------- MODULE ServicesProofs --------------------------
(***************************************************************************)
(* Proofs about the services a room uses: loading its canvas, lending its  *)
(* camera and microphone, admitting a paid transform of a sketch, counting *)
(* what a session may still do, and keeping its realtime channel.          *)
(***************************************************************************)
EXTENDS CanvasLoad, LocalMediaBroker, VisionAdmission, SessionQuota,
        RoomRealtime, FiniteSetTheorems, TLAPS

-----------------------------------------------------------------------------
(* Loading a canvas implements an atomic load.                             *)
(*                                                                         *)
(* CanvasLoad implements AtomicLoad, for any loaders and any number of     *)
(* mutations: the two readings of the room row bracket the tables.         *)

(* A running load has no answer yet.  While the room is readable, what was *)
(* read since the first room row is no older than it, so a room row that   *)
(* did not move pins everything.                                           *)
Bracketed(l) ==
  /\ stage[l] # "idle" => began[l] <= revision /\ outcome[l] = None
  /\ stage[l] = "tables" =>
       /\ began[l] <= before[l] /\ before[l] <= revision
       /\ readable /\ objectsAt[l] # None =>
            before[l] <= objectsAt[l] /\ objectsAt[l] <= revision
       /\ readable /\ receiptsAt[l] # None =>
            before[l] <= receiptsAt[l] /\ receiptsAt[l] <= revision

LoadInv == TypeOK /\ NoFalseCorruption /\ \A l \in Loaders : Bracketed(l)

(* A load that concludes gives the whole canvas of the present revision.   *)
LEMMA ConcludesWhole ==
  ASSUME LoadInv, NEW l \in Loaders, Conclude(l)
  PROVE  Finish(l, Atomic!WholeAt(revision)) /\ began[l] <= revision
<1>1. /\ objectsAt[l] \in Nat /\ receiptsAt[l] \in Nat
      /\ began[l] \in Nat /\ before[l] = revision /\ revision \in Nat
  BY DEF LoadInv, TypeOK, Conclude, TablesRead
<1>2. /\ before[l] <= objectsAt[l] /\ objectsAt[l] <= revision
      /\ before[l] <= receiptsAt[l] /\ receiptsAt[l] <= revision
      /\ began[l] <= revision
  BY DEF LoadInv, Bracketed, Conclude, TablesRead
<1>3. objectsAt[l] = revision /\ receiptsAt[l] = revision
  BY <1>1, <1>2
<1>4. PICK answer \in Verdicts(l) : Finish(l, answer)
  BY DEF Conclude
<1>5. answer = Snapshot(l)
  BY <1>3, <1>4 DEF Verdicts, Snapshot
<1> QED
  BY <1>2, <1>3, <1>4, <1>5 DEF Snapshot, Atomic!WholeAt

LEMMA LoadInvStep == LoadInv /\ [Next]_vars => LoadInv'
<1> SUFFICES ASSUME LoadInv, [Next]_vars PROVE LoadInv'
  OBVIOUS
<1> USE LoadAssumption
<1>1. CASE UNCHANGED vars
  BY <1>1 DEF LoadInv, TypeOK, NoFalseCorruption, Bracketed, vars
<1>2. CASE Commit
  BY <1>2 DEF LoadInv, TypeOK, NoFalseCorruption, Bracketed, Commit
<1>3. CASE Close
  BY <1>3 DEF LoadInv, TypeOK, NoFalseCorruption, Bracketed, Close
<1>4. ASSUME NEW l \in Loaders, BeginLoad(l) PROVE LoadInv'
  BY <1>4 DEF LoadInv, TypeOK, NoFalseCorruption, Bracketed, BeginLoad
<1>5. ASSUME NEW l \in Loaders, ReadRoomBefore(l) PROVE LoadInv'
  BY <1>5 DEF LoadInv, TypeOK, NoFalseCorruption, Bracketed, ReadRoomBefore
<1>6. ASSUME NEW l \in Loaders, ReadObjects(l) PROVE LoadInv'
  BY <1>6 DEF LoadInv, TypeOK, NoFalseCorruption, Bracketed, ReadObjects, Visible
<1>7. ASSUME NEW l \in Loaders, ReadReceipts(l) PROVE LoadInv'
  BY <1>7 DEF LoadInv, TypeOK, NoFalseCorruption, Bracketed, ReadReceipts, Visible
<1>8. ASSUME NEW l \in Loaders, Conclude(l) PROVE LoadInv'
  <2>1. Finish(l, Atomic!WholeAt(revision))
    BY <1>8, ConcludesWhole
  <2>2. Atomic!WholeAt(revision) \in Canvas
    BY DEF LoadInv, TypeOK, Canvas, Atomic!WholeAt
  <2>3. Atomic!WholeAt(revision) \notin Refusal
    BY DEF Refusal, Atomic!WholeAt
  <2> QED
    BY <2>1, <2>2, <2>3 DEF LoadInv, TypeOK, NoFalseCorruption, Bracketed, Finish
<1>9. ASSUME NEW l \in Loaders, Retry(l) PROVE LoadInv'
  <2>1. /\ attempt' \in [Loaders -> {1, 2}]
        /\ stage' \in [Loaders -> {"idle", "room", "tables"}]
    <3>1. attempt[l] = 1
      BY <1>9 DEF LoadInv, TypeOK, Retry
    <3>2. attempt' = [attempt EXCEPT ![l] = 2]
      BY <1>9, <3>1 DEF LoadInv, TypeOK, Retry
    <3> QED
      BY <1>9, <3>2 DEF LoadInv, TypeOK, Retry
  <2>2. \A k \in Loaders : stage[k] # "idle" => began[k] <= revision /\ outcome[k] = None
    BY DEF LoadInv, Bracketed
  <2>3. \A k \in Loaders : stage'[k] = IF k = l THEN "room" ELSE stage[k]
    <3>1. stage' = [stage EXCEPT ![l] = "room"]
      BY <1>9 DEF Retry
    <3> QED
      BY <3>1 DEF LoadInv, TypeOK
  <2>4. stage[l] # "idle"
    BY <1>9 DEF Retry, TablesRead
  <2>5. TypeOK' /\ NoFalseCorruption'
    BY <1>9, <2>1 DEF LoadInv, TypeOK, NoFalseCorruption, Retry
  <2>6. \A k \in Loaders : Bracketed(k)'
    BY <1>9, <2>2, <2>3, <2>4 DEF LoadInv, Bracketed, Retry
  <2> QED
    BY <2>5, <2>6 DEF LoadInv
<1>10. ASSUME NEW l \in Loaders, GiveUp(l) \/ Unavailable(l) PROVE LoadInv'
  <2>1. PICK answer \in { [code |-> c] : c \in {"room_unavailable", "snapshot_unstable"} } :
          Finish(l, answer)
    BY <1>10 DEF GiveUp, Unavailable
  <2>2. answer \in Refusal /\ answer.code # "invalid_persisted_state"
    BY DEF Refusal
  <2> QED
    BY <2>1, <2>2 DEF LoadInv, TypeOK, NoFalseCorruption, Bracketed, Finish
<1> QED
  BY <1>1, <1>2, <1>3, <1>4, <1>5, <1>6, <1>7, <1>8, <1>9, <1>10 DEF Next, Step

LEMMA LoadInvInit == Init => LoadInv
  BY LoadAssumption DEF Init, LoadInv, TypeOK, NoFalseCorruption, Bracketed, Refusal

THEOREM LoadInvariant == Spec => []LoadInv
<1> QED
  BY LoadInvInit, LoadInvStep, PTL DEF Spec

(* A sound database is never reported as corrupt.                          *)
THEOREM CorruptionIsReal == Spec => []NoFalseCorruption
<1>1. LoadInv => NoFalseCorruption
  BY DEF LoadInv
<1> QED
  BY <1>1, LoadInvariant, PTL

-----------------------------------------------------------------------------
(* Every step is a step of one atomic load, or none.                       *)

LEMMA InitRefines == Init => Atomic!LoadInit
  BY LoadAssumption DEF Init, Atomic!LoadInit, AtomicBegan, AtomicLoaded

LEMMA MappedTypes ==
  ASSUME LoadInv
  PROVE  /\ DOMAIN AtomicBegan = Loaders /\ DOMAIN AtomicLoaded = Loaders
         /\ \A l \in Loaders : AtomicBegan[l] = IF stage[l] = "idle" THEN None ELSE began[l]
         /\ \A l \in Loaders : stage[l] # "idle" => AtomicLoaded[l] = None
         /\ \A l \in Loaders : stage[l] # "idle" => AtomicBegan[l] # None
         /\ revision \in Nat
  BY LoadAssumption DEF LoadInv, TypeOK, Bracketed, AtomicBegan, AtomicLoaded

(* Any end of a load clears its beginning and leaves the other loads.      *)
LEMMA FinishMaps ==
  ASSUME LoadInv, NEW l \in Loaders, NEW answer, Finish(l, answer)
  PROVE  /\ AtomicBegan' = [AtomicBegan EXCEPT ![l] = None]
         /\ AtomicLoaded' =
              [AtomicLoaded EXCEPT ![l] = IF answer \in Refusal THEN None ELSE answer]
<1>1. /\ stage' = [stage EXCEPT ![l] = "idle"] /\ began' = began
      /\ stage \in [Loaders -> {"idle", "room", "tables"}]
  BY DEF LoadInv, TypeOK, Finish
<1>2. AtomicBegan' = [AtomicBegan EXCEPT ![l] = None]
  BY <1>1 DEF AtomicBegan
<1>3. /\ outcome' = [outcome EXCEPT ![l] = answer]
      /\ outcome \in [Loaders -> {None} \union Refusal \union Canvas]
  BY DEF LoadInv, TypeOK, Finish
<1>4. AtomicLoaded' =
        [AtomicLoaded EXCEPT ![l] = IF answer \in Refusal THEN None ELSE answer]
  BY <1>3 DEF AtomicLoaded
<1> QED
  BY <1>2, <1>4

LEMMA StepRefines == LoadInv /\ [Next]_vars => [Atomic!LoadNext]_(Atomic!loadVars)
<1> SUFFICES ASSUME LoadInv, [Next]_vars
    PROVE  Atomic!LoadNext \/ UNCHANGED <<revision, AtomicBegan, AtomicLoaded>>
  BY DEF Atomic!loadVars
<1>1. CASE UNCHANGED <<revision, stage, began, outcome>>
  BY <1>1 DEF AtomicBegan, AtomicLoaded
<1>2. CASE Commit
  <2>1. revision' = revision + 1 /\ UNCHANGED <<AtomicBegan, AtomicLoaded>>
    BY <1>2 DEF Commit, AtomicBegan, AtomicLoaded
  <2> QED
    BY <2>1 DEF Atomic!LoadNext, Atomic!Advance
<1>3. ASSUME NEW l \in Loaders, BeginLoad(l) PROVE Atomic!LoadNext
  <2>1. AtomicBegan[l] = None /\ revision' = revision
    BY <1>3, MappedTypes DEF BeginLoad
  <2>2. AtomicBegan' = [AtomicBegan EXCEPT ![l] = revision]
    BY <1>3 DEF LoadInv, TypeOK, BeginLoad, AtomicBegan
  <2>3. AtomicLoaded' = [AtomicLoaded EXCEPT ![l] = None]
    BY <1>3, LoadAssumption DEF LoadInv, TypeOK, BeginLoad, AtomicLoaded
  <2> QED
    BY <2>1, <2>2, <2>3 DEF Atomic!LoadNext, Atomic!Begin
<1>4. ASSUME NEW l \in Loaders, ReadRoomBefore(l) \/ Retry(l)
      PROVE  UNCHANGED <<revision, AtomicBegan, AtomicLoaded>>
  <2>1. /\ stage[l] # "idle" /\ UNCHANGED <<revision, began, outcome>>
        /\ \A k \in Loaders : stage'[k] = "idle" <=> stage[k] = "idle"
    BY <1>4 DEF LoadInv, TypeOK, ReadRoomBefore, Retry, TablesRead
  <2> QED
    BY <2>1 DEF AtomicBegan, AtomicLoaded
<1>5. ASSUME NEW l \in Loaders, Conclude(l) PROVE Atomic!LoadNext
  <2>1. Finish(l, Atomic!WholeAt(revision)) /\ began[l] <= revision /\ stage[l] # "idle"
    BY <1>5, ConcludesWhole DEF Conclude, TablesRead
  <2>2. Atomic!WholeAt(revision) \notin Refusal
    BY DEF Refusal, Atomic!WholeAt
  <2>3. /\ AtomicBegan' = [AtomicBegan EXCEPT ![l] = None]
        /\ AtomicLoaded' = [AtomicLoaded EXCEPT ![l] = Atomic!WholeAt(revision)]
    BY <2>1, <2>2, FinishMaps
  <2>4. /\ AtomicBegan[l] # None /\ AtomicBegan[l] = began[l]
        /\ began[l] \in Nat /\ revision \in Nat
    BY <2>1, MappedTypes DEF LoadInv, TypeOK
  <2>5. revision \in AtomicBegan[l]..revision
    BY <2>1, <2>4
  <2>6. revision' = revision
    BY <2>1 DEF Finish
  <2> QED
    BY <2>3, <2>4, <2>5, <2>6 DEF Atomic!LoadNext, Atomic!Answer
<1>6. ASSUME NEW l \in Loaders, GiveUp(l) \/ Unavailable(l) PROVE Atomic!LoadNext
  <2>1. PICK answer \in Refusal : Finish(l, answer)
    BY <1>6 DEF GiveUp, Unavailable, Refusal
  <2>2. AtomicBegan[l] # None /\ AtomicLoaded[l] = None
    BY <1>6, MappedTypes DEF GiveUp, Unavailable, TablesRead
  <2>3. /\ AtomicBegan' = [AtomicBegan EXCEPT ![l] = None]
        /\ AtomicLoaded' = [AtomicLoaded EXCEPT ![l] = None]
    BY <2>1, FinishMaps
  <2>4. AtomicLoaded' = AtomicLoaded /\ revision' = revision
    BY <2>1, <2>2, <2>3, MappedTypes DEF Finish, AtomicLoaded
  <2> QED
    BY <2>2, <2>3, <2>4 DEF Atomic!LoadNext, Atomic!Refuse
<1> QED
  BY <1>1, <1>2, <1>3, <1>4, <1>5, <1>6
     DEF Next, Step, Close, ReadObjects, ReadReceipts, vars

(* The load in four requests implements the atomic load.                   *)
THEOREM LoadsAreAtomic == Spec => ImplementsAtomicLoad
<1> QED
  BY InitRefines, StepRefines, LoadInvariant, PTL
     DEF Spec, ImplementsAtomicLoad, Atomic!LoadSpec

-----------------------------------------------------------------------------
(* Borrowed cameras and microphones.                                       *)
(*                                                                         *)
(* Every device that runs is the broker's to close and somebody's, and no  *)
(* borrower's release takes a device from another, for any borrowers and   *)
(* any number of openings.                                                 *)

\* While a device is asked for, none of its kind runs; 0 is no device.
OpeningIsDark ==
  \A k \in Kinds : 0 \notin running[k] /\ (opening[k] => running[k] = {})

\* A borrower asks for the camera or for both, and gets what it asked for.
AsksOneOrBoth ==
  \A b \in Borrowers :
    Waiting(b) => /\ request[b].needs \in {{"video"}, Kinds}
                  /\ \A k \in Kinds : request[b].got[k] # 0 => k \in request[b].needs

\* The counters count the leases.
Holders(k) == { b \in Leases : k \in request[b].needs }

ReferencesCount ==
  \A k \in Kinds :
    IsFiniteSet(Holders(k)) /\ references[k] = Cardinality(Holders(k))

BrokerInv ==
  /\ BrokerTypeOK
  /\ RunningIsHeld /\ OpeningIsDark
  /\ AsksOneOrBoth /\ RunningIsWanted
  /\ ReferencesCount

-----------------------------------------------------------------------------
(* Requests and closing.                                                   *)

LEMMA WaitingType ==
  ASSUME BrokerTypeOK, NEW b \in Borrowers, Waiting(b)
  PROVE  request[b] \in [at : {"waiting"}, needs : SUBSET Kinds, got : [Kinds -> Nat]]
<1>1. request[b] \in Requests
  BY DEF BrokerTypeOK
<1> QED  BY <1>1 DEF Requests, Waiting

LEMMA GoneIsRequest == Gone \in Requests /\ Gone.at = "gone"
  BY DEF Gone, Requests

\* releaseUnusedSources leaves no device running that nobody counts.
LEMMA UnusedIsClosed ==
  ASSUME BrokerTypeOK, RunningIsHeld, NEW refs \in [Kinds -> Nat], CloseUnused(refs)
  PROVE  /\ references' = refs
         /\ source' \in [Kinds -> Nat] /\ running' \in [Kinds -> SUBSET Nat]
         /\ unwanted' \subseteq Kinds
         /\ \A k \in Kinds :
              /\ running'[k] \subseteq running[k]
              /\ IF refs[k] = 0 THEN running'[k] = {}
                                ELSE /\ running'[k] = running[k]
                                     /\ source'[k] = source[k]
                                     /\ k \in unwanted' <=> k \in unwanted
<1>1. \A k \in Kinds : running[k] \subseteq {source[k]}
  BY DEF RunningIsHeld
<1> QED  BY <1>1 DEF CloseUnused, BrokerTypeOK

\* Closing keeps devices accounted, whatever the counters count by then.
LEMMA ClosingAccounts ==
  ASSUME BrokerTypeOK, RunningIsHeld, OpeningIsDark,
         NEW refs \in [Kinds -> Nat], CloseUnused(refs),
         brokerDisposed' = brokerDisposed,
         \A k \in Kinds : opening'[k] => opening[k]
  PROVE  RunningIsHeld' /\ OpeningIsDark' /\ RunningIsWanted'
<1>1. \A k \in Kinds :
        /\ running'[k] \subseteq running[k]
        /\ refs[k] = 0 => running'[k] = {}
        /\ refs[k] # 0 => running'[k] = running[k] /\ source'[k] = source[k]
  BY UnusedIsClosed
<1>2. RunningIsHeld'
  BY <1>1 DEF RunningIsHeld
<1>3. OpeningIsDark'
  BY <1>1 DEF OpeningIsDark
<1>4. RunningIsWanted'
  <2>1. references' = refs
    BY DEF CloseUnused
  <2>2. \A k \in Kinds : refs[k] \in Nat
    OBVIOUS
  <2> QED  BY <1>1, <2>1, <2>2 DEF RunningIsWanted
<1> QED  BY <1>2, <1>3, <1>4

LEMMA CountersType ==
  ASSUME BrokerTypeOK, NEW needs \in SUBSET Kinds
  PROVE  /\ Plus(references, needs) \in [Kinds -> Nat]
         /\ Minus(references, needs) \in [Kinds -> Nat]
  BY DEF Plus, Minus, BrokerTypeOK

\* Leases that neither begin nor end leave the counters right.
LEMMA CountersStay ==
  ASSUME ReferencesCount, references' = references,
         \A k \in Kinds : Holders(k)' = Holders(k)
  PROVE  ReferencesCount'
  BY DEF ReferencesCount

\* Steps that touch only borrowers without a lease leave its holders alone.
LEMMA HoldersStay ==
  ASSUME \A b \in Borrowers : \/ request'[b] = request[b]
                              \/ request[b].at # "leased" /\ request'[b].at # "leased",
         NEW k \in Kinds
  PROVE  Holders(k)' = Holders(k)
  BY DEF Holders, Leases

-----------------------------------------------------------------------------
(* The steps.                                                              *)

LEMMA AcquireStep ==
  ASSUME BrokerInv, NEW b \in Borrowers, NEW needs \in {{"video"}, Kinds},
         Acquire(b, needs)
  PROVE  BrokerInv'
<1> USE DEF BrokerInv
<1>1. CASE brokerDisposed
  <2>1. request' = [request EXCEPT ![b] = Gone] /\ opening' = opening
    BY <1>1 DEF Acquire
  <2>2. BrokerTypeOK'
    BY <2>1, GoneIsRequest DEF Acquire, BrokerTypeOK
  <2>3. \A c \in Borrowers : request'[c] = request[c]
                             \/ (request[c].at = "new" /\ request'[c].at = "gone")
    BY <2>1, GoneIsRequest DEF Acquire, BrokerTypeOK
  <2>4. RunningIsHeld' /\ OpeningIsDark'
    BY <2>1 DEF Acquire, RunningIsHeld, OpeningIsDark
  <2>5. AsksOneOrBoth'
    BY <2>3 DEF AsksOneOrBoth, Waiting
  <2>6. RunningIsWanted'
    BY <2>3 DEF Acquire, RunningIsWanted, Waiting
  <2>7. ReferencesCount'
    BY <2>3, HoldersStay, CountersStay DEF Acquire
  <2> QED  BY <2>2, <2>4, <2>5, <2>6, <2>7
<1>2. CASE ~ brokerDisposed
  <2> DEFINE got == [k \in Kinds |->
                       IF k \in needs /\ Runs(k, source[k]) THEN source[k] ELSE 0]
             asked == [at |-> "waiting", needs |-> needs, got |-> got]
  <2>1. /\ request' = [request EXCEPT ![b] = asked]
        /\ opening' = [k \in Kinds |-> opening[k] \/ (k \in needs /\ got[k] = 0)]
    BY <1>2 DEF Acquire
  <2>2. got \in [Kinds -> Nat] /\ asked \in Requests
    BY DEF BrokerTypeOK, Requests, Kinds
  <2>3. BrokerTypeOK'
    BY <2>1, <2>2 DEF Acquire, BrokerTypeOK
  <2>4. /\ request[b].at = "new" /\ request'[b] = asked
        /\ \A c \in Borrowers \ {b} : request'[c] = request[c]
    BY <2>1 DEF Acquire, BrokerTypeOK
  <2>5. RunningIsHeld'
    BY DEF Acquire, RunningIsHeld
  <2>6. OpeningIsDark'
    <3>1. ASSUME NEW k \in Kinds, k \in needs, got[k] = 0
          PROVE  running[k] = {}
      <4>1. CASE Runs(k, source[k])
        <5>1. source[k] = 0 /\ 0 \in running[k]
          BY <3>1, <4>1 DEF Runs
        <5> QED  BY <5>1 DEF OpeningIsDark
      <4>2. CASE ~ Runs(k, source[k])
        BY <1>2, <4>2 DEF Runs, RunningIsHeld
      <4> QED  BY <4>1, <4>2
    <3> QED  BY <2>1, <3>1 DEF Acquire, OpeningIsDark
  <2>7. AsksOneOrBoth'
    BY <2>4 DEF AsksOneOrBoth, Waiting
  <2>8. RunningIsWanted'
    BY <2>4 DEF Acquire, RunningIsWanted, Waiting
  <2>9. ReferencesCount'
    BY <2>4, HoldersStay, CountersStay DEF Acquire
  <2> QED  BY <2>3, <2>5, <2>6, <2>7, <2>8, <2>9
<1> QED  BY <1>1, <1>2

LEMMA DeviceOpensStep ==
  ASSUME BrokerInv, NEW k \in Kinds, DeviceOpens(k)
  PROVE  BrokerInv'
<1> USE DEF BrokerInv
<1>1. ASSUME NEW b \in WaitingFor(k)
      PROVE  /\ request[b] \in [at : {"waiting"}, needs : SUBSET Kinds, got : [Kinds -> Nat]]
             /\ b \in Borrowers
  BY WaitingType DEF WaitingFor
<1>2. CASE brokerDisposed
  <2>1. /\ request' = [b \in Borrowers |-> IF b \in WaitingFor(k) THEN Gone ELSE request[b]]
        /\ source' = source /\ running' = running /\ unwanted' = unwanted
        /\ opening' = [opening EXCEPT ![k] = FALSE]
    BY <1>2 DEF DeviceOpens
  <2>2. BrokerTypeOK'
    BY <2>1, GoneIsRequest DEF DeviceOpens, BrokerTypeOK
  <2>3. \A b \in Borrowers : request'[b] = request[b]
                             \/ (request[b].at = "waiting" /\ request'[b].at = "gone")
    BY <1>1, <2>1, GoneIsRequest
  <2>4. \A j \in Kinds : running[j] = {}
    BY <1>2 DEF RunningIsHeld
  <2>5. RunningIsHeld' /\ OpeningIsDark' /\ RunningIsWanted'
    BY <2>1, <2>4 DEF RunningIsHeld, OpeningIsDark, RunningIsWanted
  <2>6. AsksOneOrBoth'
    BY <2>3 DEF AsksOneOrBoth, Waiting
  <2>7. ReferencesCount'
    BY <2>3, HoldersStay, CountersStay DEF DeviceOpens
  <2> QED  BY <2>2, <2>5, <2>6, <2>7
<1>3. CASE ~ brokerDisposed
  <2> DEFINE n == opened[k] + 1
  <2>1. /\ opening' = [opening EXCEPT ![k] = FALSE]
        /\ source' = [source EXCEPT ![k] = n]
        /\ running' = [running EXCEPT ![k] = @ \union {n}]
        /\ request' = [b \in Borrowers |-> IF b \in WaitingFor(k)
                                           THEN [request[b] EXCEPT !.got[k] = n]
                                           ELSE request[b]]
        /\ unwanted' = IF WaitingFor(k) = {} THEN unwanted \union {k} ELSE unwanted
        /\ references' = references /\ brokerDisposed' = brokerDisposed
        /\ opened' = [opened EXCEPT ![k] = @ + 1]
    BY <1>3 DEF DeviceOpens
  <2>2. n \in Nat \ {0} /\ running[k] = {} /\ opening[k]
    BY DEF DeviceOpens, OpeningIsDark, BrokerTypeOK
  <2>3. running'[k] = {n} /\ \A j \in Kinds \ {k} : running'[j] = running[j]
    BY <2>1, <2>2 DEF BrokerTypeOK
  <2>4. ASSUME NEW b \in WaitingFor(k)
        PROVE  /\ [request[b] EXCEPT !.got[k] = n] \in Requests
               /\ [request[b] EXCEPT !.got[k] = n].at = "waiting"
               /\ [request[b] EXCEPT !.got[k] = n].needs = request[b].needs
               /\ [request[b] EXCEPT !.got[k] = n].got = [request[b].got EXCEPT ![k] = n]
    BY <1>1, <2>2 DEF Requests
  <2>5. BrokerTypeOK'
    <3>1. request' \in [Borrowers -> Requests]
      BY <2>1, <2>4 DEF BrokerTypeOK
    <3>2. running' \in [Kinds -> SUBSET Nat] /\ source' \in [Kinds -> Nat]
          /\ opened' \in [Kinds -> Nat] /\ opening' \in [Kinds -> BOOLEAN]
      BY <2>1, <2>2 DEF BrokerTypeOK
    <3> QED  BY <2>1, <3>1, <3>2 DEF BrokerTypeOK
  <2>6. RunningIsHeld' /\ OpeningIsDark'
    <3>1. \A j \in Kinds \ {k} : source'[j] = source[j] /\ opening'[j] = opening[j]
      BY <2>1 DEF BrokerTypeOK
    <3>2. source'[k] = n /\ ~ opening'[k]
      BY <2>1 DEF BrokerTypeOK
    <3> QED  BY <1>3, <2>1, <2>2, <2>3, <3>1, <3>2 DEF RunningIsHeld, OpeningIsDark
  <2>7. ASSUME NEW b \in Borrowers
        PROVE  \/ b \notin WaitingFor(k) /\ request'[b] = request[b]
               \/ /\ b \in WaitingFor(k) /\ Waiting(b) /\ Waiting(b)'
                  /\ k \in request[b].needs
                  /\ request'[b].needs = request[b].needs
                  /\ request'[b].got = [request[b].got EXCEPT ![k] = n]
                  /\ request[b].got \in [Kinds -> Nat]
    BY <1>1, <2>1, <2>4 DEF WaitingFor, Waiting
  <2>8. AsksOneOrBoth'
    <3> SUFFICES ASSUME NEW b \in Borrowers, Waiting(b)'
                 PROVE  /\ request'[b].needs \in {{"video"}, Kinds}
                        /\ \A j \in Kinds : request'[b].got[j] # 0 => j \in request'[b].needs
      BY DEF AsksOneOrBoth
    <3>1. Waiting(b)
      BY <2>7 DEF Waiting
    <3>2. /\ request[b].needs \in {{"video"}, Kinds}
          /\ \A j \in Kinds : request[b].got[j] # 0 => j \in request[b].needs
      BY <3>1 DEF AsksOneOrBoth
    <3> QED  BY <2>7, <3>2
  <2>9. RunningIsWanted'
    <3> SUFFICES ASSUME NEW j \in Kinds, running'[j] # {}, j \notin unwanted'
                 PROVE  \/ references'[j] > 0
                        \/ \E b \in Borrowers : Waiting(b)' /\ request'[b].got[j] # 0
      BY DEF RunningIsWanted
    <3>1. CASE j = k
      <4>1. PICK b \in WaitingFor(k) : TRUE
        BY <2>1, <3>1
      <4>2. b \in Borrowers
        BY <4>1, <1>1
      <4>3. Waiting(b)' /\ request'[b].got = [request[b].got EXCEPT ![k] = n]
            /\ request[b].got \in [Kinds -> Nat]
        BY <2>7, <4>1, <4>2
      <4>4. request'[b].got[k] = n
        BY <4>3
      <4> QED  BY <2>2, <3>1, <4>2, <4>3, <4>4
    <3>2. CASE j # k
      <4>1. \/ references[j] > 0
            \/ \E b \in Borrowers : Waiting(b) /\ request[b].got[j] # 0
        BY <2>1, <2>3, <3>2 DEF RunningIsWanted
      <4> QED  BY <2>1, <2>7, <3>2, <4>1 DEF Waiting
    <3> QED  BY <3>1, <3>2
  <2>10. ReferencesCount'
    <3>1. \A b \in Borrowers : \/ request'[b] = request[b]
                               \/ request[b].at # "leased" /\ request'[b].at # "leased"
      BY <2>7 DEF Waiting
    <3> QED  BY <2>1, <3>1, HoldersStay, CountersStay
  <2> QED  BY <2>5, <2>6, <2>8, <2>9, <2>10
<1> QED  BY <1>2, <1>3

LEMMA DeviceRefusedStep ==
  ASSUME BrokerInv, NEW k \in Kinds, DeviceRefused(k)
  PROVE  BrokerInv'
<1> USE DEF BrokerInv
<1>1. /\ request' = [b \in Borrowers |-> IF b \in WaitingFor(k) THEN Gone ELSE request[b]]
      /\ opening' = [opening EXCEPT ![k] = FALSE]
      /\ brokerDisposed' = brokerDisposed /\ opened' = opened
  BY DEF DeviceRefused
<1>2. \A b \in Borrowers :
        \/ b \notin WaitingFor(k) /\ request'[b] = request[b]
        \/ b \in WaitingFor(k) /\ request[b].at = "waiting" /\ request'[b].at = "gone"
  BY <1>1, GoneIsRequest DEF WaitingFor, Waiting
<1>3. opening' \in [Kinds -> BOOLEAN] /\ request' \in [Borrowers -> Requests]
      /\ \A j \in Kinds : opening'[j] => opening[j]
  BY <1>1, GoneIsRequest DEF BrokerTypeOK
<1>4. AsksOneOrBoth'
  BY <1>2 DEF AsksOneOrBoth, Waiting
<1>5. CASE CloseUnused(references)
  <2>1. references \in [Kinds -> Nat]
    BY DEF BrokerTypeOK
  <2>2. BrokerTypeOK'
    BY <1>1, <1>3, <1>5, <2>1, UnusedIsClosed DEF BrokerTypeOK
  <2>3. RunningIsHeld' /\ OpeningIsDark' /\ RunningIsWanted'
    BY <1>1, <1>3, <1>5, <2>1, ClosingAccounts
  <2>4. ReferencesCount'
    BY <1>2, <1>5, HoldersStay, CountersStay DEF CloseUnused
  <2> QED  BY <1>4, <2>2, <2>3, <2>4
<1>6. CASE /\ ~ \E b \in WaitingFor(k) : request[b].needs = Kinds
           /\ UNCHANGED <<references, source, running, unwanted>>
  <2>1. BrokerTypeOK'
    BY <1>1, <1>3, <1>6 DEF BrokerTypeOK
  <2>2. RunningIsHeld' /\ OpeningIsDark'
    BY <1>1, <1>3, <1>6 DEF RunningIsHeld, OpeningIsDark
  \* Who only waits for the camera and is refused has got nothing.
  <2>3. ASSUME NEW b \in WaitingFor(k), NEW j \in Kinds
        PROVE  request[b].got[j] = 0
    <3>1. b \in Borrowers /\ Waiting(b) /\ k \in request[b].needs /\ request[b].got[k] = 0
      BY DEF WaitingFor
    <3>2. request[b].needs = {"video"}
      BY <1>6, <3>1 DEF AsksOneOrBoth
    <3>3. request[b].got[j] # 0 => j = k
      BY <3>1, <3>2 DEF AsksOneOrBoth
    <3> QED  BY <3>1, <3>3
  <2>4. RunningIsWanted'
    BY <1>2, <1>6, <2>3 DEF RunningIsWanted, Waiting
  <2>5. ReferencesCount'
    BY <1>2, <1>6, HoldersStay, CountersStay
  <2> QED  BY <1>4, <2>1, <2>2, <2>4, <2>5
<1> QED  BY <1>5, <1>6 DEF DeviceRefused

\* One lease more, or one less.
LEMMA HoldersGrow ==
  ASSUME BrokerTypeOK, ReferencesCount,
         NEW b \in Borrowers, request[b].at # "leased",
         NEW lease \in Requests, lease.at = "leased",
         request' = [request EXCEPT ![b] = lease],
         references' = Plus(references, lease.needs)
  PROVE  ReferencesCount'
<1> SUFFICES ASSUME NEW k \in Kinds
             PROVE  /\ IsFiniteSet(Holders(k)')
                    /\ references'[k] = Cardinality(Holders(k)')
  BY DEF ReferencesCount
<1>1. IsFiniteSet(Holders(k)) /\ references[k] = Cardinality(Holders(k))
  BY DEF ReferencesCount
<1>2. b \notin Holders(k)
  BY DEF Holders, Leases
<1>3. CASE k \in lease.needs
  <2>1. Holders(k)' = Holders(k) \union {b}
    BY <1>3 DEF Holders, Leases, BrokerTypeOK
  <2>2. references'[k] = references[k] + 1
    BY <1>3 DEF Plus
  <2> HIDE DEF Holders
  <2> QED  BY <1>1, <1>2, <2>1, <2>2, FS_AddElement
<1>4. CASE k \notin lease.needs
  <2>1. Holders(k)' = Holders(k)
    BY <1>4 DEF Holders, Leases, BrokerTypeOK
  <2>2. references'[k] = references[k]
    BY <1>4 DEF Plus
  <2> QED  BY <1>1, <2>1, <2>2
<1> QED  BY <1>3, <1>4

LEMMA HoldersShrink ==
  ASSUME BrokerTypeOK, ReferencesCount, NEW b \in Leases,
         request' = [request EXCEPT ![b] = Gone],
         references' = Minus(references, request[b].needs)
  PROVE  ReferencesCount'
<1> SUFFICES ASSUME NEW k \in Kinds
             PROVE  /\ IsFiniteSet(Holders(k)')
                    /\ references'[k] = Cardinality(Holders(k)')
  BY DEF ReferencesCount
<1>1. IsFiniteSet(Holders(k)) /\ references[k] = Cardinality(Holders(k))
      /\ references[k] \in Nat
  BY DEF ReferencesCount, BrokerTypeOK
<1>2. b \in Borrowers
  BY DEF Leases
<1>3. CASE k \in request[b].needs
  <2>1. Holders(k)' = Holders(k) \ {b} /\ b \in Holders(k)
    BY <1>2, <1>3, GoneIsRequest DEF Holders, Leases, BrokerTypeOK
  <2>2. IsFiniteSet(Holders(k)') /\ Cardinality(Holders(k)') = Cardinality(Holders(k)) - 1
    BY <1>1, <2>1, FS_RemoveElement
  <2>3. Cardinality(Holders(k)) # 0
    BY <1>1, <2>1, FS_EmptySet
  <2>4. references'[k] = references[k] - 1
    BY <1>1, <1>3, <2>3 DEF Minus
  <2> QED  BY <1>1, <2>2, <2>4
<1>4. CASE k \notin request[b].needs
  <2>1. Holders(k)' = Holders(k)
    BY <1>2, <1>4, GoneIsRequest DEF Holders, Leases, BrokerTypeOK
  <2>2. references'[k] = references[k]
    BY <1>4 DEF Minus
  <2> QED  BY <1>1, <2>1, <2>2
<1> QED  BY <1>3, <1>4

LEMMA BorrowerLeaseStep ==
  ASSUME BrokerInv, NEW b \in Borrowers, Lease(b)
  PROVE  BrokerInv'
<1> USE DEF BrokerInv
<1>1. /\ request[b] \in [at : {"waiting"}, needs : SUBSET Kinds, got : [Kinds -> Nat]]
      /\ UNCHANGED <<source, opening, brokerDisposed, running, opened, unwanted>>
  BY WaitingType DEF Lease
<1>2. RunningIsHeld' /\ OpeningIsDark'
  BY <1>1 DEF RunningIsHeld, OpeningIsDark
<1>3. CASE brokerDisposed
  <2>1. request' = [request EXCEPT ![b] = Gone] /\ references' = references
    BY <1>3 DEF Lease
  <2>2. \A c \in Borrowers : request'[c] = request[c]
                             \/ (request[c].at = "waiting" /\ request'[c].at = "gone")
    BY <1>1, <2>1, GoneIsRequest DEF BrokerTypeOK
  <2>3. BrokerTypeOK'
    BY <1>1, <2>1, GoneIsRequest DEF BrokerTypeOK
  <2>4. AsksOneOrBoth'
    BY <2>2 DEF AsksOneOrBoth, Waiting
  <2>5. RunningIsWanted'
    BY <1>1, <1>3 DEF RunningIsWanted, RunningIsHeld
  <2>6. ReferencesCount'
    BY <2>1, <2>2, HoldersStay, CountersStay
  <2> QED  BY <1>2, <2>3, <2>4, <2>5, <2>6
<1>4. CASE ~ brokerDisposed
  <2> DEFINE needs == request[b].needs
             got == request[b].got
             lease == [at |-> "leased", needs |-> needs, got |-> got,
                       whole |-> \A k \in needs : Runs(k, got[k])]
  <2>1. request' = [request EXCEPT ![b] = lease] /\ references' = Plus(references, needs)
    BY <1>4 DEF Lease
  <2>2. lease \in Requests /\ lease.at = "leased" /\ lease.needs = needs
    <3>1. (\A k \in needs : Runs(k, got[k])) \in BOOLEAN
      OBVIOUS
    <3> QED  BY <1>1, <3>1 DEF Requests
  <2> HIDE DEF lease
  <2>3. /\ request'[b] = lease
        /\ \A c \in Borrowers \ {b} : request'[c] = request[c]
    BY <2>1 DEF BrokerTypeOK
  <2>4. BrokerTypeOK'
    BY <1>1, <2>1, <2>2, CountersType DEF BrokerTypeOK
  <2>5. AsksOneOrBoth'
    BY <2>2, <2>3 DEF AsksOneOrBoth, Waiting
  <2>6. RunningIsWanted'
    <3> SUFFICES ASSUME NEW k \in Kinds, running[k] # {}, k \notin unwanted
                 PROVE  \/ references'[k] > 0
                        \/ \E c \in Borrowers : Waiting(c)' /\ request'[c].got[k] # 0
      BY <1>1 DEF RunningIsWanted
    <3>1. references[k] \in Nat /\ references'[k] >= references[k]
          /\ (k \in needs => references'[k] > 0)
      BY <2>1 DEF Plus, BrokerTypeOK
    <3>2. \/ references[k] > 0
          \/ \E c \in Borrowers : Waiting(c) /\ request[c].got[k] # 0
      BY DEF RunningIsWanted
    <3>3. ASSUME NEW c \in Borrowers, Waiting(c), request[c].got[k] # 0
          PROVE  \/ references'[k] > 0
                 \/ Waiting(c)' /\ request'[c].got[k] # 0
      BY <2>3, <3>1, <3>3 DEF AsksOneOrBoth, Waiting
    <3>4. references'[k] \in Nat
      BY <2>4 DEF BrokerTypeOK
    <3> QED  BY <3>1, <3>2, <3>3, <3>4
  <2>7. ReferencesCount'
    BY <1>1, <2>1, <2>2, HoldersGrow
  <2> QED  BY <1>2, <2>4, <2>5, <2>6, <2>7
<1> QED  BY <1>3, <1>4

LEMMA ReleaseStep ==
  ASSUME BrokerInv, NEW b \in Borrowers, Release(b)
  PROVE  BrokerInv'
<1> USE DEF BrokerInv
<1> DEFINE refs == Minus(references, request[b].needs)
<1>1. /\ b \in Leases /\ CloseUnused(refs)
      /\ request' = [request EXCEPT ![b] = Gone]
      /\ UNCHANGED <<opening, brokerDisposed, opened>>
  BY DEF Release
<1>2. refs \in [Kinds -> Nat]
  BY DEF Minus, BrokerTypeOK
<1> HIDE DEF refs
<1>3. BrokerTypeOK'
  BY <1>1, <1>2, GoneIsRequest, UnusedIsClosed DEF BrokerTypeOK
<1>4. RunningIsHeld' /\ OpeningIsDark' /\ RunningIsWanted'
  BY <1>1, <1>2, ClosingAccounts
<1>5. AsksOneOrBoth'
  BY <1>1, GoneIsRequest DEF AsksOneOrBoth, Waiting, BrokerTypeOK
<1>6. ReferencesCount'
  BY <1>1, HoldersShrink DEF CloseUnused, refs
<1> QED  BY <1>3, <1>4, <1>5, <1>6

LEMMA DisposeStep ==
  ASSUME BrokerInv, DisposeBroker
  PROVE  BrokerInv'
<1> USE DEF BrokerInv
<1> DEFINE refs == [k \in Kinds |-> 0]
<1>1. /\ request' = [b \in Borrowers |-> IF b \in Leases THEN Gone ELSE request[b]]
      /\ CloseUnused(refs) /\ brokerDisposed' = TRUE
      /\ UNCHANGED <<opening, opened>>
  BY DEF DisposeBroker
<1>2. refs \in [Kinds -> Nat] /\ \A k \in Kinds : refs[k] = 0
  OBVIOUS
<1> HIDE DEF refs
<1>3. /\ references' = refs
      /\ \A k \in Kinds : running'[k] = {}
      /\ source' \in [Kinds -> Nat] /\ running' \in [Kinds -> SUBSET Nat]
      /\ unwanted' \subseteq Kinds
  BY <1>1, <1>2, UnusedIsClosed
<1>4. \A b \in Borrowers : \/ request'[b] = request[b] /\ request[b].at # "leased"
                           \/ request'[b].at = "gone"
  BY <1>1, GoneIsRequest DEF Leases
<1>5. BrokerTypeOK'
  BY <1>1, <1>2, <1>3, GoneIsRequest DEF BrokerTypeOK
<1>6. RunningIsHeld' /\ OpeningIsDark' /\ RunningIsWanted'
  BY <1>3 DEF RunningIsHeld, OpeningIsDark, RunningIsWanted
<1>7. AsksOneOrBoth'
  BY <1>4 DEF AsksOneOrBoth, Waiting
<1>8. ReferencesCount'
  <2>1. \A k \in Kinds : Holders(k)' = {}
    BY <1>4 DEF Holders, Leases
  <2>2. IsFiniteSet({}) /\ Cardinality({}) = 0
    BY FS_EmptySet
  <2> QED  BY <1>2, <1>3, <2>1, <2>2 DEF ReferencesCount
<1> QED  BY <1>5, <1>6, <1>7, <1>8

LEMMA TrackEndsStep ==
  ASSUME BrokerInv, NEW k \in Kinds, TrackEnds(k)
  PROVE  BrokerInv'
<1> USE DEF BrokerInv
<1>1. /\ running'[k] = {}
      /\ \A j \in Kinds \ {k} : running'[j] = running[j]
      /\ UNCHANGED <<source, opening, references, brokerDisposed, request, opened, unwanted>>
  BY DEF TrackEnds, BrokerTypeOK
<1>2. BrokerTypeOK'
  BY <1>1 DEF TrackEnds, BrokerTypeOK
<1>3. RunningIsHeld' /\ OpeningIsDark'
  BY <1>1 DEF RunningIsHeld, OpeningIsDark
<1>4. AsksOneOrBoth' /\ RunningIsWanted'
  BY <1>1 DEF AsksOneOrBoth, RunningIsWanted, Waiting
<1>5. ReferencesCount'
  BY <1>1, HoldersStay, CountersStay
<1> QED  BY <1>2, <1>3, <1>4, <1>5

-----------------------------------------------------------------------------
(* The theorems.                                                           *)

LEMMA BrokerStarts ==
  ASSUME BrokerInit
  PROVE  BrokerInv
<1>1. BrokerTypeOK
  BY DEF BrokerInit, BrokerTypeOK, Requests
<1>2. RunningIsHeld /\ OpeningIsDark /\ AsksOneOrBoth /\ RunningIsWanted
  BY DEF BrokerInit, RunningIsHeld, OpeningIsDark, AsksOneOrBoth, Waiting, RunningIsWanted
<1>3. ReferencesCount
  <2>1. \A k \in Kinds : Holders(k) = {}
    BY DEF BrokerInit, Holders, Leases
  <2>2. IsFiniteSet({}) /\ Cardinality({}) = 0
    BY FS_EmptySet
  <2> QED  BY <2>1, <2>2 DEF BrokerInit, ReferencesCount
<1> QED  BY <1>1, <1>2, <1>3 DEF BrokerInv

LEMMA BrokerStutters ==
  ASSUME BrokerInv, UNCHANGED brokerVars
  PROVE  BrokerInv'
<1>1. ReferencesCount'
  BY HoldersStay, CountersStay DEF BrokerInv, brokerVars
<1>2. BrokerTypeOK' /\ RunningIsHeld' /\ OpeningIsDark' /\ AsksOneOrBoth' /\ RunningIsWanted'
  BY DEF BrokerInv, brokerVars, BrokerTypeOK, RunningIsHeld, OpeningIsDark, AsksOneOrBoth,
         RunningIsWanted, Waiting
<1> QED  BY <1>1, <1>2 DEF BrokerInv

LEMMA BrokerSteps ==
  ASSUME BrokerInv, [BrokerNext]_brokerVars
  PROVE  BrokerInv'
<1>1. \A b \in Borrowers : Acquire(b, {"video"}) \/ Acquire(b, Kinds) => BrokerInv'
  BY AcquireStep
<1> QED
  BY <1>1, BorrowerLeaseStep, ReleaseStep, DeviceOpensStep, DeviceRefusedStep, TrackEndsStep,
     DisposeStep, BrokerStutters DEF BrokerNext

(* The invariant holds in every step of borrowers and devices              *)
(* (createLocalMediaBroker).                                               *)
THEOREM BrokerInvariant == BrokerSpec => []BrokerInv
<1>1. BrokerInit => BrokerInv
  BY BrokerStarts
<1>2. BrokerInv /\ [BrokerNext]_brokerVars => BrokerInv'
  BY BrokerSteps
<1> QED  BY <1>1, <1>2, PTL DEF BrokerSpec

(* A device that runs is the broker's to close, and somebody leases or     *)
(* awaits it, but for the one case that the property sets apart            *)
(* (releaseUnusedSources, dispose).                                        *)
THEOREM DevicesAlwaysAccounted == BrokerSpec => []DevicesAccounted
<1>1. BrokerInv => DevicesAccounted
  BY DEF BrokerInv, DevicesAccounted
<1> QED  BY <1>1, BrokerInvariant, PTL

(* No step but the end of the device itself takes a running track from     *)
(* under a lease: a source is closed only when its counter is 0, and the   *)
(* counter counts this lease (videoReferences, audioReferences).           *)
THEOREM LeasesAlwaysKeepTracks == BrokerSpec => LeasesKeepTheirTracks
<1> DEFINE KeepTracks ==
      \A k \in Kinds : \A b \in Borrowers :
        /\ b \in Leases /\ b \in Leases' /\ k \in request[b].needs
        /\ Runs(k, request[b].got[k]) /\ ~Runs(k, request[b].got[k])'
        => TrackEnds(k)
<1>1. BrokerInv /\ [BrokerNext]_brokerVars => KeepTracks
  <2> SUFFICES ASSUME BrokerInv, [BrokerNext]_brokerVars,
                      NEW k \in Kinds, NEW b \in Borrowers,
                      b \in Leases, b \in Leases', k \in request[b].needs,
                      Runs(k, request[b].got[k]), ~Runs(k, request[b].got[k])'
               PROVE  TrackEnds(k)
    OBVIOUS
  <2> USE DEF BrokerInv
  <2>1. ASSUME request'[b] = request[b]
        PROVE  ~ (running[k] \subseteq running'[k])
    BY <2>1 DEF Runs
  <2>2. references[k] > 0
    <3>1. b \in Holders(k)
      BY DEF Holders
    <3>2. Cardinality(Holders(k)) # 0
      BY <3>1, FS_EmptySet DEF ReferencesCount
    <3> QED  BY <3>2 DEF ReferencesCount, BrokerTypeOK
  <2>3. request[b].at = "leased" /\ request'[b].at = "leased"
    BY DEF Leases
  <2>4. ASSUME NEW c \in Borrowers,
               Acquire(c, {"video"}) \/ Acquire(c, Kinds) \/ Lease(c)
        PROVE  FALSE
    <3>1. request[c].at # "leased" /\ \A d \in Borrowers \ {c} : request'[d] = request[d]
      BY <2>4 DEF Acquire, Lease, Waiting, BrokerTypeOK
    <3> QED  BY <2>1, <2>3, <2>4, <3>1 DEF Acquire, Lease
  <2>5. ASSUME NEW c \in Borrowers, Release(c)
        PROVE  FALSE
    <3>1. /\ request' = [request EXCEPT ![c] = Gone] /\ c \in Leases
          /\ CloseUnused(Minus(references, request[c].needs))
      BY <2>5 DEF Release
    <3>2. c # b
      BY <2>3, <3>1, GoneIsRequest DEF BrokerTypeOK
    <3>3. request'[b] = request[b]
      BY <3>1, <3>2 DEF BrokerTypeOK
    <3>4. Minus(references, request[c].needs) \in [Kinds -> Nat]
      BY DEF Minus, BrokerTypeOK
    <3>5. Minus(references, request[c].needs)[k] # 0
      <4>1. references'[k] = Cardinality(Holders(k)') /\ IsFiniteSet(Holders(k)')
        BY <2>5, ReleaseStep DEF ReferencesCount
      <4>2. b \in Holders(k)'
        BY <3>3 DEF Holders
      <4>3. references'[k] # 0
        BY <4>1, <4>2, FS_EmptySet
      <4> QED  BY <3>1, <4>3 DEF CloseUnused
    <3> QED  BY <2>1, <3>1, <3>3, <3>4, <3>5, UnusedIsClosed
  <2>6. ASSUME NEW j \in Kinds, DeviceOpens(j)
        PROVE  FALSE
    <3>1. b \notin WaitingFor(j)
      BY <2>3 DEF WaitingFor, Waiting
    <3>2. request'[b] = request[b] /\ running[k] \subseteq running'[k]
      BY <2>6, <3>1 DEF DeviceOpens, BrokerTypeOK
    <3> QED  BY <2>1, <3>2
  <2>7. ASSUME NEW j \in Kinds, DeviceRefused(j)
        PROVE  FALSE
    <3>1. b \notin WaitingFor(j)
      BY <2>3 DEF WaitingFor, Waiting
    <3>2. request'[b] = request[b]
      BY <2>7, <3>1 DEF DeviceRefused
    <3>3. references \in [Kinds -> Nat] /\ references[k] # 0
      BY <2>2 DEF BrokerTypeOK
    <3>4. running'[k] = running[k]
      BY <2>7, <3>3, UnusedIsClosed DEF DeviceRefused
    <3> QED  BY <2>1, <3>2, <3>4
  <2>8. ASSUME DisposeBroker
        PROVE  FALSE
    <3>1. request'[b] = Gone
      BY <2>8 DEF DisposeBroker
    <3> QED  BY <2>3, <3>1, GoneIsRequest
  <2>9. ASSUME NEW j \in Kinds, TrackEnds(j)
        PROVE  TrackEnds(k)
    <3>1. CASE j = k
      BY <2>9, <3>1
    <3>2. CASE j # k
      <4>1. request'[b] = request[b] /\ running'[k] = running[k]
        BY <2>9, <3>2 DEF TrackEnds, BrokerTypeOK
      <4> QED  BY <2>1, <4>1
    <3> QED  BY <3>1, <3>2
  <2>10. CASE UNCHANGED brokerVars
    BY <2>1, <2>10 DEF brokerVars
  <2> QED
    BY <2>4, <2>5, <2>6, <2>7, <2>8, <2>9, <2>10 DEF BrokerNext
<1>2. BrokerInv /\ [BrokerNext]_brokerVars => [KeepTracks]_brokerVars
  BY <1>1
<1> QED  BY <1>2, BrokerInvariant, PTL DEF BrokerSpec, LeasesKeepTheirTracks

-----------------------------------------------------------------------------
(* Paid calls of the vision transforms.                                    *)
(*                                                                         *)
(* One paid call of a room at a time, one answer for a sketch and no more  *)
(* spent in a day than allowed, for any calls, actors, rooms, keys, limits *)
(* and spans.  A call within its lease still holds its row, since whoever  *)
(* is admitted has read a clock that has not passed the lease either.      *)

ClockWasRead ==
  \A c \in Calls : call[c].at \in {"admitting", "calling"} => call[c].stamp =< clock

\* A call within its lease is the holder of its row, unless its room is gone.
LeaseIsHeld ==
  \A c \in Calls :
    InLease(c) /\ rooms[RoomOf[call[c].key]] # "deleted"
    => /\ Holds(c, call[c].key)
       /\ admission[call[c].key].expires = call[c].stamp + LeaseLength

OneActiveRow ==
  \A k, l \in Keys :
    admission[k].status = "active" /\ admission[l].status = "active"
      /\ RoomOf[k] = RoomOf[l]
    => k = l

\* Who was answered was given the recorded result, which is never replaced.
Recorded(k, t) == admission[k].status = "completed" /\ admission[k].token = t

AnswersAreRecorded ==
  \A k \in Keys :
    \/ answers[k] = {}
    \/ \E t \in Calls : /\ answers[k] = {t}
                        /\ rooms[RoomOf[k]] = "deleted" \/ Recorded(k, t)

\* The bound on what is spent, on any day: none is exempt.
DayBounded(d) ==
  /\ Cardinality(SpentOn(d)) =< PerDay
  /\ \A a \in Actors : Cardinality({ u \in SpentOn(d) : u.actor = a }) =< PerActorDay

SpendBounded == IsFiniteSet(usage) /\ \A d \in Nat : DayBounded(d)

VisionInv ==
  /\ VisionTypeOK /\ ClockWasRead
  /\ LeaseIsHeld /\ OneActiveRow
  /\ AnswersAreRecorded
  /\ SpendBounded

-----------------------------------------------------------------------------
(* Calls and rows.                                                         *)

LEMMA CallType ==
  ASSUME VisionTypeOK, NEW c \in Calls, call[c].at \in {"admitting", "calling"}
  PROVE  /\ call[c] \in [at : {"admitting", "calling"}, actor : Actors, key : Keys,
                         stamp : Nat]
         /\ RoomOf[call[c].key] \in VisionRooms
<1>1. call[c] \in Progress
  BY DEF VisionTypeOK
<1>2. call[c] \in [at : {"admitting", "calling"}, actor : Actors, key : Keys, stamp : Nat]
  BY <1>1 DEF Progress
<1> QED  BY <1>2, VisionAssumption DEF VisionAssumption

LEMMA ActiveRow ==
  ASSUME NEW row \in Rows, row.status # "none"
  PROVE  row \in [status : {"active", "released", "completed"}, actor : Actors,
                  token : Calls, expires : Nat]
  BY DEF Rows, NoRow

\* Ending expired leases touches active rows of the room alone.
LEMMA ExpiredRows ==
  ASSUME VisionTypeOK, NEW room, NEW stamp \in Nat
  PROVE  /\ Expired(room, stamp) \in [Keys -> Rows]
         /\ \A k \in Keys :
              \/ Expired(room, stamp)[k] = admission[k]
              \/ /\ RoomOf[k] = room /\ admission[k].status = "active"
                 /\ admission[k].expires =< stamp
                 /\ Expired(room, stamp)[k].status = "released"
<1>1. ASSUME NEW k \in Keys, admission[k].status = "active"
      PROVE  /\ [admission[k] EXCEPT !.status = "released"] \in Rows
             /\ [admission[k] EXCEPT !.status = "released"].status = "released"
  <2>1. admission[k] \in Rows
    BY DEF VisionTypeOK
  <2>2. admission[k] \in [status : {"active", "released", "completed"}, actor : Actors,
                          token : Calls, expires : Nat]
    BY <1>1, <2>1, ActiveRow
  <2> QED  BY <2>2 DEF Rows
<1>2. ASSUME NEW k \in Keys
      PROVE  admission[k] \in Rows
  BY DEF VisionTypeOK
<1> QED  BY <1>1, <1>2 DEF Expired

\* Its own row apart, an admission is an expiry.
LEMMA AdmittedRow ==
  ASSUME VisionTypeOK, NEW c \in Calls, Admit(c)
  PROVE  /\ admission'[call[c].key].status = "active"
         /\ admission'[call[c].key].token = c
         /\ admission'[call[c].key].expires = call[c].stamp + LeaseLength
         /\ \A k \in Keys : k # call[c].key
              => admission'[k] = Expired(RoomOf[call[c].key], call[c].stamp)[k]
         /\ admission' \in [Keys -> Rows]
<1>1. /\ call[c].key \in Keys /\ call[c].actor \in Actors /\ call[c].stamp \in Nat
      /\ call[c].stamp + LeaseLength \in Nat
  BY CallType, VisionAssumption DEF Admit, VisionAssumption
<1>2. Expired(RoomOf[call[c].key], call[c].stamp) \in [Keys -> Rows]
  BY <1>1, ExpiredRows
<1>3. [status |-> "active", actor |-> call[c].actor, token |-> c,
       expires |-> call[c].stamp + LeaseLength] \in Rows
  BY <1>1 DEF Rows
<1>4. admission' = [Expired(RoomOf[call[c].key], call[c].stamp) EXCEPT ![call[c].key] =
                      [status |-> "active", actor |-> call[c].actor, token |-> c,
                       expires |-> call[c].stamp + LeaseLength]]
  BY DEF Admit
<1> QED  BY <1>1, <1>2, <1>3, <1>4

\* What an admission has found out.
LEMMA AdmittedVerdict ==
  ASSUME NEW c \in Calls, Admit(c)
  PROVE  /\ rooms[RoomOf[call[c].key]] # "deleted"
         /\ Expired(RoomOf[call[c].key], call[c].stamp)[call[c].key].status # "completed"
         /\ ~ Busy(RoomOf[call[c].key], Expired(RoomOf[call[c].key], call[c].stamp))
  BY DEF Admit, Verdict

-----------------------------------------------------------------------------
(* Types.                                                                  *)

LEMMA ProgressSteps ==
  ASSUME VisionTypeOK, NEW c \in Calls, NEW p \in Progress
  PROVE  [call EXCEPT ![c] = p] \in [Calls -> Progress]
  BY DEF VisionTypeOK

LEMMA OverIsProgress == Over \in Progress
  BY DEF Over, Progress

LEMMA TypeStep ==
  ASSUME VisionTypeOK, VisionNext
  PROVE  VisionTypeOK'
<1>1. ASSUME NEW c \in Calls, NEW actor \in Actors, NEW key \in Keys,
             AskAdmission(c, actor, key)
      PROVE  VisionTypeOK'
  <2>1. [at |-> "admitting", actor |-> actor, key |-> key, stamp |-> clock] \in Progress
    BY DEF Progress, VisionTypeOK
  <2>2. call' \in [Calls -> Progress]
    BY <1>1, <2>1, ProgressSteps DEF AskAdmission
  <2> QED  BY <1>1, <2>2 DEF AskAdmission, VisionTypeOK
<1>2. ASSUME NEW c \in Calls, Refuse(c) \/ Crash(c)
      PROVE  VisionTypeOK'
  <2>1. call' \in [Calls -> Progress]
    BY <1>2, ProgressSteps, OverIsProgress DEF Refuse, Crash
  <2> QED  BY <1>2, <2>1 DEF Refuse, Crash, VisionTypeOK
<1>3. ASSUME NEW c \in Calls, Deny(c)
      PROVE  VisionTypeOK'
  <2>1. call' \in [Calls -> Progress]
    BY <1>3, ProgressSteps, OverIsProgress DEF Deny
  <2>2. admission' \in [Keys -> Rows]
    BY <1>3, CallType, ExpiredRows DEF Deny
  <2> QED  BY <1>3, <2>1, <2>2 DEF Deny, VisionTypeOK
<1>4. ASSUME NEW c \in Calls, AnswerCached(c)
      PROVE  VisionTypeOK'
  <2>1. call' \in [Calls -> Progress]
    BY <1>4, ProgressSteps, OverIsProgress DEF AnswerCached
  <2>2. /\ call[c].key \in Keys /\ call[c].stamp \in Nat
        /\ admission' \in [Keys -> Rows]
    BY <1>4, CallType, ExpiredRows DEF AnswerCached
  <2>3. Expired(RoomOf[call[c].key], call[c].stamp)[call[c].key].status = "completed"
    BY <1>4 DEF AnswerCached, Verdict
  <2>4. admission[call[c].key].status = "completed"
    BY <2>2, <2>3, ExpiredRows
  <2>5. admission[call[c].key].token \in Calls
    BY <2>2, <2>4, ActiveRow DEF VisionTypeOK
  <2>6. answers' \in [Keys -> SUBSET Calls]
    BY <1>4, <2>2, <2>5 DEF AnswerCached, VisionTypeOK
  <2> QED  BY <1>4, <2>1, <2>2, <2>6 DEF AnswerCached, VisionTypeOK
<1>5. ASSUME NEW c \in Calls, Admit(c)
      PROVE  VisionTypeOK'
  <2>1. /\ call[c] \in [at : {"admitting", "calling"}, actor : Actors, key : Keys,
                        stamp : Nat]
        /\ RoomOf[call[c].key] \in VisionRooms
    BY <1>5, CallType DEF Admit
  <2>2. [call[c] EXCEPT !.at = "calling"] \in Progress
    BY <2>1 DEF Progress
  <2>3. call' \in [Calls -> Progress]
    BY <1>5, <2>2 DEF Admit, VisionTypeOK
  <2>4. attempts' \subseteq Attempt
    BY <1>5, <2>1 DEF Admit, VisionTypeOK, Attempt
  <2>5. usage' \subseteq Use
    <3>1. PICK today \in Days(c) :
            usage' = usage \union
              {[call |-> c, actor |-> call[c].actor, at |-> call[c].stamp, ran |-> today]}
      BY <1>5 DEF Admit
    <3>2. Days(c) \subseteq Nat
      BY <2>1, VisionAssumption DEF Days, DayOf, VisionAssumption, VisionTypeOK
    <3> QED  BY <2>1, <3>1, <3>2 DEF Use, VisionTypeOK
  <2>6. admission' \in [Keys -> Rows]
    BY <1>5, AdmittedRow
  <2> QED  BY <1>5, <2>3, <2>4, <2>5, <2>6 DEF Admit, VisionTypeOK
<1>6. ASSUME NEW c \in Calls, Complete(c) \/ ReleaseLease(c)
      PROVE  VisionTypeOK'
  <2>1. call' \in [Calls -> Progress]
    BY <1>6, ProgressSteps, OverIsProgress DEF Complete, ReleaseLease
  <2>2. call[c].key \in Keys
    BY <1>6, CallType DEF Complete, ReleaseLease
  <2>3. ASSUME NEW status \in {"completed", "released"}, Holds(c, call[c].key)
        PROVE  [admission EXCEPT ![call[c].key].status = status] \in [Keys -> Rows]
    <3>1. admission[call[c].key] \in
            [status : {"active", "released", "completed"}, actor : Actors,
             token : Calls, expires : Nat]
      BY <2>2, <2>3, ActiveRow DEF Holds, VisionTypeOK
    <3>2. [admission[call[c].key] EXCEPT !.status = status] \in Rows
      BY <3>1 DEF Rows
    <3> QED  BY <3>2 DEF VisionTypeOK
  <2>4. admission' \in [Keys -> Rows]
    BY <1>6, <2>3 DEF Complete, ReleaseLease, VisionTypeOK
  <2>5. answers' \in [Keys -> SUBSET Calls]
    BY <1>6, <2>2 DEF Complete, ReleaseLease, VisionTypeOK
  <2> QED  BY <1>6, <2>1, <2>4, <2>5 DEF Complete, ReleaseLease, VisionTypeOK
<1>7. ASSUME \/ Tick
             \/ \E k \in Keys : SketchChanges(k)
             \/ \E r \in VisionRooms : RoomExpires(r)
      PROVE  VisionTypeOK'
  BY <1>7 DEF Tick, SketchChanges, RoomExpires, Upset, VisionTypeOK
<1>8. ASSUME NEW r \in VisionRooms, RoomDeleted(r)
      PROVE  VisionTypeOK'
  <2>1. admission' \in [Keys -> Rows]
    BY <1>8 DEF RoomDeleted, Rows, VisionTypeOK
  <2>2. upsets' \in Nat /\ rooms' \in [VisionRooms -> {"open", "expired", "deleted"}]
        /\ attempts' \subseteq Attempt
    BY <1>8 DEF RoomDeleted, Upset, VisionTypeOK
  <2> QED  BY <1>8, <2>1, <2>2 DEF RoomDeleted, VisionTypeOK
<1> QED
  BY <1>1, <1>2, <1>3, <1>4, <1>5, <1>6, <1>7, <1>8 DEF VisionNext

-----------------------------------------------------------------------------
(* The clock and the leases.                                               *)

\* No call but c moves, and c does not start to call the provider.
LEMMA CallEnds ==
  ASSUME VisionTypeOK, NEW c \in Calls, call' = [call EXCEPT ![c] = Over]
  PROVE  /\ call'[c].at = "over"
         /\ \A d \in Calls \ {c} : call'[d] = call[d]
  BY DEF VisionTypeOK, Over

LEMMA ClockStep ==
  ASSUME VisionTypeOK, ClockWasRead, VisionNext
  PROVE  ClockWasRead'
<1>1. ASSUME NEW c \in Calls, NEW actor \in Actors, NEW key \in Keys,
             AskAdmission(c, actor, key)
      PROVE  ClockWasRead'
  BY <1>1 DEF AskAdmission, ClockWasRead, VisionTypeOK
<1>2. ASSUME NEW c \in Calls,
             \/ Refuse(c) \/ Deny(c) \/ AnswerCached(c)
             \/ Complete(c) \/ ReleaseLease(c) \/ Crash(c)
      PROVE  ClockWasRead'
  <2>1. call' = [call EXCEPT ![c] = Over] /\ clock' = clock
    BY <1>2 DEF Refuse, Deny, AnswerCached, Complete, ReleaseLease, Crash
  <2> QED  BY <2>1, CallEnds DEF ClockWasRead
<1>3. ASSUME NEW c \in Calls, Admit(c)
      PROVE  ClockWasRead'
  <2>1. call'[c].stamp = call[c].stamp /\ \A d \in Calls \ {c} : call'[d] = call[d]
    BY <1>3, CallType DEF Admit, VisionTypeOK
  <2> QED  BY <1>3, <2>1 DEF Admit, ClockWasRead
<1>4. ASSUME Tick
      PROVE  ClockWasRead'
  <2>1. ASSUME NEW c \in Calls, call[c].at \in {"admitting", "calling"}
        PROVE  call[c].stamp \in Nat
    BY <2>1, CallType
  <2> QED  BY <1>4, <2>1 DEF Tick, ClockWasRead, VisionTypeOK
<1>5. ASSUME \/ \E k \in Keys : SketchChanges(k)
             \/ \E r \in VisionRooms : RoomExpires(r) \/ RoomDeleted(r)
      PROVE  ClockWasRead'
  BY <1>5 DEF SketchChanges, RoomExpires, RoomDeleted, ClockWasRead
<1> QED
  BY <1>1, <1>2, <1>3, <1>4, <1>5 DEF VisionNext

\* A row that stays as it is, or ends, endangers no other.
LEMMA RowsEnd ==
  ASSUME OneActiveRow,
         \A k \in Keys : admission'[k] = admission[k] \/ admission'[k].status # "active"
  PROVE  OneActiveRow'
  BY DEF OneActiveRow

\* A step keeps the leases when nobody enters one, and the rows of those who
\* are in theirs stay as they are.
LEMMA LeasesStay ==
  ASSUME VisionTypeOK, LeaseIsHeld, clock' \in Nat, clock =< clock',
         \A d \in Calls : call'[d].at = "calling" => call'[d] = call[d],
         \A r \in VisionRooms : rooms[r] = "deleted" => rooms'[r] = "deleted",
         \A d \in Calls :
           /\ call'[d] = call[d] /\ InLease(d)
           /\ rooms'[RoomOf[call[d].key]] # "deleted"
           /\ Holds(d, call[d].key)
           /\ admission[call[d].key].expires = call[d].stamp + LeaseLength
           => admission'[call[d].key] = admission[call[d].key]
  PROVE  LeaseIsHeld'
<1> SUFFICES ASSUME NEW d \in Calls, InLease(d)',
                    rooms'[RoomOf[call'[d].key]] # "deleted"
             PROVE  /\ Holds(d, call[d].key)'
                    /\ admission'[call'[d].key].expires = call'[d].stamp + LeaseLength
  BY DEF LeaseIsHeld
<1>1. call'[d] = call[d] /\ call[d].at = "calling"
  BY DEF InLease
<1>2. call[d].stamp \in Nat /\ RoomOf[call[d].key] \in VisionRooms
  BY <1>1, CallType
<1>3. InLease(d)
  BY <1>1, <1>2, VisionAssumption DEF InLease, VisionAssumption, VisionTypeOK
<1>4. rooms[RoomOf[call[d].key]] # "deleted"
  BY <1>1, <1>2
<1>5. /\ Holds(d, call[d].key)
      /\ admission[call[d].key].expires = call[d].stamp + LeaseLength
  BY <1>3, <1>4 DEF LeaseIsHeld
<1>6. admission'[call[d].key] = admission[call[d].key]
  BY <1>1, <1>3, <1>5
<1> QED  BY <1>1, <1>5, <1>6 DEF Holds

\* Whoever reads the clock ends no lease that the clock has not passed.
LEMMA ExpirySparesLeases ==
  ASSUME VisionTypeOK, ClockWasRead,
         NEW c \in Calls, call[c].at = "admitting",
         NEW d \in Calls, InLease(d),
         admission[call[d].key].expires = call[d].stamp + LeaseLength
  PROVE  Expired(RoomOf[call[c].key], call[c].stamp)[call[d].key]
           = admission[call[d].key]
<1>1. /\ call[c].stamp \in Nat /\ call[c].stamp =< clock
      /\ call[d].stamp \in Nat /\ call[d].key \in Keys
      /\ clock < call[d].stamp + LeaseLength
  BY CallType DEF ClockWasRead, InLease
<1>2. ~ admission[call[d].key].expires =< call[c].stamp
  BY <1>1, VisionAssumption DEF VisionAssumption, VisionTypeOK
<1> QED  BY <1>1, <1>2, ExpiredRows

LEMMA LeaseStep ==
  ASSUME VisionTypeOK, ClockWasRead, LeaseIsHeld, OneActiveRow, VisionNext
  PROVE  LeaseIsHeld' /\ OneActiveRow'
<1>1. ASSUME NEW c \in Calls, NEW actor \in Actors, NEW key \in Keys,
             AskAdmission(c, actor, key)
      PROVE  LeaseIsHeld' /\ OneActiveRow'
  <2>1. clock' \in Nat /\ clock =< clock'
    BY <1>1 DEF AskAdmission, VisionTypeOK
  <2>2. \A d \in Calls : call'[d].at = "calling" => call'[d] = call[d]
    BY <1>1 DEF AskAdmission, VisionTypeOK
  <2> QED
    BY <1>1, <2>1, <2>2, LeasesStay, RowsEnd DEF AskAdmission
<1>2. ASSUME NEW c \in Calls, Refuse(c) \/ Crash(c)
      PROVE  LeaseIsHeld' /\ OneActiveRow'
  <2>1. /\ call' = [call EXCEPT ![c] = Over]
        /\ clock' = clock /\ rooms' = rooms /\ admission' = admission
    BY <1>2 DEF Refuse, Crash
  <2>2. clock' \in Nat /\ clock =< clock'
    BY <2>1 DEF VisionTypeOK
  <2> QED  BY <2>1, <2>2, CallEnds, LeasesStay, RowsEnd
<1>3. ASSUME NEW c \in Calls, Deny(c) \/ AnswerCached(c)
      PROVE  LeaseIsHeld' /\ OneActiveRow'
  <2>1. /\ call' = [call EXCEPT ![c] = Over]
        /\ clock' = clock /\ rooms' = rooms /\ call[c].at = "admitting"
        /\ admission' = Expired(RoomOf[call[c].key], call[c].stamp)
    BY <1>3 DEF Deny, AnswerCached
  <2>2. clock' \in Nat /\ clock =< clock' /\ call[c].stamp \in Nat
    BY <2>1, CallType DEF VisionTypeOK
  <2>3. OneActiveRow'
    <3>1. \A k \in Keys : admission'[k] = admission[k] \/ admission'[k].status # "active"
      BY <2>1, <2>2, ExpiredRows
    <3> QED  BY <3>1, RowsEnd
  <2>4. \A d \in Calls :
          InLease(d) /\ admission[call[d].key].expires = call[d].stamp + LeaseLength
          => admission'[call[d].key] = admission[call[d].key]
    BY <2>1, ExpirySparesLeases
  <2> QED  BY <2>1, <2>2, <2>3, <2>4, CallEnds, LeasesStay
<1>4. ASSUME NEW c \in Calls, Admit(c)
      PROVE  LeaseIsHeld' /\ OneActiveRow'
  <2> DEFINE key == call[c].key
  <2>1. /\ key \in Keys /\ call[c].stamp \in Nat /\ call[c].at = "admitting"
        /\ RoomOf[key] \in VisionRooms
    BY <1>4, CallType DEF Admit
  <2>2. /\ clock' = clock /\ rooms' = rooms
        /\ call'[c] = [call[c] EXCEPT !.at = "calling"]
        /\ \A d \in Calls \ {c} : call'[d] = call[d]
    BY <1>4 DEF Admit, VisionTypeOK
  <2>3. call'[c].key = key /\ call'[c].stamp = call[c].stamp
    BY <2>1, <2>2, CallType
  <2>4. /\ admission'[key].status = "active" /\ admission'[key].token = c
        /\ admission'[key].expires = call[c].stamp + LeaseLength
    BY <1>4, AdmittedRow
  <2>5. \A k \in Keys : RoomOf[k] = RoomOf[key] /\ k # key
                        => admission'[k].status # "active"
    BY <1>4, AdmittedRow, AdmittedVerdict DEF Busy
  <2>6. ASSUME NEW k \in Keys, RoomOf[k] # RoomOf[key]
        PROVE  admission'[k] = admission[k]
    <3>1. admission'[k] = Expired(RoomOf[key], call[c].stamp)[k]
      BY <1>4, <2>6, AdmittedRow
    <3> QED  BY <2>1, <2>6, <3>1, ExpiredRows
  <2>7. OneActiveRow'
    BY <2>1, <2>5, <2>6 DEF OneActiveRow
  <2>8. ASSUME NEW d \in Calls \ {c}, InLease(d)',
               rooms'[RoomOf[call'[d].key]] # "deleted"
        PROVE  /\ Holds(d, call[d].key)'
               /\ admission'[call'[d].key].expires = call'[d].stamp + LeaseLength
    <3>1. call'[d] = call[d] /\ InLease(d) /\ rooms[RoomOf[call[d].key]] # "deleted"
      BY <2>2, <2>8 DEF InLease
    <3>2. call[d].key \in Keys
      BY <3>1, CallType DEF InLease
    <3>3. /\ Holds(d, call[d].key)
          /\ admission[call[d].key].expires = call[d].stamp + LeaseLength
      BY <3>1 DEF LeaseIsHeld
    <3>4. Expired(RoomOf[key], call[c].stamp)[call[d].key] = admission[call[d].key]
      BY <2>1, <3>1, <3>3, ExpirySparesLeases
    <3>5. RoomOf[call[d].key] # RoomOf[key]
      BY <1>4, <3>2, <3>3, <3>4, AdmittedVerdict DEF Busy, Holds
    <3> QED  BY <2>6, <3>1, <3>2, <3>3, <3>5 DEF Holds
  <2>9. LeaseIsHeld'
    BY <2>3, <2>4, <2>8 DEF LeaseIsHeld, Holds
  <2> QED  BY <2>7, <2>9
<1>5. ASSUME NEW c \in Calls, Complete(c) \/ ReleaseLease(c)
      PROVE  LeaseIsHeld' /\ OneActiveRow'
  <2>1. /\ call' = [call EXCEPT ![c] = Over]
        /\ clock' = clock /\ rooms' = rooms /\ call[c].key \in Keys
    BY <1>5, CallType DEF Complete, ReleaseLease
  <2>2. clock' \in Nat /\ clock =< clock'
    BY <2>1 DEF VisionTypeOK
  <2>3. \A k \in Keys : \/ admission'[k] = admission[k]
                        \/ k = call[c].key /\ Holds(c, k) /\ admission'[k].status # "active"
    <3>1. ASSUME NEW status \in {"completed", "released"}, Holds(c, call[c].key)
          PROVE  [admission[call[c].key] EXCEPT !.status = status].status = status
      BY <2>1, <3>1, ActiveRow DEF Holds, VisionTypeOK
    <3> QED  BY <1>5, <2>1, <3>1 DEF Complete, ReleaseLease, VisionTypeOK
  <2>4. OneActiveRow'
    BY <2>3, RowsEnd
  <2>5. ASSUME NEW d \in Calls, call'[d] = call[d], InLease(d), Holds(d, call[d].key)
        PROVE  admission'[call[d].key] = admission[call[d].key]
    <3>1. d # c
      BY <2>1, <2>5, CallEnds DEF InLease
    <3>2. call[d].key \in Keys
      BY <2>5, CallType DEF InLease
    <3> QED  BY <2>3, <2>5, <3>1, <3>2 DEF Holds
  <2> QED  BY <2>1, <2>2, <2>4, <2>5, CallEnds, LeasesStay
<1>6. ASSUME \/ Tick
             \/ \E k \in Keys : SketchChanges(k)
             \/ \E r \in VisionRooms : RoomExpires(r)
      PROVE  LeaseIsHeld' /\ OneActiveRow'
  <2>1. clock' \in Nat /\ clock =< clock' /\ admission' = admission /\ call' = call
    BY <1>6 DEF Tick, SketchChanges, RoomExpires, VisionTypeOK
  <2>2. \A r \in VisionRooms : rooms[r] = "deleted" => rooms'[r] = "deleted"
    BY <1>6 DEF Tick, SketchChanges, RoomExpires, VisionTypeOK
  <2> QED  BY <2>1, <2>2, LeasesStay, RowsEnd
<1>7. ASSUME NEW r \in VisionRooms, RoomDeleted(r)
      PROVE  LeaseIsHeld' /\ OneActiveRow'
  <2>1. clock' \in Nat /\ clock =< clock' /\ call' = call
    BY <1>7 DEF RoomDeleted, VisionTypeOK
  <2>2. /\ rooms'[r] = "deleted"
        /\ \A q \in VisionRooms \ {r} : rooms'[q] = rooms[q]
    BY <1>7 DEF RoomDeleted, VisionTypeOK
  <2>3. \A k \in Keys : IF RoomOf[k] = r THEN admission'[k].status = "none"
                                         ELSE admission'[k] = admission[k]
    BY <1>7 DEF RoomDeleted, NoRow
  <2>4. OneActiveRow'
    BY <2>3, RowsEnd
  <2>5. ASSUME NEW d \in Calls, InLease(d), rooms'[RoomOf[call[d].key]] # "deleted"
        PROVE  admission'[call[d].key] = admission[call[d].key]
    BY <2>2, <2>3, <2>5, CallType DEF InLease
  <2> QED  BY <2>1, <2>2, <2>4, <2>5, LeasesStay
<1> QED
  BY <1>1, <1>2, <1>3, <1>4, <1>5, <1>6, <1>7 DEF VisionNext

-----------------------------------------------------------------------------
(* The answers.                                                            *)

\* Nothing but the end of its room takes a recorded result back.
LEMMA AnswersStay ==
  ASSUME VisionTypeOK, AnswersAreRecorded, answers' = answers,
         \A r \in VisionRooms : rooms[r] = "deleted" => rooms'[r] = "deleted",
         \A k \in Keys : \/ admission[k].status # "completed"
                         \/ admission'[k] = admission[k]
                         \/ rooms'[RoomOf[k]] = "deleted"
  PROVE  AnswersAreRecorded'
<1>1. \A k \in Keys : RoomOf[k] \in VisionRooms
  BY VisionAssumption DEF VisionAssumption
<1> QED  BY <1>1 DEF AnswersAreRecorded, Recorded

LEMMA AnswerStep ==
  ASSUME VisionTypeOK, AnswersAreRecorded, VisionNext
  PROVE  AnswersAreRecorded'
<1>1. ASSUME \/ \E c \in Calls : \/ \E actor \in Actors, key \in Keys :
                                      AskAdmission(c, actor, key)
                                 \/ Refuse(c) \/ Crash(c)
             \/ Tick
             \/ \E k \in Keys : SketchChanges(k)
             \/ \E r \in VisionRooms : RoomExpires(r)
      PROVE  AnswersAreRecorded'
  <2>1. answers' = answers /\ admission' = admission
    BY <1>1 DEF AskAdmission, Refuse, Crash, Tick, SketchChanges, RoomExpires
  <2>2. \A r \in VisionRooms : rooms[r] = "deleted" => rooms'[r] = "deleted"
    BY <1>1 DEF AskAdmission, Refuse, Crash, Tick, SketchChanges, RoomExpires, VisionTypeOK
  <2> QED  BY <2>1, <2>2, AnswersStay
<1>2. ASSUME NEW c \in Calls, Deny(c)
      PROVE  AnswersAreRecorded'
  <2>1. call[c].stamp \in Nat
    BY <1>2, CallType DEF Deny
  <2>2. answers' = answers /\ rooms' = rooms
        /\ admission' = Expired(RoomOf[call[c].key], call[c].stamp)
    BY <1>2 DEF Deny
  <2> QED  BY <2>1, <2>2, ExpiredRows, AnswersStay
<1>3. ASSUME NEW c \in Calls, AnswerCached(c)
      PROVE  AnswersAreRecorded'
  <2> DEFINE key == call[c].key
  <2>1. key \in Keys /\ call[c].stamp \in Nat
    BY <1>3, CallType DEF AnswerCached
  <2>2. /\ rooms' = rooms /\ rooms[RoomOf[key]] # "deleted"
        /\ admission' = Expired(RoomOf[key], call[c].stamp)
        /\ admission'[key].status = "completed"
    BY <1>3 DEF AnswerCached, Verdict
  <2>3. admission'[key] = admission[key]
    BY <2>1, <2>2, ExpiredRows
  <2>4. \A k \in Keys : admission[k].status = "completed" => admission'[k] = admission[k]
    BY <2>1, <2>2, ExpiredRows
  <2>5. admission[key].token \in Calls
    BY <2>1, <2>2, <2>3, ActiveRow DEF VisionTypeOK
  <2>6. answers[key] = {} \/ answers[key] = {admission[key].token}
    BY <2>1, <2>2 DEF AnswersAreRecorded, Recorded
  <2>7. answers'[key] = {admission[key].token}
    BY <1>3, <2>1, <2>6 DEF AnswerCached, VisionTypeOK
  <2>8. \A k \in Keys \ {key} : answers'[k] = answers[k]
    BY <1>3 DEF AnswerCached, VisionTypeOK
  <2>9. ASSUME NEW k \in Keys
        PROVE  \/ answers'[k] = {}
               \/ \E t \in Calls : /\ answers'[k] = {t}
                                   /\ rooms'[RoomOf[k]] = "deleted" \/ Recorded(k, t)'
    <3>1. CASE k = key
      BY <2>2, <2>3, <2>5, <2>7, <3>1 DEF Recorded
    <3>2. CASE k # key
      BY <2>2, <2>4, <2>8, <3>2 DEF AnswersAreRecorded, Recorded
    <3> QED  BY <3>1, <3>2
  <2> QED  BY <2>9 DEF AnswersAreRecorded
<1>4. ASSUME NEW c \in Calls, Admit(c)
      PROVE  AnswersAreRecorded'
  <2>1. call[c].key \in Keys /\ call[c].stamp \in Nat
    BY <1>4, CallType DEF Admit
  <2>2. answers' = answers /\ rooms' = rooms
    BY <1>4 DEF Admit
  <2>3. ASSUME NEW k \in Keys, admission[k].status = "completed"
        PROVE  admission'[k] = admission[k]
    <3>1. Expired(RoomOf[call[c].key], call[c].stamp)[k] = admission[k]
      BY <2>1, <2>3, ExpiredRows
    <3>2. k # call[c].key
      BY <1>4, <2>3, <3>1, AdmittedVerdict
    <3> QED  BY <1>4, <3>1, <3>2, AdmittedRow
  <2> QED  BY <2>2, <2>3, AnswersStay
<1>5. ASSUME NEW c \in Calls, ReleaseLease(c)
      PROVE  AnswersAreRecorded'
  <2>1. answers' = answers /\ rooms' = rooms
    BY <1>5 DEF ReleaseLease
  <2>2. \A k \in Keys : admission[k].status = "completed" => admission'[k] = admission[k]
    BY <1>5 DEF ReleaseLease, Holds, VisionTypeOK
  <2> QED  BY <2>1, <2>2, AnswersStay
<1>6. ASSUME NEW c \in Calls, Complete(c)
      PROVE  AnswersAreRecorded'
  <2> DEFINE key == call[c].key
             recorded == rooms[RoomOf[key]] = "open" /\ Holds(c, key)
  <2>1. key \in Keys /\ rooms' = rooms
    BY <1>6, CallType DEF Complete
  <2>2. CASE ~ recorded
    <3>1. admission' = admission /\ answers' = answers
      BY <1>6, <2>2 DEF Complete
    <3> QED  BY <2>1, <3>1, AnswersStay
  <2>3. CASE recorded
    <3>1. admission' = [admission EXCEPT ![key].status = "completed"]
      BY <1>6, <2>3 DEF Complete
    <3>2. admission[key].status = "active" /\ admission[key].token = c
      BY <2>3 DEF Holds
    <3>3. admission'[key].status = "completed" /\ admission'[key].token = c
      BY <2>1, <3>1, <3>2, ActiveRow DEF VisionTypeOK
    <3>4. \A k \in Keys \ {key} : admission'[k] = admission[k]
      BY <3>1 DEF VisionTypeOK
    <3>5. answers[key] = {}
      BY <2>1, <2>3, <3>2 DEF AnswersAreRecorded, Recorded
    <3>6. /\ answers'[key] = {} \/ answers'[key] = {c}
          /\ \A k \in Keys \ {key} : answers'[k] = answers[k]
      BY <1>6, <2>1, <3>5 DEF Complete, VisionTypeOK
    <3>7. ASSUME NEW k \in Keys
          PROVE  \/ answers'[k] = {}
                 \/ \E t \in Calls : /\ answers'[k] = {t}
                                     /\ rooms'[RoomOf[k]] = "deleted" \/ Recorded(k, t)'
      <4>1. CASE k = key
        BY <3>3, <3>6, <4>1 DEF Recorded
      <4>2. CASE k # key
        BY <2>1, <3>4, <3>6, <4>2 DEF AnswersAreRecorded, Recorded
      <4> QED  BY <4>1, <4>2
    <3> QED  BY <3>7 DEF AnswersAreRecorded
  <2> QED  BY <2>2, <2>3
<1>7. ASSUME NEW r \in VisionRooms, RoomDeleted(r)
      PROVE  AnswersAreRecorded'
  <2>1. answers' = answers /\ rooms'[r] = "deleted"
        /\ \A q \in VisionRooms \ {r} : rooms'[q] = rooms[q]
    BY <1>7 DEF RoomDeleted, VisionTypeOK
  <2>2. \A k \in Keys : RoomOf[k] # r => admission'[k] = admission[k]
    BY <1>7 DEF RoomDeleted
  <2> QED  BY <2>1, <2>2, AnswersStay
<1> QED
  BY <1>1, <1>2, <1>3, <1>4, <1>5, <1>6, <1>7 DEF VisionNext

-----------------------------------------------------------------------------
(* What is spent.                                                          *)

LEMMA DayType ==
  ASSUME NEW t \in Nat
  PROVE  DayOf(t) \in Nat
  BY VisionAssumption DEF DayOf, VisionAssumption

\* Room for one more in a set leaves room for one more in each part of it.
LEMMA RoomForOne ==
  ASSUME NEW U, IsFiniteSet(U), NEW S \in SUBSET U, NEW x, NEW max \in Nat,
         ~ Cardinality(U) >= max
  PROVE  Cardinality(S \union {x}) =< max
<1>1. IsFiniteSet(S) /\ Cardinality(S) =< Cardinality(U)
  BY FS_Subset
<1>2. Cardinality(S) \in Nat /\ Cardinality(U) \in Nat
  BY <1>1, FS_CardinalityType
<1>3. CASE x \in S
  <2>1. S \union {x} = S
    BY <1>3
  <2> QED  BY <1>1, <1>2, <2>1
<1>4. CASE x \notin S
  <2>1. Cardinality(S \union {x}) = Cardinality(S) + 1
    BY <1>1, <1>4, FS_AddElement
  <2> QED  BY <1>1, <1>2, <2>1
<1> QED  BY <1>3, <1>4

LEMMA SpendStep ==
  ASSUME VisionTypeOK, SpendBounded, VisionNext
  PROVE  SpendBounded'
<1>1. CASE UNCHANGED usage
  BY <1>1 DEF SpendBounded, DayBounded, SpentOn
<1>2. ASSUME NEW c \in Calls, Admit(c)
      PROVE  SpendBounded'
  <2>1. call[c].stamp \in Nat /\ call[c].actor \in Actors
    BY <1>2, CallType DEF Admit
  <2>2. PICK today \in Days(c) :
          /\ Verdict(c, today) = "admitted"
          /\ usage' = usage \union
               {[call |-> c, actor |-> call[c].actor, at |-> call[c].stamp, ran |-> today]}
    BY <1>2 DEF Admit
  <2> DEFINE use == [call |-> c, actor |-> call[c].actor, at |-> call[c].stamp,
                     ran |-> today]
             Own == { u \in Used(today) : u.actor = call[c].actor }
  <2>3. IsFiniteSet(usage')
    BY <2>2, FS_AddElement DEF SpendBounded
  <2>4. ~ Cardinality(Own) >= PerActorDay /\ ~ Cardinality(Used(today)) >= PerDay
    BY <2>2 DEF Verdict
  <2>5. Used(today) \in SUBSET usage /\ Own \in SUBSET usage
    BY DEF Used
  <2>6. IsFiniteSet(Used(today)) /\ IsFiniteSet(Own)
    BY <2>5, FS_Subset DEF SpendBounded
  <2>7. PerDay \in Nat /\ PerActorDay \in Nat
    BY VisionAssumption DEF VisionAssumption
  <2>8. today \in Nat
    BY <2>1, DayType DEF Days, VisionTypeOK
  <2>9. ASSUME NEW d \in Nat
        PROVE  DayBounded(d)'
    <3>1. CASE DayOf(use.at) = d /\ use.ran = d
      <4>1. SpentOn(d)' = SpentOn(d) \union {use}
        BY <2>2, <3>1 DEF SpentOn
      <4>2. SpentOn(d) \in SUBSET Used(today)
        <5>1. ASSUME NEW u \in usage, DayOf(u.at) = d
              PROVE  DayOf(u.at) >= today
          BY <2>8, <3>1, <5>1
        <5> QED  BY <5>1 DEF SpentOn, Used
      <4>3. Cardinality(SpentOn(d)') =< PerDay
        BY <2>4, <2>6, <2>7, <4>1, <4>2, RoomForOne
      <4>4. ASSUME NEW a \in Actors
            PROVE  Cardinality({ u \in SpentOn(d)' : u.actor = a }) =< PerActorDay
        <5>1. CASE a = call[c].actor
          <6>1. { u \in SpentOn(d)' : u.actor = a }
                  = { u \in SpentOn(d) : u.actor = a } \union {use}
            BY <4>1, <5>1
          <6>2. { u \in SpentOn(d) : u.actor = a } \in SUBSET Own
            BY <4>2, <5>1
          <6> HIDE DEF use, Own
          <6> QED  BY <2>4, <2>6, <2>7, <6>1, <6>2, RoomForOne
        <5>2. CASE a # call[c].actor
          <6>1. { u \in SpentOn(d)' : u.actor = a } = { u \in SpentOn(d) : u.actor = a }
            BY <4>1, <5>2
          <6> QED  BY <6>1 DEF SpendBounded, DayBounded
        <5> QED  BY <5>1, <5>2
      <4> QED  BY <4>3, <4>4 DEF DayBounded
    <3>2. CASE ~ (DayOf(use.at) = d /\ use.ran = d)
      <4>1. SpentOn(d)' = SpentOn(d)
        BY <2>2, <3>2 DEF SpentOn
      <4> QED  BY <4>1 DEF SpendBounded, DayBounded
    <3> QED  BY <3>1, <3>2
  <2> QED  BY <2>3, <2>9 DEF SpendBounded
<1>3. UNCHANGED usage \/ \E c \in Calls : Admit(c)
  BY DEF VisionNext, AskAdmission, Refuse, Deny, AnswerCached, Complete, ReleaseLease,
         Crash, SketchChanges, RoomExpires, RoomDeleted, Tick
<1> QED  BY <1>1, <1>2, <1>3

-----------------------------------------------------------------------------
(* The theorems.                                                           *)

LEMMA VisionStarts ==
  ASSUME VisionInit
  PROVE  VisionInv
<1>1. VisionTypeOK
  BY DEF VisionInit, VisionTypeOK, Rows, Progress
<1>2. SpendBounded
  <2>1. IsFiniteSet(usage)
    BY FS_EmptySet DEF VisionInit
  <2>2. \A d \in Nat : /\ SpentOn(d) = {}
                       /\ \A a \in Actors : { u \in SpentOn(d) : u.actor = a } = {}
    BY DEF VisionInit, SpentOn
  <2>3. Cardinality({}) = 0 /\ 0 =< PerDay /\ 0 =< PerActorDay
    BY FS_EmptySet, VisionAssumption DEF VisionAssumption
  <2>4. ASSUME NEW d \in Nat
        PROVE  DayBounded(d)
    BY <2>2, <2>3, Zenon DEF DayBounded
  <2> QED  BY <2>1, <2>4 DEF SpendBounded
<1>3. ClockWasRead /\ LeaseIsHeld /\ OneActiveRow /\ AnswersAreRecorded
  BY DEF VisionInit, ClockWasRead, LeaseIsHeld, InLease, OneActiveRow, NoRow,
         AnswersAreRecorded
<1> QED  BY <1>1, <1>2, <1>3 DEF VisionInv

LEMMA VisionStutters ==
  ASSUME VisionInv, UNCHANGED visionVars
  PROVE  VisionInv'
<1> USE DEF visionVars
<1>1. VisionTypeOK' /\ ClockWasRead'
  BY DEF VisionInv, VisionTypeOK, ClockWasRead
<1>2. LeaseIsHeld' /\ OneActiveRow'
  BY DEF VisionInv, LeaseIsHeld, InLease, Holds, OneActiveRow
<1>3. AnswersAreRecorded'
  BY DEF VisionInv, AnswersAreRecorded, Recorded
<1>4. SpendBounded'
  BY DEF VisionInv, SpendBounded, DayBounded, SpentOn
<1> QED  BY <1>1, <1>2, <1>3, <1>4 DEF VisionInv

(* The invariant holds throughout, in every step of calls, rooms and clock *)
(* (admit, complete and release_sketch_transform).                         *)
THEOREM VisionInvariant == VisionSpec => []VisionInv
<1>1. VisionInit => VisionInv
  BY VisionStarts
<1>2. VisionInv /\ [VisionNext]_visionVars => VisionInv'
  BY TypeStep, ClockStep, LeaseStep, AnswerStep, SpendStep, VisionStutters DEF VisionInv
<1> QED  BY <1>1, <1>2, PTL DEF VisionSpec

(* Two calls of a room are never both with the provider within their       *)
(* leases: each would be the holder of the one active row of the room      *)
(* (admit_sketch_transform).                                               *)
THEOREM OneCallAtATime == VisionSpec => []OneCallPerRoom
<1>1. VisionInv => OneCallPerRoom
  <2> SUFFICES ASSUME VisionInv, NEW c \in Calls, NEW d \in Calls,
                      InLease(c), InLease(d), RoomOf[call[c].key] = RoomOf[call[d].key],
                      rooms[RoomOf[call[c].key]] # "deleted"
               PROVE  c = d
    BY DEF OneCallPerRoom
  <2>1. call[c].key \in Keys /\ call[d].key \in Keys
    BY CallType DEF InLease, VisionInv
  <2>2. Holds(c, call[c].key) /\ Holds(d, call[d].key)
    BY DEF VisionInv, LeaseIsHeld
  <2>3. call[c].key = call[d].key
    BY <2>1, <2>2 DEF VisionInv, OneActiveRow, Holds
  <2> QED  BY <2>2, <2>3 DEF Holds
<1> QED  BY <1>1, VisionInvariant, PTL

(* All callers of a sketch are given one and the same interpretation       *)
(* (complete_sketch_transform, and admissions that find a result).         *)
THEOREM AnswersAlwaysAgree == VisionSpec => []AnswersAgree
<1>1. VisionInv => AnswersAgree
  <2> SUFFICES ASSUME VisionInv, NEW k \in Keys
               PROVE  Cardinality(answers[k]) =< 1
    BY DEF AnswersAgree
  <2>1. CASE answers[k] = {}
    <3>1. Cardinality({}) = 0
      BY FS_EmptySet
    <3> QED  BY <2>1, <3>1
  <2>2. ASSUME NEW t \in Calls, answers[k] = {t}
        PROVE  Cardinality(answers[k]) =< 1
    <3>1. Cardinality({t}) = 1
      BY FS_Singleton
    <3> QED  BY <2>2, <3>1
  <2> QED  BY <2>1, <2>2 DEF VisionInv, AnswersAreRecorded
<1> QED  BY <1>1, VisionInvariant, PTL

(* No day's spending exceeds the limits, for any actor or in all, however  *)
(* many rooms come and go (enforce_demo_vision_limits).                    *)
THEOREM SpendAlwaysBounded == VisionSpec => []SpendIsBounded
<1>1. VisionInv => SpendIsBounded
  <2> SUFFICES ASSUME VisionInv, NEW d \in 0 .. DayOf(clock)
               PROVE  DayBounded(d)
    BY DEF SpendIsBounded, DayBounded
  <2>1. d \in Nat
    BY DayType DEF VisionInv, VisionTypeOK
  <2> QED  BY <2>1 DEF VisionInv, SpendBounded
<1> QED  BY <1>1, VisionInvariant, PTL

-----------------------------------------------------------------------------
(* The ledgers of a session.                                               *)
(*                                                                         *)
(* No limit of the session ledgers is ever exceeded, for any limits, any   *)
(* spans and any number of calls.  A call counts every row from the start  *)
(* of its span on, those with later times too, and so also the span of any *)
(* row its own falls into, however early it read the clock.                *)

\* What the clock says of a call that waits for its locks.
Waits(s) ==
  /\ s.stamp =< now /\ now =< s.stamp + MaxWait
  /\ s.day >= Today(s.stamp)

WaitingIsRecent ==
  \A c \in QuotaCalls : session[c].at \in {"reading", "asking"} => Waits(session[c])

\* A row is dropped only when it is older than what any call still counts.
DroppedIsOld ==
  \A r \in issued \ ledger : service # "voice" /\ r.at + Retention < now

QuotaInv ==
  /\ QuotaTypeOK
  /\ IsFiniteSet(issued)
  /\ WaitingIsRecent
  /\ DroppedIsOld
  /\ LimitsHold
  /\ RetriesSpendOnce

-----------------------------------------------------------------------------
(* The calendar.                                                           *)

LEMMA TodayType ==
  ASSUME NEW t \in Nat
  PROVE  Today(t) \in Nat /\ Today(t) * QuotaDay =< t
<1>1. QuotaDay \in Nat /\ QuotaDay > 0
  BY QuotaAssumption DEF QuotaAssumption
<1> QED  BY <1>1 DEF Today

LEMMA TodayGrows ==
  ASSUME NEW t \in Nat, NEW u \in Nat, t =< u
  PROVE  Today(t) =< Today(u)
<1>1. QuotaDay \in Nat /\ QuotaDay > 0
  BY QuotaAssumption DEF QuotaAssumption
<1> QED  BY <1>1 DEF Today

-----------------------------------------------------------------------------
(* Calls and rows.                                                         *)

LEMMA AskingIsAsked ==
  ASSUME QuotaTypeOK, NEW c \in QuotaCalls, session[c].at \in {"reading", "asking"}
  PROVE  session[c] \in Asked
<1>1. session[c] \in Sessions
  BY DEF QuotaTypeOK
<1> QED  BY <1>1 DEF Sessions, Asked, Granted

LEMMA RowOfType ==
  ASSUME NEW c \in QuotaCalls, NEW s \in Asked
  PROVE  /\ RowOf(c, s) \in Row
         /\ RowOf(c, s).at = s.stamp /\ RowOf(c, s).day = s.day
         /\ RowOf(c, s).actor = s.actor /\ RowOf(c, s).room = s.room
         /\ RowOf(c, s).id = s.id /\ RowOf(c, s).call = c
  BY DEF RowOf, Row, Asked

LEMMA LimitsType ==
  ASSUME service \in QuotaServices, NEW limit \in Limits[service]
  PROVE  /\ limit[1] \in Scopes /\ limit[2] \in Spans
         /\ service # "voice" => limit[2] # "today"
         /\ Max[service][limit] \in Nat
<1>1. limit \in Scopes \X Spans /\ (service # "voice" => limit[2] # "today")
  BY DEF Limits, QuotaServices, Scopes, Spans
<1> QED  BY <1>1, QuotaAssumption DEF QuotaAssumption

(* Whoever's session it is, it is one and the same: Same is transitive.     *)
LEMMA SameShifts ==
  ASSUME NEW scope \in Scopes, NEW r, NEW s, NEW x, Same(scope, s, x)
  PROVE  Same(scope, r, x) <=> Same(scope, r, s)
  BY DEF Same, Scopes

(* The key: whatever span the row of s falls into, the rows of that span    *)
(* are among those that s counts.                                          *)
LEMMA SpanIsCounted ==
  ASSUME NEW c \in QuotaCalls, NEW s \in Asked, NEW r \in Row, NEW x \in Row,
         NEW span \in Spans, InSpan(span, RowOf(c, s), x), InSpan(span, r, x)
  PROVE  Counts(span, r, s)
<1>1. /\ r.at \in Nat /\ x.at \in Nat /\ s.stamp \in Nat /\ s.day \in Nat
      /\ RowOf(c, s).at = s.stamp /\ RowOf(c, s).day = s.day
  BY RowOfType DEF Row, Asked
<1>2. Window \in Nat /\ QuotaDay \in Nat
  BY QuotaAssumption DEF QuotaAssumption
<1>3. CASE span = "window"
  BY <1>1, <1>2, <1>3 DEF InSpan, Counts
<1>4. CASE span = "day"
  BY <1>1, <1>2, <1>4 DEF InSpan, Counts
<1>5. CASE span = "today"
  <2>1. s.day = Today(r.at)
    BY <1>1, <1>5 DEF InSpan
  <2>2. Today(r.at) * QuotaDay =< r.at
    BY <1>1, TodayType
  <2> QED  BY <1>5, <2>1, <2>2 DEF Counts
<1> QED  BY <1>3, <1>4, <1>5 DEF Spans

(* A row that s still counts has not been dropped.                         *)
LEMMA CountedIsKept ==
  ASSUME QuotaTypeOK, DroppedIsOld, NEW s \in Asked, Waits(s),
         NEW limit \in Limits[service], NEW r \in issued, Counts(limit[2], r, s)
  PROVE  r \in Kept(ledger, s)
<1>1. /\ r.at \in Nat /\ s.stamp \in Nat /\ now \in Nat /\ service \in QuotaServices
  BY DEF QuotaTypeOK, Row, Asked
<1>2. /\ Window \in Nat /\ QuotaDay \in Nat /\ Retention \in Nat /\ MaxWait \in Nat
      /\ Window =< QuotaDay /\ QuotaDay + MaxWait =< Retention
  BY QuotaAssumption DEF QuotaAssumption
<1>3. CASE service = "voice"
  BY <1>3 DEF Kept, DroppedIsOld
<1>4. CASE service # "voice"
  <2>1. limit[2] \in {"window", "day"}
    BY <1>1, <1>4, LimitsType DEF Spans
  <2>2. r.at > s.stamp - QuotaDay
    <3>1. CASE limit[2] = "window"
      BY <1>1, <1>2, <3>1 DEF Counts
    <3>2. CASE limit[2] = "day"
      BY <3>2 DEF Counts
    <3> QED  BY <2>1, <3>1, <3>2
  <2>3. r \in ledger
    BY <1>1, <1>2, <2>2 DEF DroppedIsOld, Waits
  <2> QED  BY <1>1, <1>2, <1>4, <2>2, <2>3 DEF Kept
<1> QED  BY <1>3, <1>4

LEMMA KeptIsLedger ==
  ASSUME NEW s
  PROVE  Kept(ledger, s) \subseteq ledger
  BY DEF Kept

-----------------------------------------------------------------------------
(* Admission keeps every limit.                                            *)

(* The span of a row that the new one falls into.                          *)
LEMMA JoinedSpan ==
  ASSUME QuotaTypeOK, DroppedIsOld, IsFiniteSet(issued),
         NEW c \in QuotaCalls, NEW s \in Asked, Waits(s), ~Full(Kept(ledger, s), s),
         issued' = issued \union {RowOf(c, s)},
         NEW limit \in Limits[service], NEW x \in issued',
         Same(limit[1], RowOf(c, s), x), InSpan(limit[2], RowOf(c, s), x)
  PROVE  Cardinality(Spent(limit, x)') =< Max[service][limit]
<1> DEFINE n == RowOf(c, s)
           C == Counted(Kept(ledger, s), limit, s)
<1>1. /\ n \in Row /\ issued \subseteq Row /\ x \in Row
      /\ limit[1] \in Scopes /\ limit[2] \in Spans /\ Max[service][limit] \in Nat
  BY RowOfType, LimitsType DEF QuotaTypeOK
<1>2. IsFiniteSet(C) /\ Cardinality(C) \in Nat /\ Cardinality(C) < Max[service][limit]
  <2>1. C \subseteq issued
    BY KeptIsLedger DEF Counted, QuotaTypeOK
  <2>2. IsFiniteSet(C)
    BY <2>1, FS_Subset
  <2>3. Cardinality(C) \in Nat
    BY <2>2, FS_CardinalityType
  <2> QED  BY <1>1, <2>2, <2>3 DEF Full
<1>3. Spent(limit, x)' \subseteq C \union {n}
  <2> SUFFICES ASSUME NEW r \in issued, Same(limit[1], r, x), InSpan(limit[2], r, x)
               PROVE  r \in C
    BY DEF Spent
  <2>1. Same(limit[1], r, s)
    <3>1. Same(limit[1], r, n)
      BY <1>1, SameShifts
    <3> QED  BY <1>1, <3>1, RowOfType DEF Same, Scopes
  <2>2. Counts(limit[2], r, s)
    BY <1>1, SpanIsCounted
  <2> QED  BY <2>1, <2>2, CountedIsKept DEF Counted
<1> HIDE DEF n, C
<1>4. IsFiniteSet(C \union {n}) /\ Cardinality(C \union {n}) =< Cardinality(C) + 1
  <2>1. /\ IsFiniteSet(C \union {n})
        /\ Cardinality(C \union {n}) = IF n \in C THEN Cardinality(C) ELSE Cardinality(C) + 1
    BY <1>2, FS_AddElement, Zenon
  <2> QED  BY <1>2, <2>1
<1>5. Cardinality(C \union {n}) \in Nat
  BY <1>4, FS_CardinalityType
<1>6. /\ Cardinality(Spent(limit, x)') =< Cardinality(C \union {n})
      /\ IsFiniteSet(Spent(limit, x)')
  BY <1>3, <1>4, FS_Subset
<1>7. Cardinality(Spent(limit, x)') \in Nat
  BY <1>6, FS_CardinalityType
<1> QED  BY <1>1, <1>2, <1>4, <1>5, <1>6, <1>7

LEMMA AdmissionKeepsLimits ==
  ASSUME QuotaTypeOK, DroppedIsOld, IsFiniteSet(issued), LimitsHold,
         NEW c \in QuotaCalls, NEW s \in Asked, Waits(s), ~Full(Kept(ledger, s), s),
         issued' = issued \union {RowOf(c, s)}, service' = service
  PROVE  LimitsHold'
<1> DEFINE n == RowOf(c, s)
<1> SUFFICES ASSUME NEW limit \in Limits[service], NEW x \in issued'
             PROVE  Cardinality(Spent(limit, x)') =< Max[service][limit]
  BY DEF LimitsHold
<1>1. /\ n \in Row /\ issued \subseteq Row /\ x \in Row
      /\ limit[1] \in Scopes /\ limit[2] \in Spans /\ Max[service][limit] \in Nat
  BY RowOfType, LimitsType DEF QuotaTypeOK
<1>2. CASE Same(limit[1], n, x) /\ InSpan(limit[2], n, x)
  BY <1>2, JoinedSpan
<1>3. CASE ~(Same(limit[1], n, x) /\ InSpan(limit[2], n, x))
  <2>1. Spent(limit, x)' = Spent(limit, x)
    BY <1>3 DEF Spent
  <2>2. CASE x \in issued
    BY <2>1, <2>2 DEF LimitsHold
  <2>3. CASE x = n
    \* Only a voice call that read two days is outside the span it ends.
    <3>1. Same(limit[1], n, n)
      BY <1>1 DEF Same, Scopes
    <3>2. ASSUME Spent(limit, x) # {}  PROVE  limit[2] = "today"
      <4>1. n.at \in Nat /\ Window \in Nat /\ QuotaDay \in Nat \ {0}
        BY <1>1, QuotaAssumption DEF QuotaAssumption, Row
      <4>2. PICK y \in issued : InSpan(limit[2], y, n)
        BY <2>3, <3>2 DEF Spent
      <4>3. y.at \in Nat
        BY <1>1 DEF Row
      <4>4. ~InSpan(limit[2], n, n)
        BY <1>3, <2>3, <3>1
      <4>5. CASE limit[2] = "window"
        BY <4>1, <4>2, <4>3, <4>4, <4>5 DEF InSpan
      <4>6. CASE limit[2] = "day"
        BY <4>1, <4>4, <4>6 DEF InSpan
      <4> QED  BY <1>1, <4>5, <4>6 DEF Spans
    <3>3. CASE Spent(limit, x) = {}
      BY <1>1, <2>1, <3>3, FS_EmptySet
    <3>4. CASE Spent(limit, x) # {}
      <4>1. PICK y \in issued : Same(limit[1], y, x) /\ InSpan("today", y, x)
        BY <3>2, <3>4 DEF Spent
      <4>2. Spent(limit, x) = Spent(limit, y)
        <5>1. Today(y.at) = Today(x.at)
          BY <4>1 DEF InSpan
        <5>2. \A r \in issued : InSpan("today", r, x) <=> InSpan("today", r, y)
          BY <5>1 DEF InSpan
        <5>3. \A r \in issued : Same(limit[1], r, x) <=> Same(limit[1], r, y)
          BY <1>1, <4>1, SameShifts
        <5> QED  BY <3>2, <3>4, <5>2, <5>3 DEF Spent
      <4> QED  BY <2>1, <4>1, <4>2 DEF LimitsHold
    <3> QED  BY <3>3, <3>4
  <2> QED  BY <2>2, <2>3
<1> QED  BY <1>2, <1>3

-----------------------------------------------------------------------------
(* Every step keeps the invariant.                                         *)

LEMMA QuotaInitially ==
  ASSUME QuotaInit
  PROVE  QuotaInv
<1>1. /\ QuotaTypeOK /\ WaitingIsRecent /\ DroppedIsOld
  BY DEF QuotaInit, QuotaTypeOK, Sessions, WaitingIsRecent, DroppedIsOld
<1>2. LimitsHold /\ RetriesSpendOnce /\ IsFiniteSet(issued)
  BY FS_EmptySet DEF QuotaInit, LimitsHold, RetriesSpendOnce
<1> QED  BY <1>1, <1>2 DEF QuotaInv

\* A call that does not wait afterwards leaves the others as they were.
LEMMA OthersWait ==
  ASSUME QuotaTypeOK, WaitingIsRecent, NEW c \in QuotaCalls,
         NEW after \in Sessions, session' = [session EXCEPT ![c] = after],
         after.at \in {"reading", "asking"} => Waits(after), now' = now
  PROVE  WaitingIsRecent' /\ session' \in [QuotaCalls -> Sessions]
<1>1. session' \in [QuotaCalls -> Sessions] /\ session'[c] = after
      /\ \A d \in QuotaCalls \ {c} : session'[d] = session[d]
  BY DEF QuotaTypeOK
<1> QED  BY <1>1 DEF WaitingIsRecent, Waits

\* Clearing the ledger drops only what is old.
LEMMA ClearingKeepsRecent ==
  ASSUME QuotaTypeOK, DroppedIsOld, NEW s \in Asked, Waits(s), NEW added \in SUBSET Row,
         ledger' = Kept(ledger, s) \union added, issued' = issued \union added,
         now' = now, service' = service
  PROVE  DroppedIsOld'
<1>1. s.stamp \in Nat /\ now \in Nat /\ Retention \in Nat
  BY QuotaAssumption DEF QuotaAssumption, QuotaTypeOK, Asked
<1> SUFFICES ASSUME NEW r \in issued, r \notin Kept(ledger, s)
             PROVE  service # "voice" /\ r.at + Retention < now
  BY DEF DroppedIsOld
<1>2. r.at \in Nat
  BY DEF QuotaTypeOK, Row
<1>3. CASE r \in ledger
  BY <1>1, <1>2, <1>3 DEF Kept, Waits
<1>4. CASE r \notin ledger
  BY <1>4 DEF DroppedIsOld
<1> QED  BY <1>3, <1>4

\* A request that is not known is either new or its row was dropped long ago.
LEMMA AdmissionSpendsOnce ==
  ASSUME QuotaTypeOK, DroppedIsOld, RetriesSpendOnce,
         NEW c \in QuotaCalls, NEW s \in Asked, Waits(s), Known(s) = {},
         issued' = issued \union {RowOf(c, s)}, service' = service
  PROVE  RetriesSpendOnce'
<1> DEFINE n == RowOf(c, s)
<1> SUFFICES ASSUME service = "turn", NEW x \in issued', NEW y \in issued',
                    x.id = y.id, x.call # y.call, x.at =< y.at
             PROVE  y.at > x.at + Retention - MaxWait
  BY DEF RetriesSpendOnce
<1>1. /\ n.at = s.stamp /\ n.id = s.id /\ s.stamp \in Nat /\ now \in Nat
      /\ Retention \in Nat /\ MaxWait \in Nat /\ QuotaDay \in Nat /\ QuotaDay > 0
      /\ QuotaDay + MaxWait =< Retention
  BY RowOfType, QuotaAssumption DEF QuotaAssumption, QuotaTypeOK, Asked
<1>2. ASSUME NEW r \in issued, r.id = n.id
      PROVE  r.at \in Nat /\ r.at + Retention < now
  <2>1. r \notin ledger
    BY <1>1, <1>2 DEF Known
  <2> QED  BY <2>1, <1>2 DEF DroppedIsOld, QuotaTypeOK, Row
<1>3. CASE x \in issued /\ y \in issued
  BY <1>3 DEF RetriesSpendOnce
<1>4. CASE x \in issued /\ y = n
  BY <1>1, <1>2, <1>4 DEF Waits
<1>5. CASE x = n /\ y \in issued
  BY <1>1, <1>2, <1>5 DEF Waits
<1>6. CASE x = n /\ y = n
  BY <1>6
<1> QED  BY <1>3, <1>4, <1>5, <1>6

\* A step that leaves the ledger alone.
LEMMA LedgerAlone ==
  ASSUME QuotaInv, UNCHANGED <<service, ledger, issued>>, now' = now
  PROVE  /\ IsFiniteSet(issued)' /\ DroppedIsOld' /\ LimitsHold' /\ RetriesSpendOnce'
         /\ service' \in QuotaServices /\ now' \in Nat /\ ledger' \subseteq issued'
         /\ issued' \subseteq Row
<1>1. \A limit, x : Spent(limit, x)' = Spent(limit, x)
  BY DEF Spent
<1> QED  BY <1>1 DEF QuotaInv, QuotaTypeOK, DroppedIsOld, LimitsHold, RetriesSpendOnce

\* A call that comes or goes without touching the ledger.
LEMMA QuietCall ==
  ASSUME QuotaInv, NEW c \in QuotaCalls, NEW after \in Sessions,
         session' = [session EXCEPT ![c] = after],
         after.at \in {"reading", "asking"} => Waits(after),
         UNCHANGED <<service, now, standing, ledger, issued>>
  PROVE  QuotaInv'
<1>1. WaitingIsRecent' /\ session' \in [QuotaCalls -> Sessions]
  BY OthersWait DEF QuotaInv
<1>2. standing' \in [QuotaRooms -> {"open", "expired", "deleted"}]
  BY DEF QuotaInv, QuotaTypeOK
<1> QED  BY <1>1, <1>2, LedgerAlone DEF QuotaInv, QuotaTypeOK

LEMMA ArriveStep ==
  ASSUME QuotaInv, NEW c \in QuotaCalls, NEW actor \in QuotaActors,
         NEW room \in QuotaRooms, NEW id \in RequestIds \union {NoId},
         Arrive(c, actor, room, id)
  PROVE  QuotaInv'
<1> DEFINE after == [at |-> IF service = "voice" THEN "reading" ELSE "asking",
                     actor |-> actor, room |-> room, id |-> id, stamp |-> now,
                     day |-> Today(now)]
<1>1. now \in Nat /\ Today(now) \in Nat /\ MaxWait \in Nat
  BY TodayType, QuotaAssumption DEF QuotaAssumption, QuotaInv, QuotaTypeOK
<1>2. after \in Sessions
  BY <1>1 DEF Sessions, Asked
<1>3. Waits(after)
  BY <1>1 DEF Waits
<1> QED  BY <1>2, <1>3, QuietCall DEF Arrive

LEMMA ReadDayStep ==
  ASSUME QuotaInv, NEW c \in QuotaCalls, ReadDay(c)
  PROVE  QuotaInv'
<1> DEFINE s == session[c]
           after == [s EXCEPT !.at = "asking", !.day = Today(now)]
<1>1. s \in Asked /\ Waits(s)
  BY AskingIsAsked DEF ReadDay, QuotaInv, WaitingIsRecent
<1>2. now \in Nat /\ s.stamp \in Nat /\ Today(now) \in Nat
  BY <1>1, TodayType DEF Asked, QuotaInv, QuotaTypeOK
<1>3. after \in Asked /\ after.stamp = s.stamp /\ after.day = Today(now)
  BY <1>1, <1>2 DEF Asked
<1>4. after \in Sessions
  BY <1>3 DEF Sessions
<1>5. Waits(after)
  BY <1>1, <1>2, <1>3, TodayGrows DEF Waits
<1>6. session' = [session EXCEPT ![c] = after]
  BY DEF ReadDay, QuotaInv, QuotaTypeOK
<1> QED  BY <1>4, <1>5, <1>6, QuietCall DEF ReadDay

LEMMA OverIsQuiet ==
  [at |-> "over"] \in Sessions /\ [at |-> "over"].at \notin {"reading", "asking"}
  BY DEF Sessions

LEMMA RejectedStep ==
  ASSUME QuotaInv, NEW c \in QuotaCalls, Rejected(c)
  PROVE  QuotaInv'
  BY OverIsQuiet, QuietCall DEF Rejected, FinishCall

\* What a grant makes of a call.
LEMMA GrantedIsSession ==
  ASSUME NEW s \in Asked, NEW time \in Nat
  PROVE  LET after == [at |-> "granted", actor |-> s.actor, room |-> s.room,
                       id |-> s.id, time |-> time]
         IN  after \in Sessions /\ after.at \notin {"reading", "asking"}
  BY DEF Sessions, Granted, Asked

LEMMA ReplayedStep ==
  ASSUME QuotaInv, NEW c \in QuotaCalls, Replayed(c)
  PROVE  QuotaInv'
<1> DEFINE s == session[c]
<1>1. s \in Asked
  BY AskingIsAsked DEF Replayed, QuotaInv
<1>2. PICK r \in Known(s) : Grant(c, s, r.at)
  BY DEF Replayed
<1>3. r.at \in Nat
  BY <1>2 DEF Known, QuotaInv, QuotaTypeOK, Row
<1> QED  BY <1>1, <1>2, <1>3, GrantedIsSession, QuietCall DEF Replayed, Grant

LEMMA DeniedStep ==
  ASSUME QuotaInv, NEW c \in QuotaCalls, DeniedByLimit(c)
  PROVE  QuotaInv'
<1> DEFINE s == session[c]
<1>1. s \in Asked /\ Waits(s)
  BY AskingIsAsked DEF DeniedByLimit, QuotaInv, WaitingIsRecent
<1>2. /\ ledger' = Kept(ledger, s) /\ session' = [session EXCEPT ![c] = [at |-> "over"]]
      /\ UNCHANGED <<service, now, standing, issued>>
  BY DEF DeniedByLimit, FinishCall
<1>3. WaitingIsRecent' /\ session' \in [QuotaCalls -> Sessions]
  BY <1>2, OverIsQuiet, OthersWait DEF QuotaInv
<1>4. DroppedIsOld'
  <2>1. ledger' = Kept(ledger, s) \union {} /\ issued' = issued \union {} /\ {} \in SUBSET Row
    BY <1>2
  <2>2. QuotaTypeOK /\ DroppedIsOld /\ now' = now /\ service' = service
    BY <1>2 DEF QuotaInv
  <2> QED  BY <1>1, <2>1, <2>2, ClearingKeepsRecent, Zenon
<1>5. QuotaTypeOK'
  BY <1>2, <1>3, KeptIsLedger DEF QuotaInv, QuotaTypeOK
<1>6. LimitsHold' /\ RetriesSpendOnce' /\ IsFiniteSet(issued)'
  <2>1. \A limit, x : Spent(limit, x)' = Spent(limit, x)
    BY <1>2 DEF Spent
  <2> QED  BY <1>2, <2>1 DEF QuotaInv, LimitsHold, RetriesSpendOnce
<1> QED  BY <1>3, <1>4, <1>5, <1>6 DEF QuotaInv

LEMMA AdmittedStep ==
  ASSUME QuotaInv, NEW c \in QuotaCalls, Admitted(c)
  PROVE  QuotaInv'
<1> DEFINE s == session[c]
           n == RowOf(c, s)
<1>1. s \in Asked /\ Waits(s)
  BY AskingIsAsked DEF Admitted, QuotaInv, WaitingIsRecent
<1>2. /\ Known(s) = {} /\ ~Full(Kept(ledger, s), s)
      /\ ledger' = Kept(ledger, s) \union {n} /\ issued' = issued \union {n}
      /\ Grant(c, s, s.stamp) /\ UNCHANGED <<service, now, standing>>
  BY DEF Admitted
<1>3. n \in Row /\ s.stamp \in Nat
  BY <1>1, RowOfType DEF Asked
<1>4. WaitingIsRecent' /\ session' \in [QuotaCalls -> Sessions]
  BY <1>1, <1>2, <1>3, GrantedIsSession, OthersWait DEF QuotaInv, Grant
<1>5. DroppedIsOld'
  <2>1. {n} \in SUBSET Row /\ QuotaTypeOK /\ DroppedIsOld /\ now' = now /\ service' = service
    BY <1>2, <1>3 DEF QuotaInv
  <2> QED  BY <1>1, <1>2, <2>1, ClearingKeepsRecent, Zenon
<1>6. QuotaTypeOK'
  BY <1>2, <1>3, <1>4, KeptIsLedger DEF QuotaInv, QuotaTypeOK
<1>7. LimitsHold'
  BY <1>1, <1>2, AdmissionKeepsLimits DEF QuotaInv
<1>8. RetriesSpendOnce'
  BY <1>1, <1>2, AdmissionSpendsOnce DEF QuotaInv
<1>9. IsFiniteSet(issued)'
  BY <1>2, FS_AddElement DEF QuotaInv
<1> QED  BY <1>4, <1>5, <1>6, <1>7, <1>8, <1>9 DEF QuotaInv

LEMMA RoomEndsStep ==
  ASSUME QuotaInv, NEW room \in QuotaRooms, NEW how \in {"expired", "deleted"},
         RoomEnds(room, how)
  PROVE  QuotaInv'
<1>1. standing' \in [QuotaRooms -> {"open", "expired", "deleted"}]
  BY DEF RoomEnds, QuotaInv, QuotaTypeOK
<1>2. WaitingIsRecent' /\ session' \in [QuotaCalls -> Sessions]
  BY DEF RoomEnds, QuotaInv, QuotaTypeOK, WaitingIsRecent, Waits
<1> QED  BY <1>1, <1>2, LedgerAlone DEF RoomEnds, QuotaInv, QuotaTypeOK

LEMMA QuotaTickStep ==
  ASSUME QuotaInv, QuotaTick
  PROVE  QuotaInv'
<1>1. now \in Nat /\ now' = now + 1
      /\ UNCHANGED <<service, standing, session, ledger, issued>>
  BY DEF QuotaTick, QuotaInv, QuotaTypeOK
<1>2. QuotaTypeOK'
  BY <1>1 DEF QuotaInv, QuotaTypeOK
<1>3. WaitingIsRecent'
  <2> SUFFICES ASSUME NEW c \in QuotaCalls, session[c].at \in {"reading", "asking"}
               PROVE  Waits(session[c])'
    BY <1>1 DEF WaitingIsRecent
  <2>1. session[c] \in Asked /\ Waits(session[c]) /\ now < session[c].stamp + MaxWait
    BY AskingIsAsked DEF QuotaInv, WaitingIsRecent, QuotaTick
  <2>2. session[c].stamp \in Nat /\ MaxWait \in Nat
    BY <2>1, QuotaAssumption DEF QuotaAssumption, Asked
  <2> QED  BY <1>1, <2>1, <2>2 DEF Waits
<1>4. DroppedIsOld'
  <2>1. \A r \in issued : r.at \in Nat
    BY DEF QuotaInv, QuotaTypeOK, Row
  <2>2. Retention \in Nat
    BY QuotaAssumption DEF QuotaAssumption
  <2> QED  BY <1>1, <2>1, <2>2 DEF QuotaInv, DroppedIsOld
<1>5. LimitsHold' /\ RetriesSpendOnce' /\ IsFiniteSet(issued)'
  <2>1. \A limit, x : Spent(limit, x)' = Spent(limit, x)
    BY <1>1 DEF Spent
  <2> QED  BY <1>1, <2>1 DEF QuotaInv, LimitsHold, RetriesSpendOnce
<1> QED  BY <1>2, <1>3, <1>4, <1>5 DEF QuotaInv

(* The invariant of the ledgers: each call keeps the limits and the replays,*)
(* whatever was let in between its reading of the clock and its own count.  *)
THEOREM QuotaInvariant == QuotaSpec => []QuotaInv
<1>1. QuotaInit => QuotaInv
  BY QuotaInitially
<1>2. QuotaInv /\ [QuotaNext]_quotaVars => QuotaInv'
  <2> SUFFICES ASSUME QuotaInv, [QuotaNext]_quotaVars  PROVE  QuotaInv'
    OBVIOUS
  <2>1. ASSUME NEW c \in QuotaCalls, Call(c)  PROVE  QuotaInv'
    <3>1. ASSUME NEW actor \in QuotaActors, NEW room \in QuotaRooms,
                 NEW id \in IF service = "turn" THEN RequestIds ELSE {NoId},
                 Arrive(c, actor, room, id)
          PROVE  QuotaInv'
      BY <3>1, ArriveStep
    <3> QED  BY <2>1, <3>1, ReadDayStep, RejectedStep, ReplayedStep, DeniedStep,
                AdmittedStep DEF Call
  <2>2. CASE UNCHANGED quotaVars
    <3>1. UNCHANGED <<service, now, standing, session, ledger, issued>>
      BY <2>2 DEF quotaVars
    <3>2. \A limit, x : Spent(limit, x)' = Spent(limit, x)
      BY <3>1 DEF Spent
    <3>3. LimitsHold' /\ RetriesSpendOnce' /\ IsFiniteSet(issued)'
      BY <3>1, <3>2 DEF QuotaInv, LimitsHold, RetriesSpendOnce
    <3> QED  BY <3>1, <3>3 DEF QuotaInv, QuotaTypeOK, WaitingIsRecent, Waits, DroppedIsOld
  <2> QED  BY <2>1, <2>2, RoomEndsStep, QuotaTickStep DEF QuotaNext
<1> QED  BY <1>1, <1>2, PTL DEF QuotaSpec

(* No span of any ledger holds more sessions than its limit.               *)
THEOREM LimitsAlwaysHold == QuotaSpec => []LimitsHold
<1>1. QuotaInv => LimitsHold
  BY DEF QuotaInv
<1> QED  BY <1>1, QuotaInvariant, PTL

(* A repeated TURN request spends the limits once while its row is kept.   *)
THEOREM RetriesAlwaysSpendOnce == QuotaSpec => []RetriesSpendOnce
<1>1. QuotaInv => RetriesSpendOnce
  BY DEF QuotaInv
<1> QED  BY <1>1, QuotaInvariant, PTL

-----------------------------------------------------------------------------
(* The room's realtime controller.                                         *)
(*                                                                         *)
(* What holds of RoomRealtime for any number of channel objects and any    *)
(* bound on the attempts.  Sound says what the controller's variables have *)
(* to do with each other, Held what they have to do with the channels that *)
(* are open.  Each function of the controller is shown to keep Sound by a  *)
(* lemma of its own; an action is then a few assignments and one such      *)
(* lemma.                                                                  *)

(* A channel is held while no work is under way, or is being removed by    *)
(* the work; what is set for later is set for a reason.                    *)
Sound(r) ==
  /\ r.channel # NoChannel => r.work = "none" /\ r.removing = NoChannel
  /\ r.work = "removal" => r.removing # NoChannel
  /\ r.work = "auth" => r.removing = NoChannel
  /\ r.timer => r.work = "none" /\ r.needed /\ r.online /\ ~r.awaiting
                /\ r.attempts < MaxAttempts
  /\ r.again => r.work # "none" /\ ~r.awaiting
  /\ r.awaiting => r.needed /\ r.online
  /\ r.disposal # "none" =>
       ~r.needed /\ ~r.awaiting /\ ~r.timer /\ ~r.again /\ ~r.deadline
  /\ r.disposal \in {"removing", "done"} => r.channel = NoChannel /\ r.removing = NoChannel
  /\ r.status = "connected" /\ r.disposal = "none" =>
       ~r.needed /\ r.channel # NoChannel /\ r.fresh
  /\ r.status = "unstarted" =>
       /\ r.channel = NoChannel /\ r.removing = NoChannel /\ r.work = "none" /\ r.disposal = "none"
       /\ ~r.needed /\ ~r.awaiting /\ ~r.again /\ ~r.deadline

(* A failure has something set for it.                                     *)
Remembered(r) ==
  r.needed /\ r.online /\ r.attempts < MaxAttempts => r.timer \/ r.awaiting \/ r.again

Held ==
  /\ NoOrphanedChannel
  /\ \A c \in {ctl.channel, ctl.removing} \ {NoChannel} : life[c] = "open"
  /\ leaving # {} => ctl.disposal = "removing"
  /\ \A a, b \in leaving : a = b

(* The channel whose outcome is waited for can still have one; the one     *)
(* that was reported connected is in use.                                  *)
Outcomes ==
  /\ ctl.awaiting /\ ctl.work = "none" =>
       /\ ctl.channel # NoChannel /\ ctl.fresh
       /\ ~terminal[ctl.channel] /\ track[ctl.channel] # "done"
  /\ ctl.status = "connected" /\ ~isDisposed =>
       ~terminal[ctl.channel] /\ track[ctl.channel] = "done"

RealtimeInv == RealtimeTypeOK /\ Sound(ctl) /\ Remembered(ctl) /\ Held /\ Outcomes

-----------------------------------------------------------------------------
(* The functions of the controller.                                        *)

(* What ScheduleRecovery(r, _) makes of r.                                 *)
Follows(r, q) ==
  /\ q \in Controllers /\ Sound(q) /\ Remembered(q)
  /\ q.disposal = r.disposal
  /\ {q.channel, q.removing} = {r.channel, r.removing}
  /\ q.awaiting /\ q.work = "none" => r.awaiting /\ q = r
  /\ q.status = "connected" => q = r

LEMMA ReplaceSound ==
  ASSUME NEW r \in Controllers, Sound(r), r.disposal = "none", r.status # "unstarted",
         r.needed, r.online, r.work = "none", ~r.awaiting, ~r.timer,
         r.attempts < MaxAttempts
  PROVE  Follows(r, StartRecoveryAttempt(r))
<1> DEFINE n == r.attempts + 1
           begun == [r EXCEPT !.awaiting = TRUE, !.attempts = n]
           q == StartRecoveryAttempt(r)
<1>1. q = Replace(begun)
  BY DEF StartRecoveryAttempt
<1>2. n \in 0..MaxAttempts
  BY RealtimeAssumption DEF RealtimeAssumption, Controllers
<1>3. begun \in Controllers
  <2> HIDE DEF n
  <2> QED
    BY <1>2, Zenon DEF Controllers
<1>4. /\ begun.channel = r.channel /\ begun.removing = r.removing /\ begun.work = "none"
      /\ begun.needed /\ begun.online /\ begun.awaiting /\ ~begun.timer
      /\ begun.again = r.again /\ begun.disposal = "none" /\ begun.status = r.status
  BY DEF Controllers
<1> HIDE DEF begun
<1>5. CASE r.removing = NoChannel /\ r.channel = NoChannel
  <2>1. q = [begun EXCEPT !.status = "connecting", !.work = "auth"]
    BY <1>1, <1>3, <1>4, <1>5 DEF Replace, Establishing, Emit, Controllers
  <2>2. q \in Controllers
    BY <2>1, <1>3, Zenon DEF Controllers, Statuses
  <2>3. /\ q.channel = begun.channel /\ q.removing = begun.removing /\ q.work = "auth"
        /\ q.needed = begun.needed /\ q.online = begun.online /\ q.awaiting = begun.awaiting
        /\ q.timer = begun.timer /\ q.again = begun.again /\ q.disposal = begun.disposal
        /\ q.status = "connecting"
    BY <2>1, <1>3 DEF Controllers
  <2> QED
    BY <2>2, <2>3, <1>4, <1>5 DEF Follows, Sound, Remembered
<1>6. CASE r.removing # NoChannel
  <2>1. q = [begun EXCEPT !.work = "removal"]
    BY <1>1, <1>4, <1>6 DEF Replace
  <2>2. q \in Controllers
    BY <2>1, <1>3, Zenon DEF Controllers
  <2>3. /\ q.channel = begun.channel /\ q.removing = begun.removing /\ q.work = "removal"
        /\ q.needed = begun.needed /\ q.online = begun.online /\ q.awaiting = begun.awaiting
        /\ q.timer = begun.timer /\ q.again = begun.again /\ q.disposal = begun.disposal
        /\ q.status = begun.status
    BY <2>1, <1>3 DEF Controllers
  <2> QED
    BY <2>2, <2>3, <1>4, <1>6 DEF Follows, Sound, Remembered
<1>7. CASE r.removing = NoChannel /\ r.channel # NoChannel
  <2>1. q = [begun EXCEPT !.removing = r.channel, !.channel = NoChannel, !.work = "removal"]
    BY <1>1, <1>4, <1>7 DEF Replace
  <2>2. q \in Controllers
    BY <2>1, <1>3, Zenon DEF Controllers
  <2>3. /\ q.channel = NoChannel /\ q.removing = r.channel /\ q.work = "removal"
        /\ q.needed = begun.needed /\ q.online = begun.online /\ q.awaiting = begun.awaiting
        /\ q.timer = begun.timer /\ q.again = begun.again /\ q.disposal = begun.disposal
        /\ q.status = begun.status
    BY <2>1, <1>3 DEF Controllers
  <2> QED
    BY <2>2, <2>3, <1>4, <1>7 DEF Follows, Sound, Remembered
<1> QED
  BY <1>5, <1>6, <1>7

LEMMA ScheduleSound ==
  ASSUME NEW r \in Controllers, NEW immediate \in BOOLEAN, Sound(r), r.disposal = "none"
  PROVE  Follows(r, ScheduleRecovery(r, immediate))
<1> DEFINE q == ScheduleRecovery(r, immediate)
<1> USE DEF NothingToSchedule
<1>1. CASE NothingToSchedule(r)
  <2>1. q = r
    BY <1>1 DEF ScheduleRecovery
  <2> QED
    BY <2>1, <1>1 DEF Follows, Remembered
<1>2. CASE ~NothingToSchedule(r) /\ r.work # "none"
  <2>1. q = [r EXCEPT !.again = TRUE, !.atOnce = @ \/ immediate]
    BY <1>2 DEF ScheduleRecovery
  <2>2. r.atOnce \/ immediate \in BOOLEAN
    OBVIOUS
  <2>3. q \in Controllers
    BY <2>1, <2>2, Zenon DEF Controllers
  <2>4. /\ q.channel = r.channel /\ q.removing = r.removing /\ q.work = r.work
        /\ q.needed = r.needed /\ q.online = r.online /\ q.awaiting = r.awaiting
        /\ q.timer = r.timer /\ q.again /\ q.disposal = r.disposal
        /\ q.status = r.status
    BY <2>1 DEF Controllers
  <2> QED
    BY <2>3, <2>4, <1>2 DEF Follows, Sound, Remembered
<1>3. CASE ~NothingToSchedule(r) /\ r.work = "none" /\ r.timer /\ ~immediate
  <2>1. q = r
    BY <1>3 DEF ScheduleRecovery
  <2> QED
    BY <2>1, <1>3 DEF Follows, Remembered
<1>4. CASE /\ ~NothingToSchedule(r) /\ r.work = "none" /\ ~(r.timer /\ ~immediate)
           /\ r.attempts >= MaxAttempts
  <2>1. q = [r EXCEPT !.timer = FALSE]
    BY <1>4 DEF ScheduleRecovery
  <2>2. q \in Controllers
    BY <2>1, Zenon DEF Controllers
  <2>3. /\ q.channel = r.channel /\ q.removing = r.removing /\ q.work = r.work
        /\ q.needed = r.needed /\ q.online = r.online /\ q.awaiting = r.awaiting
        /\ ~q.timer /\ q.again = r.again /\ q.disposal = r.disposal
        /\ q.status = r.status /\ q.attempts = r.attempts
    BY <2>1 DEF Controllers
  <2>4. ~(q.attempts < MaxAttempts)
    BY <2>3, <1>4, RealtimeAssumption DEF RealtimeAssumption, Controllers
  <2> QED
    BY <2>2, <2>3, <2>4, <1>4 DEF Follows, Sound, Remembered
<1>5. CASE /\ ~NothingToSchedule(r) /\ r.work = "none"
           /\ ~(r.attempts >= MaxAttempts) /\ immediate
  <2> DEFINE w == [r EXCEPT !.timer = FALSE]
  <2>1. q = StartRecoveryAttempt(w)
    BY <1>5 DEF ScheduleRecovery
  <2>2. w \in Controllers
    BY Zenon DEF Controllers
  <2>3. /\ w.channel = r.channel /\ w.removing = r.removing /\ w.work = r.work
        /\ w.needed = r.needed /\ w.online = r.online /\ w.awaiting = r.awaiting
        /\ ~w.timer /\ w.again = r.again /\ w.disposal = r.disposal
        /\ w.status = r.status /\ w.attempts = r.attempts /\ w.fresh = r.fresh
        /\ w.deadline = r.deadline
    BY DEF Controllers
  <2> HIDE DEF w
  <2>4. Sound(w) /\ w.status # "unstarted" /\ r.status # "connected"
    BY <2>3, <1>5 DEF Sound
  <2>5. w.attempts < MaxAttempts
    BY <2>3, <1>5, RealtimeAssumption DEF RealtimeAssumption, Controllers
  <2>6. Follows(w, q)
    BY <2>1, <2>2, <2>3, <2>4, <2>5, <1>5, ReplaceSound
  <2> QED
    BY <2>6, <2>3, <2>4, <1>5 DEF Follows
<1>6. CASE /\ ~NothingToSchedule(r) /\ r.work = "none"
           /\ ~(r.attempts >= MaxAttempts) /\ ~immediate /\ ~r.timer
  <2>1. q = [r EXCEPT !.timer = TRUE]
    BY <1>6 DEF ScheduleRecovery
  <2>2. q \in Controllers
    BY <2>1, Zenon DEF Controllers
  <2>3. /\ q.channel = r.channel /\ q.removing = r.removing /\ q.work = r.work
        /\ q.needed = r.needed /\ q.online = r.online /\ q.awaiting = r.awaiting
        /\ q.timer /\ q.again = r.again /\ q.disposal = r.disposal
        /\ q.status = r.status /\ q.attempts = r.attempts
    BY <2>1 DEF Controllers
  <2>4. q.attempts < MaxAttempts
    BY <2>3, <1>6, RealtimeAssumption DEF RealtimeAssumption, Controllers
  <2> QED
    BY <2>2, <2>3, <2>4, <1>6 DEF Follows, Sound, Remembered
<1> QED
  BY <1>1, <1>2, <1>3, <1>4, <1>5, <1>6

(* A connection attempt ends while the controller lives.                   *)
LEMMA SettleSound ==
  ASSUME ~isDisposed, NEW r \in Controllers, NEW ok \in BOOLEAN,
         r.disposal = "none", r.status \notin {"unstarted", "connected"},
         r.channel # NoChannel => r.removing = NoChannel, ~r.timer,
         r.awaiting => r.needed /\ r.online,
         ok => Remembered(r)
  PROVE  LET q == SettleWork(r, ok) IN
         /\ q \in Controllers /\ Sound(q) /\ Remembered(q)
         /\ q.disposal = "none" /\ q.status # "connected"
         /\ {q.channel, q.removing} = {r.channel, r.removing}
         /\ q.awaiting /\ q.work = "none" =>
              r.awaiting /\ ok /\ q.channel = r.channel /\ q.fresh = r.fresh
<1> DEFINE ended == [r EXCEPT !.work = "none", !.again = FALSE, !.atOnce = FALSE]
           failed == [ended EXCEPT !.status = "channel_error",
                                   !.needed = TRUE, !.awaiting = FALSE]
           q == SettleWork(r, ok)
<1>1. ended \in Controllers
  BY Zenon DEF Controllers
<1>2. /\ ended.channel = r.channel /\ ended.removing = r.removing /\ ended.work = "none"
      /\ ended.needed = r.needed /\ ended.online = r.online /\ ended.awaiting = r.awaiting
      /\ ~ended.timer /\ ~ended.again /\ ended.disposal = "none" /\ ended.status = r.status
      /\ ended.attempts = r.attempts /\ ended.fresh = r.fresh
  BY DEF Controllers
<1>3. r.atOnce \in BOOLEAN
  BY DEF Controllers
<1> HIDE DEF ended
<1>4. Sound(ended)
  BY <1>2 DEF Sound
<1>5. CASE ~ok
  <2>1. q = ScheduleRecovery(failed, r.atOnce)
    <3>1. [Emit(ended, "channel_error") EXCEPT !.needed = TRUE, !.awaiting = FALSE] = failed
      BY <1>1 DEF Emit, Controllers
    <3> QED
      BY <3>1, <1>5 DEF SettleWork, ended
  <2>2. failed \in Controllers
    BY <1>1, Zenon DEF Controllers, Statuses, Failures
  <2>3. /\ failed.channel = ended.channel /\ failed.removing = ended.removing
        /\ failed.work = "none" /\ ~failed.awaiting /\ ~failed.timer /\ ~failed.again
        /\ failed.disposal = "none" /\ failed.status = "channel_error"
    BY <1>1, <1>2 DEF Controllers
  <2> HIDE DEF failed
  <2>4. Sound(failed)
    BY <1>2, <2>3 DEF Sound
  <2>5. Follows(failed, q)
    BY <2>1, <2>2, <2>3, <2>4, <1>3, ScheduleSound
  <2> QED
    BY <2>5, <2>3, <1>2 DEF Follows
<1>6. CASE ok /\ r.again
  <2>1. q = ScheduleRecovery(ended, r.atOnce)
    BY <1>6 DEF SettleWork, ended
  <2>2. Follows(ended, q)
    BY <2>1, <1>1, <1>2, <1>3, <1>4, ScheduleSound
  <2> QED
    BY <2>2, <1>2, <1>6 DEF Follows
<1>7. CASE ok /\ ~r.again
  <2>1. q = ended
    BY <1>7 DEF SettleWork, ended
  <2>2. Remembered(ended)
    BY <1>2, <1>7 DEF Remembered
  <2> QED
    BY <2>1, <2>2, <1>1, <1>2, <1>4, <1>7
<1> QED
  BY <1>5, <1>6, <1>7

(* A failure is reported while no attempt is under way.                    *)
LEMMA RequestSound ==
  ASSUME NEW r \in Controllers, NEW status \in Failures, Sound(r),
         r.disposal = "none", r.work = "none"
  PROVE  LET q == RequestRecovery(r, status) IN
         /\ q \in Controllers /\ Sound(q) /\ Remembered(q)
         /\ q.disposal = "none" /\ q.status # "connected"
         /\ {q.channel, q.removing} = {r.channel, r.removing}
         /\ ~(q.awaiting /\ q.work = "none")
<1> DEFINE w == [r EXCEPT !.status = status, !.needed = TRUE, !.awaiting = FALSE]
           q == RequestRecovery(r, status)
<1>1. q = ScheduleRecovery(w, FALSE)
  <2>1. [Emit(r, status) EXCEPT !.needed = TRUE, !.awaiting = FALSE] = w
    BY DEF Emit, Controllers
  <2> QED
    BY <2>1 DEF RequestRecovery
<1>2. w \in Controllers
  <2>1. status \in Statuses
    BY DEF Statuses
  <2> QED
    BY <2>1, Zenon DEF Controllers
<1>3. /\ w.channel = r.channel /\ w.removing = r.removing /\ w.work = "none"
      /\ w.needed /\ w.online = r.online /\ ~w.awaiting /\ w.timer = r.timer
      /\ w.again = r.again /\ w.disposal = "none" /\ w.status = status
      /\ w.attempts = r.attempts
  BY DEF Controllers
<1>4. status \notin {"connected", "unstarted"}
  BY DEF Failures
<1> HIDE DEF w
<1>5. Sound(w)
  BY <1>3, <1>4 DEF Sound
<1>6. Follows(w, q)
  BY <1>1, <1>2, <1>3, <1>5, ScheduleSound
<1> QED
  BY <1>6, <1>3, <1>4 DEF Follows

-----------------------------------------------------------------------------
(* The steps.                                                              *)

LEMMA InitInv == RealtimeInit => RealtimeInv
<1> SUFFICES ASSUME RealtimeInit PROVE RealtimeInv
  OBVIOUS
<1>1. ctl.online \in BOOLEAN
  BY DEF RealtimeInit
<1>2. ctl = [status |-> "unstarted", channel |-> NoChannel, fresh |-> TRUE, removing |-> NoChannel,
             online |-> device, needed |-> FALSE, awaiting |-> FALSE, attempts |-> 0,
             timer |-> FALSE, work |-> "none", again |-> FALSE, atOnce |-> FALSE,
             deadline |-> FALSE, disposal |-> "none"]
  BY DEF RealtimeInit
<1>3. device \in BOOLEAN /\ 0 \in 0..MaxAttempts
  BY RealtimeAssumption DEF RealtimeAssumption, RealtimeInit
<1>4. ctl \in Controllers
  BY <1>2, <1>3, Zenon DEF Controllers, Statuses
<1>5. RealtimeTypeOK
  BY <1>3, <1>4 DEF RealtimeInit, RealtimeTypeOK
<1>6. Sound(ctl) /\ Remembered(ctl)
  BY <1>2 DEF Sound, Remembered
<1>7. Held /\ Outcomes
  BY <1>2 DEF RealtimeInit, Held, Outcomes, NoOrphanedChannel, Open, isDisposed
<1> QED
  BY <1>5, <1>6, <1>7 DEF RealtimeInv

(* A step of the living controller that leaves the channels as they are.   *)
LEMMA ControllerStep ==
  ASSUME RealtimeInv, UNCHANGED <<leaving, objectVars>>, device' \in BOOLEAN,
         ctl' \in Controllers, Sound(ctl'), Remembered(ctl'),
         ctl'.disposal = ctl.disposal,
         {ctl'.channel, ctl'.removing} = {ctl.channel, ctl.removing},
         ctl'.awaiting /\ ctl'.work = "none" =>
           /\ ctl.awaiting /\ ctl.work = "none"
           /\ ctl'.channel = ctl.channel /\ ctl'.fresh = ctl.fresh,
         ctl'.status = "connected" => ctl.status = "connected" /\ ctl'.channel = ctl.channel
  PROVE  RealtimeInv'
<1>1. RealtimeTypeOK'
  BY DEF RealtimeInv, RealtimeTypeOK, objectVars
<1>2. Held'
  BY DEF RealtimeInv, Held, NoOrphanedChannel, Open, objectVars
<1>3. Outcomes'
  BY DEF RealtimeInv, Outcomes, objectVars, isDisposed
<1> QED
  BY <1>1, <1>2, <1>3 DEF RealtimeInv

LEMMA ConnectStep == RealtimeInv /\ Connect => RealtimeInv'
<1> SUFFICES ASSUME RealtimeInv, Connect PROVE RealtimeInv'
  OBVIOUS
<1>1. /\ ctl \in Controllers /\ Sound(ctl) /\ Remembered(ctl) /\ ctl.status = "unstarted"
      /\ UNCHANGED <<device, leaving, objectVars>> /\ device' \in BOOLEAN
  BY DEF RealtimeInv, RealtimeTypeOK, Connect
<1>2. ASSUME NEW deadline \in BOOLEAN,
             ctl' = [Establishing(ctl) EXCEPT !.deadline = deadline]
      PROVE  RealtimeInv'
  <2> DEFINE q == [ctl EXCEPT !.status = "connecting", !.work = "auth", !.deadline = deadline]
  <2>1. ctl' = q
    BY <1>1, <1>2 DEF Establishing, Emit, Controllers
  <2>2. q \in Controllers
    BY <1>1, Zenon DEF Controllers, Statuses
  <2>3. /\ q.channel = ctl.channel /\ q.removing = ctl.removing /\ q.work = "auth"
        /\ q.needed = ctl.needed /\ q.awaiting = ctl.awaiting /\ q.timer = ctl.timer
        /\ q.again = ctl.again /\ q.disposal = ctl.disposal /\ q.status = "connecting"
    BY <1>1 DEF Controllers
  <2> HIDE DEF q
  <2>4. Sound(q) /\ Remembered(q)
    BY <1>1, <2>3 DEF Sound, Remembered
  <2> QED
    BY <1>1, <2>1, <2>2, <2>3, <2>4, ControllerStep
<1>3. CASE ctl' = DisposeNow(Emit(ctl, "closed"))
  <2> DEFINE q == [ctl EXCEPT !.status = "closed", !.disposal = "waiting",
                     !.needed = FALSE, !.awaiting = FALSE, !.again = FALSE,
                     !.atOnce = FALSE, !.timer = FALSE, !.deadline = FALSE]
  <2>1. ctl' = q
    BY <1>1, <1>3 DEF DisposeNow, Emit, Controllers
  <2>2. q \in Controllers
    BY <1>1, Zenon DEF Controllers, Statuses, Failures
  <2>3. /\ q.channel = NoChannel /\ q.removing = NoChannel /\ q.work = "none" /\ ~q.needed /\ ~q.awaiting
        /\ ~q.timer /\ ~q.again /\ ~q.deadline /\ q.disposal = "waiting" /\ q.status = "closed"
    BY <1>1 DEF Controllers, Sound
  <2> HIDE DEF q
  <2>4. Sound(q) /\ Remembered(q)
    BY <2>3 DEF Sound, Remembered
  <2>5. RealtimeTypeOK'
    BY <1>1, <2>1, <2>2 DEF RealtimeInv, RealtimeTypeOK, objectVars
  <2>6. Held' /\ Outcomes'
    BY <1>1, <2>1, <2>3 DEF RealtimeInv, Sound, Held, Outcomes, NoOrphanedChannel, Open, objectVars
  <2> QED
    BY <2>1, <2>4, <2>5, <2>6 DEF RealtimeInv
<1>4. CASE ctl' = [DisposeNow(Emit(ctl, "closed")) EXCEPT !.work = "auth", !.disposal = "removing"]
  <2> DEFINE q == [ctl EXCEPT !.status = "closed", !.disposal = "removing",
                     !.needed = FALSE, !.awaiting = FALSE, !.again = FALSE,
                     !.atOnce = FALSE, !.timer = FALSE, !.deadline = FALSE, !.work = "auth"]
  <2>1. ctl' = q
    BY <1>1, <1>4 DEF DisposeNow, Emit, Controllers
  <2>2. q \in Controllers
    BY <1>1, Zenon DEF Controllers, Statuses, Failures
  <2>3. /\ q.channel = NoChannel /\ q.removing = NoChannel /\ q.work = "auth" /\ ~q.needed /\ ~q.awaiting
        /\ ~q.timer /\ ~q.again /\ ~q.deadline /\ q.disposal = "removing" /\ q.status = "closed"
    BY <1>1 DEF Controllers, Sound
  <2> HIDE DEF q
  <2>4. Sound(q) /\ Remembered(q)
    BY <2>3 DEF Sound, Remembered
  <2>5. RealtimeTypeOK'
    BY <1>1, <2>1, <2>2 DEF RealtimeInv, RealtimeTypeOK, objectVars
  <2>6. Held' /\ Outcomes'
    BY <1>1, <2>1, <2>3 DEF RealtimeInv, Sound, Held, Outcomes, NoOrphanedChannel, Open, objectVars
  <2> QED
    BY <2>1, <2>4, <2>5, <2>6 DEF RealtimeInv
<1> QED
  BY <1>2, <1>3, <1>4 DEF Connect

(* While an attempt is under way there is nothing that Settle cannot take. *)
LEMMA WorkFacts ==
  ASSUME RealtimeInv, ctl.work # "none"
  PROVE  /\ ctl \in Controllers /\ Sound(ctl) /\ Remembered(ctl)
         /\ ctl.channel = NoChannel /\ ~ctl.timer /\ ctl.status # "unstarted"
         /\ ctl.awaiting => ctl.needed /\ ctl.online
         /\ ~isDisposed => ctl.status # "connected" /\ ctl.disposal = "none"
  BY DEF RealtimeInv, RealtimeTypeOK, Sound, isDisposed

LEMMA FailedWorkStep == RealtimeInv /\ (AuthRefused \/ RemovalFails) => RealtimeInv'
<1> SUFFICES ASSUME RealtimeInv, AuthRefused \/ RemovalFails PROVE RealtimeInv'
  OBVIOUS
<1>1. /\ ctl.work # "none" /\ ctl' = SettleWork(ctl, FALSE)
      /\ UNCHANGED <<device, leaving, objectVars>>
  BY DEF AuthRefused, RemovalFails
<1>2. device' \in BOOLEAN
  BY <1>1 DEF RealtimeInv, RealtimeTypeOK
<1>3. CASE ~isDisposed
  BY <1>1, <1>2, <1>3, WorkFacts, SettleSound, ControllerStep DEF Sound
<1>4. CASE isDisposed
  <2> DEFINE q == [ctl EXCEPT !.work = "none", !.again = FALSE, !.atOnce = FALSE]
  <2>1. ctl' = q
    BY <1>1, <1>4 DEF SettleWork
  <2>2. q \in Controllers
    BY <1>1, WorkFacts, Zenon DEF Controllers
  <2>3. /\ q.channel = ctl.channel /\ q.removing = ctl.removing /\ q.work = "none"
        /\ q.needed = ctl.needed /\ q.awaiting = ctl.awaiting /\ q.timer = ctl.timer
        /\ ~q.again /\ q.disposal = ctl.disposal /\ q.status = ctl.status
        /\ q.deadline = ctl.deadline
    BY <1>1, WorkFacts DEF Controllers
  <2> HIDE DEF q
  <2>4. Sound(q) /\ Remembered(q) /\ ~q.awaiting
    BY <1>1, <1>4, <2>3, WorkFacts DEF Sound, Remembered, isDisposed
  <2>5. q.status = "connected" => ctl.status = "connected" /\ q.channel = ctl.channel
    BY <2>3
  <2> QED
    BY <1>1, <1>2, <2>1, <2>2, <2>3, <2>4, <2>5, ControllerStep
<1> QED
  BY <1>3, <1>4

LEMMA EstablishDisposedStep == RealtimeInv /\ EstablishDisposed => RealtimeInv'
<1> SUFFICES ASSUME RealtimeInv, EstablishDisposed PROVE RealtimeInv'
  OBVIOUS
<1>1. /\ ctl.work # "none" /\ isDisposed /\ ctl' = SettleWork(ctl, TRUE)
      /\ UNCHANGED <<device, leaving, objectVars>>
  BY DEF EstablishDisposed
<1> DEFINE q == [ctl EXCEPT !.work = "none", !.again = FALSE, !.atOnce = FALSE]
<1>2. ctl' = q
  BY <1>1 DEF SettleWork
<1>3. q \in Controllers
  BY <1>1, WorkFacts, Zenon DEF Controllers
<1>4. /\ q.channel = ctl.channel /\ q.removing = ctl.removing /\ q.work = "none"
      /\ q.needed = ctl.needed /\ q.awaiting = ctl.awaiting /\ q.timer = ctl.timer
      /\ ~q.again /\ q.disposal = ctl.disposal /\ q.status = ctl.status
      /\ q.deadline = ctl.deadline
  BY <1>1, WorkFacts DEF Controllers
<1> HIDE DEF q
<1>5. Sound(q) /\ Remembered(q) /\ ~q.awaiting
  BY <1>1, <1>4, WorkFacts DEF Sound, Remembered, isDisposed
<1>6. device' \in BOOLEAN
  BY <1>1 DEF RealtimeInv, RealtimeTypeOK
<1> QED
  BY <1>1, <1>2, <1>3, <1>4, <1>5, <1>6, ControllerStep

LEMMA TimerStep == RealtimeInv /\ TimerFires => RealtimeInv'
<1> SUFFICES ASSUME RealtimeInv, TimerFires PROVE RealtimeInv'
  OBVIOUS
<1> DEFINE w == [ctl EXCEPT !.timer = FALSE]
           q == StartRecoveryAttempt(w)
<1>1. /\ ctl \in Controllers /\ Sound(ctl) /\ ctl.timer /\ ctl' = q
      /\ UNCHANGED <<device, leaving, objectVars>> /\ device' \in BOOLEAN
  BY DEF RealtimeInv, RealtimeTypeOK, TimerFires
<1>2. w \in Controllers
  BY <1>1, Zenon DEF Controllers
<1>3. /\ w.channel = ctl.channel /\ w.removing = ctl.removing /\ w.work = ctl.work
      /\ w.needed = ctl.needed /\ w.online = ctl.online /\ w.awaiting = ctl.awaiting
      /\ ~w.timer /\ w.again = ctl.again /\ w.disposal = ctl.disposal
      /\ w.status = ctl.status /\ w.attempts = ctl.attempts
  BY <1>1 DEF Controllers
<1> HIDE DEF w
<1>4. /\ Sound(w) /\ w.disposal = "none" /\ w.status # "unstarted" /\ w.status # "connected"
      /\ w.needed /\ w.online /\ w.work = "none" /\ ~w.awaiting /\ w.attempts < MaxAttempts
  BY <1>1, <1>3 DEF Sound
<1>5. Follows(w, q)
  BY <1>2, <1>3, <1>4, ReplaceSound
<1> QED
  BY <1>1, <1>3, <1>4, <1>5, ControllerStep DEF Follows

LEMMA EstablishStep == RealtimeInv /\ Establish => RealtimeInv'
<1> SUFFICES ASSUME RealtimeInv, Establish PROVE RealtimeInv'
  OBVIOUS
<1>1. /\ ctl.work = "auth" /\ ~isDisposed /\ device' = device /\ leaving' = leaving
  BY DEF Establish
<1>2. PICK c \in Channels :
        /\ life[c] = "free"
        /\ life' = [life EXCEPT ![c] = "open"]
        /\ track' = [track EXCEPT ![c] = "unstarted"]
        /\ LET made == [ctl EXCEPT !.channel = c, !.fresh = TRUE] IN
           \/ /\ ctl' = SettleWork(made, TRUE)
              /\ terminal' = [terminal EXCEPT ![c] = FALSE]
           \/ \E status \in Failures :
                /\ ctl' = SettleWork(RequestRecovery(made, status), TRUE)
                /\ terminal' = [terminal EXCEPT ![c] = TRUE]
  BY DEF Establish
<1> DEFINE made == [ctl EXCEPT !.channel = c, !.fresh = TRUE]
<1>3. /\ ctl \in Controllers /\ Sound(ctl) /\ Remembered(ctl) /\ ctl.channel = NoChannel
      /\ ctl.removing = NoChannel /\ ~ctl.timer /\ ctl.status \notin {"unstarted", "connected"}
      /\ ctl.disposal = "none" /\ (ctl.awaiting => ctl.needed /\ ctl.online)
      /\ c # NoChannel /\ leaving = {}
  BY <1>1, WorkFacts, RealtimeAssumption DEF RealtimeAssumption, Sound, RealtimeInv, Held, isDisposed
<1>4. made \in Controllers
  BY <1>3, Zenon DEF Controllers
<1>5. /\ made.channel = c /\ made.removing = NoChannel /\ made.work = "auth" /\ made.fresh
      /\ made.needed = ctl.needed /\ made.online = ctl.online /\ made.awaiting = ctl.awaiting
      /\ made.timer = ctl.timer /\ made.again = ctl.again /\ made.disposal = "none"
      /\ made.status = ctl.status /\ made.attempts = ctl.attempts
  BY <1>1, <1>3 DEF Controllers
<1> HIDE DEF made
<1> DEFINE Established ==
      /\ ctl' \in Controllers /\ Sound(ctl') /\ Remembered(ctl')
      /\ ctl'.disposal = "none" /\ ctl'.status # "connected"
      /\ {ctl'.channel, ctl'.removing} = {c, NoChannel}
      /\ ctl'.awaiting /\ ctl'.work = "none" =>
           ctl'.channel = c /\ ctl'.fresh /\ ~terminal'[c]
<1>6. Established
  <2>1. CASE ctl' = SettleWork(made, TRUE) /\ terminal' = [terminal EXCEPT ![c] = FALSE]
    <3>1. Remembered(made)
      BY <1>3, <1>5 DEF Remembered
    <3>2. ~terminal'[c]
      BY <2>1 DEF RealtimeInv, RealtimeTypeOK
    <3>3. /\ made.status \notin {"unstarted", "connected"} /\ ~made.timer
          /\ (made.channel # NoChannel => made.removing = NoChannel)
          /\ (made.awaiting => made.needed /\ made.online)
      BY <1>3, <1>5
    <3> DEFINE q == SettleWork(made, TRUE)
    <3>4. /\ q \in Controllers /\ Sound(q) /\ Remembered(q)
          /\ q.disposal = "none" /\ q.status # "connected"
          /\ {q.channel, q.removing} = {made.channel, made.removing}
          /\ q.awaiting /\ q.work = "none" => q.channel = made.channel /\ q.fresh = made.fresh
      BY <1>1, <1>4, <1>5, <3>1, <3>3, SettleSound
    <3>5. ctl' = q
      BY <2>1
    <3> HIDE DEF q
    <3> QED
      BY <1>5, <3>2, <3>4, <3>5
  <2>2. ASSUME NEW status \in Failures, ctl' = SettleWork(RequestRecovery(made, status), TRUE)
        PROVE  Established
    <3> DEFINE w == [made EXCEPT !.status = status, !.needed = TRUE, !.awaiting = FALSE]
               q == RequestRecovery(made, status)
               z == [w EXCEPT !.again = TRUE, !.atOnce = @ \/ FALSE]
    <3>1. q = ScheduleRecovery(w, FALSE)
      <4>1. [Emit(made, status) EXCEPT !.needed = TRUE, !.awaiting = FALSE] = w
        BY <1>4 DEF Emit, Controllers
      <4> QED
        BY <4>1 DEF RequestRecovery
    <3>2. w \in Controllers
      <4>1. status \in Statuses
        BY DEF Statuses
      <4> QED
        BY <1>4, <4>1, Zenon DEF Controllers
    <3>3. /\ w.channel = c /\ w.removing = NoChannel /\ w.work = "auth" /\ w.needed
          /\ w.online = ctl.online /\ ~w.awaiting /\ ~w.timer /\ w.disposal = "none"
          /\ w.status = status /\ w.attempts = ctl.attempts
      BY <1>3, <1>4, <1>5 DEF Controllers
    <3>4. status \notin {"unstarted", "connected"}
      BY DEF Failures
    <3> HIDE DEF w
    <3>5. /\ q \in Controllers /\ q.channel = c /\ q.removing = NoChannel /\ ~q.awaiting /\ ~q.timer
          /\ q.disposal = "none" /\ q.status = status /\ Remembered(q)
      <4>1. CASE ~w.online
        <5>1. q = w
          BY <3>1, <4>1 DEF ScheduleRecovery, NothingToSchedule
        <5> QED
          BY <5>1, <3>2, <3>3, <4>1 DEF Remembered
      <4>2. CASE w.online
        <5>1. q = z
          BY <3>1, <3>3, <4>2 DEF ScheduleRecovery, NothingToSchedule
        <5>2. w.atOnce \/ FALSE \in BOOLEAN
          BY <3>2 DEF Controllers
        <5>3. z \in Controllers
          BY <3>2, <5>2, Zenon DEF Controllers
        <5>4. /\ z.channel = w.channel /\ z.removing = w.removing /\ z.awaiting = w.awaiting
              /\ z.timer = w.timer /\ z.disposal = w.disposal /\ z.status = w.status /\ z.again
          BY <3>2 DEF Controllers
        <5> QED
          BY <5>1, <5>3, <5>4, <3>3 DEF Remembered
      <4> QED
        BY <4>1, <4>2
    <3> HIDE DEF q
    <3> DEFINE e == SettleWork(q, TRUE)
    <3>6. /\ e \in Controllers /\ Sound(e) /\ Remembered(e)
          /\ e.disposal = "none" /\ e.status # "connected"
          /\ {e.channel, e.removing} = {q.channel, q.removing}
          /\ ~(e.awaiting /\ e.work = "none")
      BY <1>1, <3>4, <3>5, SettleSound
    <3>7. ctl' = e
      BY <2>2 DEF q
    <3> HIDE DEF e
    <3> QED
      BY <3>5, <3>6, <3>7
  <2>3. \/ ctl' = SettleWork(made, TRUE) /\ terminal' = [terminal EXCEPT ![c] = FALSE]
        \/ \E status \in Failures : ctl' = SettleWork(RequestRecovery(made, status), TRUE)
    BY <1>2, Zenon DEF made
  <2> HIDE DEF Established
  <2> QED
    BY <2>1, <2>2, <2>3, Zenon
<1>7. RealtimeTypeOK'
  BY <1>1, <1>2, <1>6 DEF RealtimeInv, RealtimeTypeOK
<1>8. Held'
  <2>1. \A d \in Channels : life'[d] = "open" => d = c
    BY <1>2, <1>3, RealtimeAssumption
       DEF RealtimeAssumption, RealtimeInv, RealtimeTypeOK, Held, NoOrphanedChannel, Open
  <2>2. life'[c] = "open"
    BY <1>2 DEF RealtimeInv, RealtimeTypeOK
  <2> QED
    BY <1>1, <1>3, <1>6, <2>1, <2>2 DEF Held, NoOrphanedChannel, Open
<1>9. Outcomes'
  <2>1. track'[c] = "unstarted"
    BY <1>2 DEF RealtimeInv, RealtimeTypeOK
  <2> QED
    BY <1>3, <1>6, <2>1 DEF Outcomes
<1> QED
  BY <1>6, <1>7, <1>8, <1>9 DEF RealtimeInv

LEMMA RemoveFailedStep == RealtimeInv /\ RemoveFailed => RealtimeInv'
<1> SUFFICES ASSUME RealtimeInv, RemoveFailed PROVE RealtimeInv'
  OBVIOUS
<1> DEFINE removed == [ctl EXCEPT !.removing = NoChannel]
<1>1. /\ ctl.work = "removal" /\ device' = device /\ leaving' = leaving
      /\ UNCHANGED <<terminal, track>>
      /\ life' = [c \in Channels |-> IF c = ctl.removing THEN "closed" ELSE life[c]]
      /\ ctl' = IF isDisposed THEN SettleWork(removed, TRUE) ELSE Establishing(removed)
  BY DEF RemoveFailed
<1>2. /\ ctl \in Controllers /\ Sound(ctl) /\ Remembered(ctl) /\ ctl.channel = NoChannel
      /\ ctl.removing # NoChannel /\ ~ctl.timer /\ ctl.status # "unstarted"
  BY <1>1, WorkFacts DEF Sound
<1>3. removed \in Controllers
  BY <1>2, Zenon DEF Controllers
<1>4. /\ removed.channel = NoChannel /\ removed.removing = NoChannel /\ removed.work = "removal"
      /\ removed.needed = ctl.needed /\ removed.online = ctl.online
      /\ removed.awaiting = ctl.awaiting /\ removed.timer = ctl.timer
      /\ removed.again = ctl.again /\ removed.disposal = ctl.disposal
      /\ removed.status = ctl.status /\ removed.deadline = ctl.deadline
      /\ removed.attempts = ctl.attempts
  BY <1>1, <1>2 DEF Controllers
<1> HIDE DEF removed
<1>5. /\ ctl' \in Controllers /\ Sound(ctl') /\ Remembered(ctl')
      /\ ctl'.channel = NoChannel /\ ctl'.removing = NoChannel /\ ctl'.disposal = ctl.disposal
      /\ ~(ctl'.awaiting /\ ctl'.work = "none")
      /\ ctl'.status = "connected" => isDisposed
  <2>1. CASE isDisposed
    <3> DEFINE q == [removed EXCEPT !.work = "none", !.again = FALSE, !.atOnce = FALSE]
    <3>1. ctl' = q
      BY <1>1, <2>1 DEF SettleWork
    <3>2. q \in Controllers
      BY <1>3, Zenon DEF Controllers
    <3>3. /\ q.channel = NoChannel /\ q.removing = NoChannel /\ q.work = "none"
          /\ q.needed = ctl.needed /\ q.awaiting = ctl.awaiting /\ q.timer = ctl.timer
          /\ ~q.again /\ q.disposal = ctl.disposal /\ q.status = ctl.status
          /\ q.deadline = ctl.deadline
      BY <1>3, <1>4 DEF Controllers
    <3> HIDE DEF q
    <3> QED
      BY <1>2, <2>1, <3>1, <3>2, <3>3 DEF Sound, Remembered, isDisposed
  <2>2. CASE ~isDisposed
    <3> DEFINE q == [removed EXCEPT !.status = "connecting", !.work = "auth"]
    <3>1. ctl' = q
      BY <1>1, <1>3, <2>2 DEF Establishing, Emit, Controllers
    <3>2. q \in Controllers
      BY <1>3, Zenon DEF Controllers, Statuses
    <3>3. /\ q.channel = NoChannel /\ q.removing = NoChannel /\ q.work = "auth"
          /\ q.needed = ctl.needed /\ q.online = ctl.online /\ q.awaiting = ctl.awaiting
          /\ q.timer = ctl.timer /\ q.again = ctl.again /\ q.disposal = ctl.disposal
          /\ q.status = "connecting" /\ q.deadline = ctl.deadline
          /\ q.attempts = ctl.attempts
      BY <1>3, <1>4 DEF Controllers
    <3> HIDE DEF q
    <3> QED
      BY <1>1, <1>2, <2>2, <3>1, <3>2, <3>3 DEF Sound, Remembered, isDisposed
  <2> QED
    BY <2>1, <2>2
<1>6. RealtimeTypeOK'
  BY <1>1, <1>5 DEF RealtimeInv, RealtimeTypeOK
<1>7. Held'
  BY <1>1, <1>2, <1>5 DEF RealtimeInv, RealtimeTypeOK, Held, NoOrphanedChannel, Open
<1>8. Outcomes'
  BY <1>5 DEF Outcomes, isDisposed
<1> QED
  BY <1>5, <1>6, <1>7, <1>8 DEF RealtimeInv

(* A current channel is held, open, and no work is under way.              *)
LEMMA CurrentFacts ==
  ASSUME RealtimeInv, NEW c \in Channels, IsCurrent(c)
  PROVE  /\ ctl \in Controllers /\ Sound(ctl) /\ ctl.disposal = "none"
         /\ ctl.channel = c /\ ctl.removing = NoChannel /\ ctl.work = "none"
         /\ life[c] = "open" /\ c # NoChannel
<1>1. c # NoChannel
  BY RealtimeAssumption DEF RealtimeAssumption
<1> QED
  BY <1>1 DEF RealtimeInv, RealtimeTypeOK, Sound, Held, IsCurrent, isDisposed

(* A failure reported by the current channel, which is terminal then.      *)
LEMMA FailureStep ==
  ASSUME RealtimeInv, NEW c \in Channels, IsCurrent(c), NEW status \in Failures,
         ctl' = RequestRecovery(ctl, status),
         terminal' = [terminal EXCEPT ![c] = TRUE],
         track' \in [Channels -> {"unstarted", "pending", "done"}],
         UNCHANGED <<device, leaving, life>>
  PROVE  RealtimeInv'
<1> DEFINE q == RequestRecovery(ctl, status)
<1>1. /\ q \in Controllers /\ Sound(q) /\ Remembered(q)
      /\ q.disposal = "none" /\ q.status # "connected"
      /\ {q.channel, q.removing} = {ctl.channel, ctl.removing}
      /\ ~(q.awaiting /\ q.work = "none")
  BY CurrentFacts, RequestSound
<1>2. ctl' = q
  OBVIOUS
<1> HIDE DEF q
<1>3. RealtimeTypeOK'
  BY <1>1, <1>2 DEF RealtimeInv, RealtimeTypeOK
<1>4. Held'
  BY <1>1, <1>2, CurrentFacts DEF RealtimeInv, Held, NoOrphanedChannel, Open
<1>5. Outcomes'
  BY <1>1, <1>2 DEF Outcomes
<1> QED
  BY <1>1, <1>2, <1>3, <1>4, <1>5 DEF RealtimeInv

LEMMA SubscriptionFailsStep ==
  ASSUME RealtimeInv, NEW c \in Channels, SubscriptionFails(c)
  PROVE  RealtimeInv'
<1>1. PICK status \in Failures : ctl' = RequestRecovery(ctl, status)
  BY DEF SubscriptionFails
<1>2. /\ IsCurrent(c) /\ terminal' = [terminal EXCEPT ![c] = TRUE]
      /\ UNCHANGED <<device, leaving, life>> /\ track' = track
  BY DEF SubscriptionFails
<1>3. track' \in [Channels -> {"unstarted", "pending", "done"}]
  BY <1>2 DEF RealtimeInv, RealtimeTypeOK
<1> QED
  BY <1>1, <1>2, <1>3, FailureStep

LEMMA SubscribedStep ==
  ASSUME RealtimeInv, NEW c \in Channels, Subscribed(c)
  PROVE  RealtimeInv'
<1>1. /\ UNCHANGED <<ctl, device, leaving, life, terminal>> /\ track[c] = "unstarted"
      /\ track' = [track EXCEPT ![c] = "pending"]
  BY DEF Subscribed
<1>2. RealtimeTypeOK'
  BY <1>1 DEF RealtimeInv, RealtimeTypeOK
<1>3. Held' /\ Sound(ctl') /\ Remembered(ctl')
  BY <1>1 DEF RealtimeInv, Held, NoOrphanedChannel, Open
<1>4. Outcomes'
  BY <1>1 DEF RealtimeInv, RealtimeTypeOK, Outcomes, isDisposed, IsCurrent
<1> QED
  BY <1>2, <1>3, <1>4 DEF RealtimeInv

(* The track call of a channel that does not count ends.                   *)
LEMMA IdleTrackStep ==
  ASSUME RealtimeInv, NEW c \in Channels, track[c] = "pending",
         track' = [track EXCEPT ![c] = "done"], ~(IsCurrent(c) /\ ~terminal[c]),
         UNCHANGED <<ctl, device, leaving, life, terminal>>
  PROVE  RealtimeInv'
<1>1. RealtimeTypeOK'
  BY DEF RealtimeInv, RealtimeTypeOK
<1>2. Held' /\ Sound(ctl') /\ Remembered(ctl')
  BY DEF RealtimeInv, Held, NoOrphanedChannel, Open
<1>3. ctl.disposal # "none" => ~ctl.awaiting
  BY DEF RealtimeInv, Sound
<1>4. Outcomes'
  BY <1>3 DEF RealtimeInv, RealtimeTypeOK, Outcomes, isDisposed, IsCurrent
<1> QED
  BY <1>1, <1>2, <1>4 DEF RealtimeInv

LEMMA TrackedStep ==
  ASSUME RealtimeInv, NEW c \in Channels, Tracked(c)
  PROVE  RealtimeInv'
<1>1. /\ track[c] = "pending" /\ track' = [track EXCEPT ![c] = "done"]
      /\ UNCHANGED <<device, leaving, life, terminal>>
      /\ ctl' = IF IsCurrent(c) /\ ~terminal[c] THEN Connected(ctl) ELSE ctl
  BY DEF Tracked
<1>2. CASE IsCurrent(c) /\ ~terminal[c]
  <2> DEFINE q == [ctl EXCEPT !.status = "connected", !.needed = FALSE, !.awaiting = FALSE,
                              !.attempts = 0, !.timer = FALSE]
  <2>1. /\ ctl \in Controllers /\ Sound(ctl) /\ ctl.disposal = "none"
        /\ ctl.channel = c /\ ctl.removing = NoChannel /\ ctl.work = "none"
        /\ life[c] = "open" /\ c # NoChannel /\ ctl.fresh
    BY <1>2, CurrentFacts DEF IsCurrent
  <2>2. ctl' = q
    BY <1>1, <1>2, <2>1 DEF Connected, Emit, Controllers
  <2>3. q \in Controllers
    <3>1. 0 \in 0..MaxAttempts
      BY RealtimeAssumption DEF RealtimeAssumption
    <3> QED
      BY <2>1, <3>1, Zenon DEF Controllers, Statuses
  <2>4. /\ q.channel = c /\ q.removing = NoChannel /\ q.work = "none" /\ ~q.needed /\ ~q.awaiting
        /\ ~q.timer /\ q.again = ctl.again /\ q.disposal = "none" /\ q.status = "connected"
        /\ q.fresh
    BY <2>1 DEF Controllers
  <2> HIDE DEF q
  <2>5. Sound(q) /\ Remembered(q)
    BY <2>1, <2>4 DEF Sound, Remembered
  <2>6. RealtimeTypeOK'
    BY <1>1, <2>2, <2>3 DEF RealtimeInv, RealtimeTypeOK
  <2>7. Held'
    BY <1>1, <2>1, <2>2, <2>4 DEF RealtimeInv, Held, NoOrphanedChannel, Open
  <2>8. Outcomes'
    BY <1>1, <1>2, <2>2, <2>4 DEF RealtimeInv, RealtimeTypeOK, Outcomes
  <2> QED
    BY <2>2, <2>5, <2>6, <2>7, <2>8 DEF RealtimeInv
<1>3. CASE ~(IsCurrent(c) /\ ~terminal[c])
  BY <1>1, <1>3, IdleTrackStep
<1> QED
  BY <1>2, <1>3

LEMMA TrackFailsStep ==
  ASSUME RealtimeInv, NEW c \in Channels, TrackFails(c)
  PROVE  RealtimeInv'
<1>1. /\ track[c] = "pending" /\ track' = [track EXCEPT ![c] = "done"]
      /\ UNCHANGED <<device, leaving, life>>
  BY DEF TrackFails
<1>2. CASE IsCurrent(c) /\ ~terminal[c]
  <2>1. ctl' = RequestRecovery(ctl, "channel_error") /\ terminal' = [terminal EXCEPT ![c] = TRUE]
    BY <1>2 DEF TrackFails
  <2>2. track' \in [Channels -> {"unstarted", "pending", "done"}]
    BY <1>1 DEF RealtimeInv, RealtimeTypeOK
  <2>3. "channel_error" \in Failures
    BY DEF Failures
  <2> QED
    BY <1>1, <1>2, <2>1, <2>2, <2>3, FailureStep
<1>3. CASE ~(IsCurrent(c) /\ ~terminal[c])
  <2>1. UNCHANGED <<ctl, terminal>>
    BY <1>3 DEF TrackFails
  <2> QED
    BY <1>1, <1>3, <2>1, IdleTrackStep
<1> QED
  BY <1>2, <1>3

LEMMA ForgetStep ==
  ASSUME RealtimeInv, NEW c \in Channels, Forget(c)
  PROVE  RealtimeInv'
<1>1. /\ UNCHANGED <<ctl, device, leaving, terminal, track>> /\ life[c] = "closed"
      /\ life' = [life EXCEPT ![c] = "free"]
  BY DEF Forget
<1>2. RealtimeTypeOK'
  BY <1>1 DEF RealtimeInv, RealtimeTypeOK
<1>3. Held'
  BY <1>1 DEF RealtimeInv, RealtimeTypeOK, Held, NoOrphanedChannel, Open
<1>4. Outcomes' /\ Sound(ctl') /\ Remembered(ctl')
  BY <1>1 DEF RealtimeInv, Outcomes, isDisposed
<1> QED
  BY <1>2, <1>3, <1>4 DEF RealtimeInv

LEMMA OfflineStep == RealtimeInv /\ GoOffline => RealtimeInv'
<1> SUFFICES ASSUME RealtimeInv, GoOffline PROVE RealtimeInv'
  OBVIOUS
<1> DEFINE q == [ctl EXCEPT !.status = "channel_error", !.online = FALSE, !.fresh = FALSE,
                            !.needed = TRUE, !.awaiting = FALSE, !.again = FALSE,
                            !.atOnce = FALSE, !.timer = FALSE]
<1>1. /\ ctl \in Controllers /\ Sound(ctl) /\ ctl.disposal = "none"
      /\ device' \in BOOLEAN /\ UNCHANGED <<leaving, objectVars>>
  BY DEF RealtimeInv, RealtimeTypeOK, GoOffline, Listening, isDisposed
<1>2. ctl' = q
  BY <1>1 DEF GoOffline, Emit, Controllers
<1>3. q \in Controllers
  BY <1>1, Zenon DEF Controllers, Statuses, Failures
<1>4. /\ q.channel = ctl.channel /\ q.removing = ctl.removing /\ q.work = ctl.work
      /\ ~q.online /\ ~q.awaiting /\ ~q.timer /\ ~q.again /\ q.disposal = ctl.disposal
      /\ q.status = "channel_error"
  BY <1>1 DEF Controllers
<1> HIDE DEF q
<1>5. Sound(q) /\ Remembered(q)
  BY <1>1, <1>4 DEF Sound, Remembered
<1> QED
  BY <1>1, <1>2, <1>3, <1>4, <1>5, ControllerStep

LEMMA OnlineStep == RealtimeInv /\ GoOnline => RealtimeInv'
<1> SUFFICES ASSUME RealtimeInv, GoOnline PROVE RealtimeInv'
  OBVIOUS
<1>1. /\ ctl \in Controllers /\ Sound(ctl) /\ Remembered(ctl) /\ ctl.disposal = "none"
      /\ ctl.status # "unstarted"
      /\ device' \in BOOLEAN /\ UNCHANGED <<leaving, objectVars>>
  BY DEF RealtimeInv, RealtimeTypeOK, GoOnline, Listening, isDisposed
<1>2. CASE ctl.needed
  <2> DEFINE w == [ctl EXCEPT !.online = TRUE, !.attempts = 0]
             q == ScheduleRecovery(w, TRUE)
  <2>1. ctl' = q
    BY <1>2 DEF GoOnline
  <2>2. w \in Controllers
    <3>1. 0 \in 0..MaxAttempts
      BY RealtimeAssumption DEF RealtimeAssumption
    <3> QED
      BY <1>1, <3>1, Zenon DEF Controllers
  <2>3. /\ w.channel = ctl.channel /\ w.removing = ctl.removing /\ w.work = ctl.work
        /\ w.needed /\ w.online /\ w.awaiting = ctl.awaiting /\ w.timer = ctl.timer
        /\ w.again = ctl.again /\ w.disposal = "none" /\ w.status = ctl.status
        /\ w.attempts = 0 /\ w.fresh = ctl.fresh
    BY <1>1, <1>2 DEF Controllers
  <2> HIDE DEF w
  <2>4. w.timer => w.attempts < MaxAttempts
    BY <1>1, <2>3, RealtimeAssumption DEF RealtimeAssumption, Sound, Controllers
  <2>5. Sound(w)
    BY <1>1, <1>2, <2>3, <2>4 DEF Sound
  <2>6. Follows(w, q)
    BY <2>2, <2>3, <2>5, ScheduleSound
  <2> HIDE DEF q
  <2>7. ctl.status # "connected"
    BY <1>1, <1>2 DEF Sound
  <2> QED
    BY <1>1, <2>1, <2>3, <2>6, <2>7, ControllerStep DEF Follows
<1>3. CASE ~ctl.needed
  <2>1. ctl' = ctl
    BY <1>3 DEF GoOnline
  <2> QED
    BY <1>1, <2>1, ControllerStep
<1> QED
  BY <1>2, <1>3

(* Disposal only gives up what was set for later.                          *)
LEMMA ControllerDisposeStep ==
  ASSUME RealtimeInv, ctl.disposal = "none", ctl.status # "unstarted",
         NEW status \in Statuses \ {"unstarted"},
         ctl' = DisposeNow(Emit(ctl, status)), UNCHANGED <<device, leaving, objectVars>>
  PROVE  RealtimeInv'
<1> DEFINE q == [ctl EXCEPT !.status = status, !.disposal = "waiting", !.needed = FALSE,
                            !.awaiting = FALSE, !.again = FALSE, !.atOnce = FALSE,
                            !.timer = FALSE, !.deadline = FALSE]
<1>1. ctl \in Controllers /\ Sound(ctl)
  BY DEF RealtimeInv, RealtimeTypeOK
<1>2. ctl' = q
  BY <1>1 DEF DisposeNow, Emit, Controllers
<1>3. q \in Controllers
  BY <1>1, Zenon DEF Controllers
<1>4. /\ q.channel = ctl.channel /\ q.removing = ctl.removing /\ q.work = ctl.work
      /\ ~q.needed /\ ~q.awaiting /\ ~q.timer /\ ~q.again /\ ~q.deadline
      /\ q.disposal = "waiting" /\ q.status = status
  BY <1>1 DEF Controllers
<1> HIDE DEF q
<1>5. Sound(q) /\ Remembered(q)
  BY <1>1, <1>4 DEF Sound, Remembered
<1>6. RealtimeTypeOK'
  BY <1>2, <1>3 DEF RealtimeInv, RealtimeTypeOK, objectVars
<1>7. Held'
  BY <1>2, <1>4 DEF RealtimeInv, Held, NoOrphanedChannel, Open, objectVars
<1>8. Outcomes'
  BY <1>2, <1>4 DEF Outcomes, isDisposed
<1> QED
  BY <1>2, <1>5, <1>6, <1>7, <1>8 DEF RealtimeInv

LEMMA DisposalStepInv == RealtimeInv /\ (DisposeController \/ Expire) => RealtimeInv'
<1> SUFFICES ASSUME RealtimeInv PROVE DisposeController \/ Expire => RealtimeInv'
  OBVIOUS
<1>1. ctl \in Controllers /\ Sound(ctl)
  BY DEF RealtimeInv, RealtimeTypeOK
<1>2. ASSUME DisposeController PROVE RealtimeInv'
  <2>1. ctl.disposal = "none" /\ ctl.status \in Statuses \ {"unstarted"}
    BY <1>1, <1>2 DEF DisposeController, Listening, isDisposed, Controllers
  <2>2. Emit(ctl, ctl.status) = ctl
    BY <1>1 DEF Emit, Controllers
  <2>3. ctl' = DisposeNow(Emit(ctl, ctl.status)) /\ UNCHANGED <<device, leaving, objectVars>>
    BY <1>2, <2>2 DEF DisposeController
  <2> QED
    BY <2>1, <2>3, ControllerDisposeStep
<1>3. ASSUME Expire PROVE RealtimeInv'
  <2>1. ctl.disposal = "none" /\ ctl.status # "unstarted"
    BY <1>1, <1>3 DEF Expire, Sound
  <2>2. "closed" \in Statuses \ {"unstarted"}
    BY DEF Statuses, Failures
  <2> QED
    BY <1>3, <2>1, <2>2, ControllerDisposeStep DEF Expire
<1> QED
  BY <1>2, <1>3

LEMMA BeginRemovalStep == RealtimeInv /\ BeginRemoval => RealtimeInv'
<1> SUFFICES ASSUME RealtimeInv, BeginRemoval PROVE RealtimeInv'
  OBVIOUS
<1> DEFINE q == [ctl EXCEPT !.channel = NoChannel, !.removing = NoChannel, !.disposal = "removing"]
<1>1. /\ ctl \in Controllers /\ Sound(ctl) /\ ctl.disposal = "waiting" /\ ctl.work = "none"
      /\ ctl' = q /\ leaving' = {ctl.channel, ctl.removing} \ {NoChannel}
      /\ UNCHANGED <<device, objectVars>>
  BY DEF RealtimeInv, RealtimeTypeOK, BeginRemoval, TakeChannels
<1>2. q \in Controllers
  BY <1>1, Zenon DEF Controllers
<1>3. /\ q.channel = NoChannel /\ q.removing = NoChannel /\ q.work = "none" /\ q.needed = ctl.needed
      /\ q.awaiting = ctl.awaiting /\ q.timer = ctl.timer /\ q.again = ctl.again
      /\ q.disposal = "removing" /\ q.status = ctl.status /\ q.deadline = ctl.deadline
  BY <1>1 DEF Controllers
<1> HIDE DEF q
<1>4. Sound(q) /\ Remembered(q) /\ ~q.awaiting
  BY <1>1, <1>3 DEF Sound, Remembered
<1>5. RealtimeTypeOK'
  BY <1>1, <1>2 DEF RealtimeInv, RealtimeTypeOK, objectVars, Controllers
<1>6. Held'
  BY <1>1, <1>3 DEF RealtimeInv, Held, NoOrphanedChannel, Open, objectVars, Sound
<1>7. Outcomes'
  BY <1>1, <1>3, <1>4 DEF Outcomes, isDisposed
<1> QED
  BY <1>1, <1>4, <1>5, <1>6, <1>7 DEF RealtimeInv

LEMMA RemoveAtDisposalStep ==
  ASSUME RealtimeInv, NEW c \in Channels, RemoveAtDisposal(c)
  PROVE  RealtimeInv'
<1>1. /\ c \in leaving /\ leaving' = leaving \ {c}
      /\ UNCHANGED <<ctl, device, terminal, track>>
  BY DEF RemoveAtDisposal
<1>2. PICK stop \in {"closed", "lost"} : life' = [life EXCEPT ![c] = stop]
  BY DEF RemoveAtDisposal
<1>3. ctl.channel = NoChannel /\ ctl.removing = NoChannel /\ leaving = {c}
  BY <1>1 DEF RealtimeInv, Sound, Held
<1>4. RealtimeTypeOK'
  BY <1>1, <1>2 DEF RealtimeInv, RealtimeTypeOK
<1>5. Held'
  BY <1>1, <1>2, <1>3 DEF RealtimeInv, RealtimeTypeOK, Held, NoOrphanedChannel, Open
<1>6. Outcomes' /\ Sound(ctl') /\ Remembered(ctl')
  BY <1>1 DEF RealtimeInv, Outcomes, isDisposed
<1> QED
  BY <1>4, <1>5, <1>6 DEF RealtimeInv

LEMMA FinishDisposalStep == RealtimeInv /\ FinishDisposal => RealtimeInv'
<1> SUFFICES ASSUME RealtimeInv, FinishDisposal PROVE RealtimeInv'
  OBVIOUS
<1> DEFINE q == [ctl EXCEPT !.disposal = "done"]
<1>1. /\ ctl \in Controllers /\ Sound(ctl) /\ Remembered(ctl) /\ ctl.disposal = "removing"
      /\ leaving = {} /\ ctl' = q /\ UNCHANGED <<device, leaving, objectVars>>
  BY DEF RealtimeInv, RealtimeTypeOK, FinishDisposal
<1>2. q \in Controllers
  BY <1>1, Zenon DEF Controllers
<1>3. /\ q.channel = ctl.channel /\ q.removing = ctl.removing /\ q.work = ctl.work
      /\ q.needed = ctl.needed /\ q.awaiting = ctl.awaiting /\ q.timer = ctl.timer
      /\ q.again = ctl.again /\ q.disposal = "done" /\ q.status = ctl.status
      /\ q.deadline = ctl.deadline
  BY <1>1 DEF Controllers
<1> HIDE DEF q
<1>4. Sound(q) /\ Remembered(q) /\ ~q.awaiting
  BY <1>1, <1>3 DEF Sound, Remembered
<1>5. RealtimeTypeOK'
  BY <1>1, <1>2 DEF RealtimeInv, RealtimeTypeOK, objectVars
<1>6. Held' /\ Outcomes'
  BY <1>1, <1>3, <1>4 DEF RealtimeInv, Held, Outcomes, NoOrphanedChannel, Open, objectVars, isDisposed
<1> QED
  BY <1>1, <1>4, <1>5, <1>6 DEF RealtimeInv

LEMMA InvStep == RealtimeInv /\ [RealtimeNext]_realtimeVars => RealtimeInv'
<1> SUFFICES ASSUME RealtimeInv, [RealtimeNext]_realtimeVars PROVE RealtimeInv'
  OBVIOUS
<1>1. CASE UNCHANGED realtimeVars
  BY <1>1 DEF realtimeVars, RealtimeInv, RealtimeTypeOK, Held, Outcomes, NoOrphanedChannel, Open, isDisposed
<1>2. CASE WorkStep
  BY <1>2, FailedWorkStep, EstablishStep, EstablishDisposedStep, RemoveFailedStep DEF WorkStep
<1>3. CASE \E c \in Channels : ChannelStep(c)
  BY <1>3, SubscribedStep, SubscriptionFailsStep, TrackedStep, TrackFailsStep, ForgetStep
     DEF ChannelStep
<1>4. CASE DisposalStep
  BY <1>4, BeginRemovalStep, RemoveAtDisposalStep, FinishDisposalStep DEF DisposalStep
<1> QED
  BY <1>1, <1>2, <1>3, <1>4, ConnectStep, TimerStep, OfflineStep, OnlineStep, DisposalStepInv
     DEF RealtimeNext

THEOREM InvariantHolds == RealtimeSpec => []RealtimeInv
<1>1. RealtimeInit => RealtimeInv
  BY InitInv
<1>2. RealtimeInv /\ [RealtimeNext]_realtimeVars => RealtimeInv'
  BY InvStep
<1> QED
  BY <1>1, <1>2, PTL DEF RealtimeSpec

-----------------------------------------------------------------------------
(* Every variable keeps its type, and never are more than MaxAttempts      *)
(* attempts started in a row.                                              *)
THEOREM RetriesBounded == RealtimeSpec => []RealtimeTypeOK
<1>1. RealtimeInv => RealtimeTypeOK
  BY DEF RealtimeInv
<1> QED
  BY <1>1, InvariantHolds, PTL

(* Every subscribed channel can still be removed.                          *)
THEOREM NoChannelLeaks == RealtimeSpec => []NoOrphanedChannel
<1>1. RealtimeInv => NoOrphanedChannel
  BY DEF RealtimeInv, Held
<1> QED
  BY <1>1, InvariantHolds, PTL

(* The participant has at most one subscribed channel.                     *)
THEOREM OneChannel == RealtimeSpec => []AtMostOneChannel
<1>1. RealtimeInv => AtMostOneChannel
  <2> SUFFICES ASSUME RealtimeInv PROVE AtMostOneChannel
    OBVIOUS
  <2>1. \A a, b \in Open : a = b
    <3>1. ctl.channel = NoChannel \/ ctl.removing = NoChannel
      BY DEF RealtimeInv, Sound
    <3>2. leaving # {} => ctl.channel = NoChannel /\ ctl.removing = NoChannel
      BY DEF RealtimeInv, Sound, Held
    <3>3. NoChannel \notin Open
      BY RealtimeAssumption DEF RealtimeAssumption, Open
    <3> QED
      BY <3>1, <3>2, <3>3 DEF RealtimeInv, Held, NoOrphanedChannel
  <2>2. CASE Open = {}
    BY <2>2, FS_EmptySet DEF AtMostOneChannel
  <2>3. CASE Open # {}
    <3>1. PICK a : Open = {a}
      BY <2>1, <2>3
    <3>2. Cardinality({a}) = 1
      BY FS_Singleton
    <3> QED
      BY <3>1, <3>2 DEF AtMostOneChannel
  <2> QED
    BY <2>2, <2>3
<1> QED
  BY <1>1, InvariantHolds, PTL

(* Both of them: no channel is subscribed twice or forgotten.              *)
THEOREM ChannelsAreAccounted == RealtimeSpec => []ChannelsAccounted
<1> QED
  BY NoChannelLeaks, OneChannel, PTL DEF ChannelsAccounted

(* Connected is said of the current, tracked channel only.                 *)
THEOREM ConnectedIsReal == RealtimeSpec => []ConnectedIsCurrent
<1>1. RealtimeInv => ConnectedIsCurrent
  <2> SUFFICES ASSUME RealtimeInv, ctl.status = "connected", ~isDisposed
               PROVE  ConnectedIsCurrent
    BY DEF ConnectedIsCurrent
  <2>1. /\ ctl.channel # NoChannel /\ ctl.channel \in Channels /\ ctl.fresh
        /\ life[ctl.channel] = "open"
    BY DEF RealtimeInv, RealtimeTypeOK, Controllers, Sound, Held, isDisposed
  <2> QED
    BY <2>1 DEF RealtimeInv, Outcomes, ConnectedIsCurrent, IsCurrent, Open
<1> QED
  BY <1>1, InvariantHolds, PTL

(* No failure is forgotten while the controller takes itself to be online. *)
THEOREM FailuresAreRetried == RealtimeSpec => []RecoveryNotForgotten
<1>1. RealtimeInv => RecoveryNotForgotten
  <2> SUFFICES ASSUME RealtimeInv, ctl.needed, ctl.online, ctl.attempts < MaxAttempts
               PROVE  RecoveryScheduled
    BY DEF RecoveryNotForgotten
  <2>1. ctl.timer \/ ctl.awaiting \/ (ctl.again /\ ctl.work # "none")
    BY DEF RealtimeInv, Remembered, Sound
  <2>2. CASE ctl.awaiting /\ ctl.work = "none"
    <3>1. /\ ctl.channel \in Channels /\ life[ctl.channel] = "open" /\ ctl.fresh
          /\ ~terminal[ctl.channel] /\ track[ctl.channel] # "done" /\ ~isDisposed
      BY <2>2 DEF RealtimeInv, RealtimeTypeOK, Controllers, Sound, Held, Outcomes, isDisposed
    <3> QED
      BY <2>2, <3>1 DEF RecoveryScheduled, IsCurrent, Open
  <2> QED
    BY <2>1, <2>2 DEF RecoveryScheduled
<1> QED
  BY <1>1, InvariantHolds, PTL

(* A step of the disposed controller reports nothing and subscribes to     *)
(* nothing.                                                                *)
LEMMA QuietWhenDisposed ==
  ASSUME RealtimeInv, isDisposed, RealtimeNext
  PROVE  /\ ctl'.status = ctl.status
         /\ {c \in Channels : life'[c] = "open"} \subseteq Open
<1>1. /\ ctl \in Controllers /\ ctl.disposal # "none" /\ ~ctl.timer /\ ~ctl.deadline
      /\ ctl.status # "unstarted"
  BY DEF RealtimeInv, RealtimeTypeOK, Sound, isDisposed
<1>2. life' = life => {c \in Channels : life'[c] = "open"} \subseteq Open
  BY DEF Open
<1>3. ~Connect /\ ~Establish /\ ~TimerFires /\ ~GoOffline /\ ~GoOnline /\ ~DisposeController /\ ~Expire
  BY <1>1 DEF Connect, Establish, TimerFires, GoOffline, GoOnline, DisposeController, Expire, Listening
<1>4. \A c \in Channels : ~IsCurrent(c)
  BY DEF IsCurrent
<1>5. ASSUME NEW r \in Controllers, NEW ok \in BOOLEAN PROVE SettleWork(r, ok).status = r.status
  BY DEF SettleWork, Controllers
<1>6. CASE AuthRefused \/ RemovalFails \/ EstablishDisposed
  BY <1>1, <1>2, <1>5, <1>6 DEF AuthRefused, RemovalFails, EstablishDisposed, objectVars
<1>7. CASE RemoveFailed
  <2> DEFINE removed == [ctl EXCEPT !.removing = NoChannel]
  <2>1. removed \in Controllers
    BY <1>1, Zenon DEF Controllers
  <2>2. removed.status = ctl.status
    BY <1>1 DEF Controllers
  <2>3. ctl' = SettleWork(removed, TRUE)
    BY <1>7 DEF RemoveFailed
  <2> HIDE DEF removed
  <2>4. ctl'.status = ctl.status
    BY <1>5, <2>1, <2>2, <2>3
  <2>5. {c \in Channels : life'[c] = "open"} \subseteq Open
    BY <1>7 DEF RemoveFailed, Open
  <2> QED
    BY <2>4, <2>5
<1>8. ASSUME NEW c \in Channels, ChannelStep(c)
      PROVE  ctl' = ctl /\ {d \in Channels : life'[d] = "open"} \subseteq Open
  <2>1. ~Subscribed(c) /\ ~SubscriptionFails(c)
    BY <1>4 DEF Subscribed, SubscriptionFails
  <2>2. CASE Tracked(c) \/ TrackFails(c)
    BY <1>2, <1>4, <2>2 DEF Tracked, TrackFails
  <2>3. CASE Forget(c)
    BY <2>3 DEF Forget, Open, RealtimeInv, RealtimeTypeOK
  <2> QED
    BY <1>8, <2>1, <2>2, <2>3 DEF ChannelStep
<1>9. CASE BeginRemoval \/ FinishDisposal
  BY <1>1, <1>2, <1>9 DEF BeginRemoval, TakeChannels, FinishDisposal, objectVars, Controllers
<1>10. ASSUME NEW c \in Channels, RemoveAtDisposal(c)
       PROVE  ctl' = ctl /\ {d \in Channels : life'[d] = "open"} \subseteq Open
  BY <1>10 DEF RemoveAtDisposal, Open, RealtimeInv, RealtimeTypeOK
<1> QED
  BY <1>3, <1>6, <1>7, <1>8, <1>9, <1>10 DEF RealtimeNext, WorkStep, DisposalStep

(* After disposal nothing is reported and nothing is subscribed to.        *)
THEOREM DisposalIsQuiet == RealtimeSpec => DisposedIsQuiet
<1>1. RealtimeInv /\ [RealtimeNext]_realtimeVars =>
        [isDisposed => /\ ctl'.status = ctl.status
                       /\ {c \in Channels : life'[c] = "open"} \subseteq Open]_realtimeVars
  BY QuietWhenDisposed
<1> QED
  BY <1>1, InvariantHolds, PTL DEF RealtimeSpec, DisposedIsQuiet
=============================================================================
