----------------------------- MODULE CanvasLoad -----------------------------
(***************************************************************************)
(* Loading a room's canvas while others commit to it: loadBrowserCanvas    *)
(* (lib/supabase/browser-room.ts) and loadCanvas of the room service       *)
(* (lib/supabase/room-service.ts).  Each reads the room row, then objects  *)
(* and receipts in parallel, then the room row again, in requests of their *)
(* own that see whatever is committed when they run.                       *)
(*                                                                         *)
(* A mutation is one transaction, so a table is identified by the revision *)
(* it was read at.                                                         *)
(***************************************************************************)
EXTENDS Integers

CONSTANTS
  Loaders,
  Services,     \* the loaders that are the room service; the rest are browsers
  None,
  MaxRevision   \* bound of the runs: no mutation commits beyond it

VARIABLES
  revision,     \* rooms.revision, the number of committed mutations
  readable,     \* FALSE once the room has expired or been deleted
  stage,        \* where each loader is
  attempt,
  before,       \* revision of the first room row
  objectsAt,    \* revision the objects were read at, None before
  receiptsAt,   \* revision the receipts were read at, None before
  began,        \* history variable: revision when the load began
  outcome       \* the loader's last answer

vars == <<revision, readable, stage, attempt, before, objectsAt, receiptsAt, began, outcome>>

Refusal == [code : {"room_unavailable", "snapshot_unstable", "invalid_persisted_state"}]
Canvas  == [code : {"ok"}, revision : Nat, objects : Nat, receipts : Nat]

ASSUME LoadAssumption ==
  /\ Services \subseteq Loaders
  /\ None \notin Int \union Refusal
  /\ MaxRevision \in Nat

Commit ==
  /\ readable
  /\ revision < MaxRevision
  /\ revision' = revision + 1
  /\ UNCHANGED <<readable, stage, attempt, before, objectsAt, receiptsAt, began, outcome>>

(* The hard expiry of a demo room hides every row from its members for     *)
(* good; deleting the room removes them.                                   *)
Close ==
  /\ readable
  /\ readable' = FALSE
  /\ UNCHANGED <<revision, stage, attempt, before, objectsAt, receiptsAt, began, outcome>>

-----------------------------------------------------------------------------
BeginLoad(l) ==
  /\ stage[l] = "idle"
  /\ stage' = [stage EXCEPT ![l] = "room"]
  /\ attempt' = [attempt EXCEPT ![l] = 1]
  /\ began' = [began EXCEPT ![l] = revision]
  /\ outcome' = [outcome EXCEPT ![l] = None]
  /\ UNCHANGED <<revision, readable, before, objectsAt, receiptsAt>>

Finish(l, answer) ==
  /\ stage' = [stage EXCEPT ![l] = "idle"]
  /\ outcome' = [outcome EXCEPT ![l] = answer]
  /\ UNCHANGED <<revision, readable, attempt, before, objectsAt, receiptsAt, began>>

(* Faulty variant: the second attempt keeps the tables of the first.       *)
ReadRoomAgain(l) ==
  /\ stage[l] = "room"
  /\ readable
  /\ stage' = [stage EXCEPT ![l] = "tables"]
  /\ before' = [before EXCEPT ![l] = revision]
  /\ UNCHANGED <<revision, readable, attempt, objectsAt, receiptsAt, began, outcome>>

ReadRoomBefore(l) ==
  /\ stage[l] = "room"
  /\ readable
  /\ stage' = [stage EXCEPT ![l] = "tables"]
  /\ before' = [before EXCEPT ![l] = revision]
  /\ objectsAt' = [objectsAt EXCEPT ![l] = None]
  /\ receiptsAt' = [receiptsAt EXCEPT ![l] = None]
  /\ UNCHANGED <<revision, readable, attempt, began, outcome>>

(* A table of a closed room reads as empty, which is revision 0.           *)
Visible == IF readable THEN revision ELSE 0

ReadObjects(l) ==
  /\ stage[l] = "tables"
  /\ objectsAt[l] = None
  /\ objectsAt' = [objectsAt EXCEPT ![l] = Visible]
  /\ UNCHANGED <<revision, readable, stage, attempt, before, receiptsAt, began, outcome>>

ReadReceipts(l) ==
  /\ stage[l] = "tables"
  /\ receiptsAt[l] = None
  /\ receiptsAt' = [receiptsAt EXCEPT ![l] = Visible]
  /\ UNCHANGED <<revision, readable, stage, attempt, before, objectsAt, began, outcome>>

TablesRead(l) ==
  /\ stage[l] = "tables"
  /\ objectsAt[l] # None
  /\ receiptsAt[l] # None

Snapshot(l) == [ code     |-> "ok",          revision |-> revision,
                 objects  |-> objectsAt[l],  receipts |-> receiptsAt[l] ]

(* parseCanvasPersistenceRows holds the objects against the receipts: it   *)
(* refuses receipts of objects it does not have as they left them, and     *)
(* overlooks missing receipts if no earlier one names the same objects.    *)
(* No row is ahead of the room row, which was read last.                   *)
Verdicts(l) ==
  { answer \in {Snapshot(l), [code |-> "invalid_persisted_state"]} :
      IF answer.code = "ok" THEN receiptsAt[l] <= objectsAt[l]
                            ELSE receiptsAt[l] # objectsAt[l] }

(* Faulty variant: what was read is parsed whether or not the room moved.  *)
ConcludeUnbracketed(l) ==
  /\ TablesRead(l)
  /\ readable
  /\ \E answer \in Verdicts(l) : Finish(l, answer)

Conclude(l) ==
  /\ TablesRead(l)
  /\ readable
  /\ before[l] = revision
  /\ \E answer \in Verdicts(l) : Finish(l, answer)

(* The room changed between its two readings: once more, then give up.     *)
Retry(l) ==
  /\ TablesRead(l)
  /\ readable
  /\ before[l] # revision
  /\ attempt[l] < 2
  /\ attempt' = [attempt EXCEPT ![l] = @ + 1]
  /\ stage' = [stage EXCEPT ![l] = "room"]
  /\ UNCHANGED <<revision, readable, before, objectsAt, receiptsAt, began, outcome>>

GiveUp(l) ==
  /\ TablesRead(l)
  /\ readable
  /\ before[l] # revision
  /\ attempt[l] = 2
  /\ Finish(l, [code |-> IF l \in Services THEN "room_unavailable" ELSE "snapshot_unstable"])

(* No room row, an error answer or a thrown request.                       *)
Unavailable(l) ==
  /\ stage[l] # "idle"
  /\ Finish(l, [code |-> "room_unavailable"])

-----------------------------------------------------------------------------
Init ==
  /\ revision = 0
  /\ readable = TRUE
  /\ stage = [l \in Loaders |-> "idle"]
  /\ attempt = [l \in Loaders |-> 1]
  /\ before = [l \in Loaders |-> 0]
  /\ objectsAt = [l \in Loaders |-> None]
  /\ receiptsAt = [l \in Loaders |-> None]
  /\ began = [l \in Loaders |-> 0]
  /\ outcome = [l \in Loaders |-> None]

Step(l) ==
  \/ BeginLoad(l)
  \/ ReadRoomBefore(l)
  \/ ReadObjects(l)
  \/ ReadReceipts(l)
  \/ Conclude(l)
  \/ Retry(l)
  \/ GiveUp(l)
  \/ Unavailable(l)

Next == Commit \/ Close \/ \E l \in Loaders : Step(l)

Spec == Init /\ [][Next]_vars

-----------------------------------------------------------------------------
(* Every variable holds a value of its kind.                               *)
TypeOK ==
  /\ revision \in Nat
  /\ readable \in BOOLEAN
  /\ stage \in [Loaders -> {"idle", "room", "tables"}]
  /\ attempt \in [Loaders -> {1, 2}]
  /\ before \in [Loaders -> Nat]
  /\ objectsAt \in [Loaders -> Nat \union {None}]
  /\ receiptsAt \in [Loaders -> Nat \union {None}]
  /\ began \in [Loaders -> Nat]
  /\ outcome \in [Loaders -> {None} \union Refusal \union Canvas]

(* A sound database is never reported as corrupt, however the readings     *)
(* fall between commits (before the bracket is compared nothing is parsed).*)
NoFalseCorruption ==
  \A l \in Loaders : outcome[l] \in Refusal => outcome[l].code # "invalid_persisted_state"

(* The atomic load the four requests stand for.                            *)
AtomicBegan  == [l \in Loaders |-> IF stage[l] = "idle" THEN None ELSE began[l]]
AtomicLoaded == [l \in Loaders |-> IF outcome[l] \in Refusal THEN None ELSE outcome[l]]

Atomic == INSTANCE AtomicLoad WITH began <- AtomicBegan, loaded <- AtomicLoaded

(* The load in four requests behaves as one atomic load: a canvas that is  *)
(* handed out has its objects and its receipts from the revision it claims,*)
(* and that revision was current while the load ran (the two readings of   *)
(* the room row).                                                          *)
ImplementsAtomicLoad == Atomic!LoadSpec
==============================================================================
