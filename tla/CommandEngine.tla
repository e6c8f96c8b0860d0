---------------------------- MODULE CommandEngine ----------------------------
(***************************************************************************)
(* The semantic command engine of lib/canvas/command-engine.ts: one room's *)
(* CanvasState under the nine canvas commands.  Each action is one accepted*)
(* command, as CanvasStore.dispatch runs it; a refused command leaves the  *)
(* state as it was and is the absence of a step.                           *)
(*                                                                         *)
(* A receipt is identified by its revision, which is its position.         *)
(***************************************************************************)
EXTENDS CanvasCommands, Selection, FiniteSets, SequencesExt, FiniteSetsExt

CONSTANT MaxRevision   \* bound of the runs: no command is dispatched beyond it

VARIABLES
  objects,      \* CanvasState.objects, None where the key is absent
  revision,     \* CanvasState.revision
  receipts,     \* CanvasState.receipts
  undone,       \* CanvasState.undoneReceiptIds
  redo          \* CanvasState.redoReceiptIds, the next one to redo last

vars == <<objects, revision, receipts, undone, redo>>

(* before and after cover exactly the affected objects; target is          *)
(* undoOfReceiptId, 0 when the receipt has none.                           *)
IsReceipt(r) ==
  /\ DOMAIN r = {"action", "before", "after", "target"}
  /\ r.action \in Action
  /\ DOMAIN r.before \subseteq Ids
  /\ DOMAIN r.after = DOMAIN r.before
  /\ \A i \in DOMAIN r.before : {r.before[i], r.after[i]} \subseteq Snapshot
  /\ r.target \in Nat

Active == ActiveIn(objects)

-----------------------------------------------------------------------------
(* Committing a mutation (commitMutation).                                 *)

Commit(action, after) ==
  /\ revision < MaxRevision
  /\ revision' = revision + 1
  /\ objects' = Overwrite(objects, after)
  /\ receipts' = Append(receipts,
        [ action |-> action,
          before |-> [i \in DOMAIN after |-> objects[i]],
          after  |-> after,
          target |-> 0 ])
  /\ redo' = << >>
  /\ UNCHANGED undone

-----------------------------------------------------------------------------
(* The commands.                                                           *)

CreateObject(i, type, x, width) ==
  /\ objects[i] = None
  /\ Commit("create", Created(i, type, x, width))

AppendNoteText(i, line) ==
  /\ MayAppend(objects, i)
  /\ Commit("update", Appended(objects, i, line))

TransformObject(i, x, width) ==
  /\ MayTransform(objects, i, x, width)
  /\ Commit("transform", Transformed(objects, i, x, width))

SetFlags(i, pinned, minimized) ==
  /\ i \in Active
  /\ Commit("flags", Flagged(objects, i, pinned, minimized))

DiscardObject(i) ==
  /\ MayDiscard(objects, i)
  /\ Commit("discard", Discarded(objects, i))

GroupObjects(f, selected, x, width) ==
  /\ MayGroup(objects, f, selected, x, width)
  /\ Commit("group", Grouped(objects, f, selected, x, width))

UngroupObjects(f) ==
  /\ MayUngroup(objects, f)
  /\ Commit("ungroup", Ungrouped(objects, f))

-----------------------------------------------------------------------------
(* Undo and redo.                                                          *)

Undoable == { k \in 1..Len(receipts) : receipts[k].action # "undo" /\ k \notin undone }

(* Faulty variant: undoing a redo forgets the receipt the redo restored.   *)
EffectsOfOne(k) == {k}

(* historyEffectReceiptIds: a redo stands for the receipt it restored too. *)
Effects(k) ==
  LET effect[j \in 1..Len(receipts)] ==
        IF receipts[j].action # "redo" \/ receipts[j].target = 0 THEN {j}
        ELSE {j} \union effect[receipts[receipts[j].target].target]
  IN  effect[k]

(* The state change and the receipt undo and redo share: the objects of    *)
(* receipt k go back to what they were before it.                          *)
Reapply(action, k) ==
  /\ revision < MaxRevision
  /\ revision' = revision + 1
  /\ objects' = Overwrite(objects, receipts[k].before)
  /\ receipts' = Append(receipts, [ action |-> action,
                                    before |-> receipts[k].after,
                                    after  |-> receipts[k].before,
                                    target |-> k ])

UndoLatest ==
  /\ Undoable # {}
  /\ LET k == Max(Undoable)
     IN  /\ Reapply("undo", k)
         /\ undone' = undone \union Effects(k)
         /\ redo' = Append(redo, Len(receipts) + 1)

RedoLatest ==
  /\ redo # << >>
  /\ LET k == Last(redo)
     IN  /\ receipts[k].action = "undo"
         /\ Reapply("redo", k)
         /\ undone' = undone \ Effects(receipts[k].target)
         /\ redo' = Front(redo)

-----------------------------------------------------------------------------
Init ==
  /\ objects = [i \in Ids |-> None]
  /\ revision = 0
  /\ receipts = << >>
  /\ undone = {}
  /\ redo = << >>

Edit ==
  \/ \E i \in Ids, t \in {"note", "frame"}, x \in 0..MaxX, w \in Widths :
        CreateObject(i, t, x, w)
  \/ \E i \in Ids, l \in Lines : AppendNoteText(i, l)
  \/ \E i \in Ids, x \in (0..MaxX) \union {None}, w \in Widths \union {None} :
        TransformObject(i, x, w)
  \/ \E i \in Ids, p, m \in BOOLEAN : SetFlags(i, p, m)
  \/ \E i \in Ids : DiscardObject(i)
  \/ \E f \in Ids, S \in SUBSET Ids, x \in 0..MaxX, w \in Widths :
        GroupObjects(f, S, x, w)
  \/ \E f \in Ids : UngroupObjects(f)

Next == Edit \/ UndoLatest \/ RedoLatest

Spec == Init /\ [][Next]_vars

-----------------------------------------------------------------------------
(* Properties.                                                             *)

(* Every variable holds a value of its kind.                               *)
TypeOK ==
  /\ objects \in Canvas
  /\ revision \in Nat
  /\ \A k \in 1..Len(receipts) : IsReceipt(receipts[k])
  /\ undone \subseteq Nat
  /\ redo \in Seq(Nat)

(* Every live object inside a frame sits inside a live frame, and no chain *)
(* of frames closes on itself, so frameDescendants always terminates and   *)
(* persistence.ts validateHierarchy accepts the state - through any mix of *)
(* grouping, discarding, ungrouping, undo and redo.                        *)
HierarchySound ==
  /\ \A i \in Active : objects[i].parent # None =>
        /\ objects[i].parent \in Active
        /\ objects[objects[i].parent].type = "frame"
  /\ \A i \in Active : i \notin Descendants(objects, i)

(* Undo and redo never meet a dangling receipt: what redo will name is an  *)
(* undo receipt whose target is currently undone, and every receipt that   *)
(* was undone is a past one (undoLatest, redoLatest, reconstructHistory).  *)
HistoryWellFormed ==
  /\ undone \subseteq 1..Len(receipts)
  /\ \A n \in 1..Len(redo) :
        /\ redo[n] \in 1..Len(receipts)
        /\ receipts[redo[n]].action = "undo"
        /\ receipts[redo[n]].target \in undone
  /\ IsInjective(redo)

(* A live pinned object keeps its place, size and frame through every      *)
(* command but undo, redo and an ungrouping of its frame, which           *)
(* (ungroupObjects has no pin check) may re-parent it.                     *)
PinnedStaysPut ==
  [][ \A i \in Active :
        objects[i].pinned /\ receipts'[Len(receipts')].action \notin {"undo", "redo"}
          => /\ objects'[i].x = objects[i].x
             /\ objects'[i].width = objects[i].width
             /\ \/ objects'[i].parent = objects[i].parent
                \/ receipts'[Len(receipts')].action = "ungroup" ]_vars

(* The abstract history the receipts encode: rolling back from the present *)
(* through the receipts undo would target, newest first, gives the past;   *)
(* rolling forward through the redo stack gives the future.                *)
(* A receipt a live redo stands for is walked back through that redo.      *)
UndoOrder ==
  LET live   == Undoable
      behind == UNION { Effects(m) \ {m} : m \in live }
  IN  Selected([k \in 1..Len(receipts) |-> k], live \ behind)

(* The canvas after reversing the receipts order names from the last one   *)
(* back to the k-th: an object is as it was before the earliest of them.   *)
Reversed(order, k) ==
  [i \in Ids |->
     LET touching == { m \in k..Len(order) : i \in DOMAIN receipts[order[m]].before }
     IN  IF touching = {} THEN objects[i]
                          ELSE receipts[order[Min(touching)]].before[i]]

PastDocuments ==
  LET back == [order \in {UndoOrder} |-> [k \in 1..Len(order) |-> Reversed(order, k)]]
  IN  back[UndoOrder]

FutureDocuments == [k \in 1..Len(redo) |-> Reversed(redo, Len(redo) - k + 1)]

History == INSTANCE LinearHistory WITH
             Documents <- Canvas,
             past <- PastDocuments, present <- objects, future <- FutureDocuments

(* Undo returns exactly the canvas that preceded the command it reverses,  *)
(* redo exactly the one undo left, in unlimited depth and in every         *)
(* interleaving with new commands (undoLatest, redoLatest,                 *)
(* historyEffectReceiptIds).                                               *)
ImplementsHistory == History!HistorySpec
==============================================================================
