---------------------------- MODULE RoomDatabase ----------------------------
(***************************************************************************)
(* The stored canvas of one demo room: the rows and receipts that          *)
(* commit_canvas_mutation_at_revision writes, and the history that         *)
(* persistence.ts reads back from them.  The room service plans a command  *)
(* with the command engine on the canvas it has just loaded                *)
(* (buildCanvasMutationPlan) and the database commits the plan under the   *)
(* room's row lock, so a command is one step.  A call the database refuses *)
(* is rolled back and is the absence of a step.                            *)
(*                                                                         *)
(* The planning rules are those of CommandEngine.  What differs is who     *)
(* keeps the history: the database has its own rules for what undo and     *)
(* redo may name, derives the inverse of every change itself, never        *)
(* deletes a row and never lets a version repeat.                          *)
(***************************************************************************)
EXTENDS CanvasCommands, Selection, FiniteSets, SequencesExt, FiniteSetsExt

CONSTANTS
  RevisionLimit,   \* 400 in the code: a demo room's last revision
  ObjectLimit,     \* 160 in the code: a demo room's live objects
  ChangeLimit      \* 50 in the code: the objects one command may change

(* What canvas_mutable_state keeps of an object: all but its version.      *)
MutableObject ==
  [ type      : {"note", "frame"},
    x         : Int,
    width     : Nat,
    text      : Seq(Lines),
    pinned    : BOOLEAN,
    minimized : BOOLEAN,
    deleted   : BOOLEAN,
    parent    : Ids \union {None},
    version   : {0} ]

\* An identifier is a word of at most 96 characters.
ASSUME DatabaseAssumption ==
  /\ IsFiniteSet(Ids)
  /\ RevisionLimit \in Nat
  /\ ObjectLimit \in Nat
  /\ ChangeLimit \in Nat \ {0}
  /\ None \notin MutableObject

VARIABLES
  rows,        \* canvas_objects by id, None where there is no row
  revision,    \* rooms.revision
  receipts,    \* the room's receipts in the order of their revisions
  history      \* what reconstructHistory makes of receipts when they are loaded

vars == <<rows, revision, receipts, history>>

-----------------------------------------------------------------------------
(* Reading the stored receipts back (reconstructHistory).                  *)

(* The receipts a redo stands for: itself, and through the undo it names   *)
(* the receipt that was undone.                                            *)
EffectsOf(log, k) ==
  LET effect[j \in 1..Len(log)] ==
        IF log[j].action # "redo" THEN {j}
        ELSE {j} \union effect[log[log[j].target].target]
  IN  effect[k]

Without(s, k) == Selected(s, {n \in 1..Len(s) : s[n] # k})

(* One pass of reconstructHistory's loop, over the receipt at k of log.    *)
(* The loop reads a prefix of the receipts like any other, so the history  *)
(* of a longer log is one more pass over that of the shorter one.          *)
Replay(h, log, k) ==
  LET target == log[k].target
  IN  CASE log[k].action = "undo" ->
             [ undone |-> h.undone \union EffectsOf(log, target),
               redo   |-> Append(h.redo, k),
               sound  |-> h.sound /\ log[target].action # "undo" ]
        [] log[k].action = "redo" ->
             [ undone |-> h.undone \ EffectsOf(log, log[target].target),
               redo   |-> Without(h.redo, target),
               sound  |-> h.sound /\ log[target].action = "undo"
                                  /\ target \in Range(h.redo) ]
        [] OTHER -> [h EXCEPT !.redo = << >>]

(* The loaded history, as the planner sees it.                             *)
Engine == INSTANCE CommandEngine WITH
            objects <- rows, MaxRevision <- RevisionLimit,
            undone <- history.undone, redo <- history.redo

-----------------------------------------------------------------------------
(* What the database checks.                                               *)

Live(table) == ActiveIn(table)

Mutable(o) == [o EXCEPT !.version = 0]

(* validate_canvas_mutable_state: coordinates have bounds.                 *)
InBounds(o) == o.x \in 0..MaxX

Place(o) == <<o.x, o.width, o.parent>>

(* Faulty variant: a pinned object accepts no change at all.               *)
ChangeAllowedUnpinned(i, after) ==
  /\ InBounds(after)
  /\ rows[i] # None => ~rows[i].deleted /\ ~rows[i].pinned

ChangeAllowed(i, after) ==
  /\ InBounds(after)
  /\ rows[i] # None =>
       /\ ~rows[i].deleted
       /\ rows[i].pinned => Place(after) = Place(rows[i])

(* canvas_change_count_out_of_range; the engine has no such limit, and a   *)
(* frame that is moved carries all that is nested in it.                   *)
InNumber(after) == Cardinality(DOMAIN after) \in 1..ChangeLimit

(* validate_canvas_parent_graph: live children sit in live frames, and no  *)
(* chain of parents returns to where it began.                             *)
ParentGraphSound(table) ==
  /\ \A i \in Live(table) : table[i].parent # None =>
       /\ table[i].parent \in Live(table)
       /\ table[table[i].parent].type = "frame"
  /\ \A i \in Live(table) : i \notin Descendants(table, i)

Fits(table) == ParentGraphSound(table) /\ Cardinality(Live(table)) <= ObjectLimit

Named(k) == \E n \in 1..Len(receipts) : receipts[n].target = k

(* The one receipt an undo may name: the latest that is no undo and that   *)
(* no other receipt names.                                                 *)
UndoTargets ==
  LET open == { k \in 1..Len(receipts) : receipts[k].action # "undo" /\ ~Named(k) }
  IN  IF open = {} THEN {} ELSE {Max(open)}

(* Faulty variant: a redo may follow a new command.                        *)
RedoTargetsAfterEdits ==
  LET open == { k \in 1..Len(receipts) : receipts[k].action = "undo" /\ ~Named(k) }
  IN  IF open = {} THEN {} ELSE {Max(open)}

(* The one undo a redo may name: the latest that no redo names, unless a   *)
(* new command came after it.                                              *)
RedoTargets ==
  LET open == { k \in 1..Len(receipts) : receipts[k].action = "undo" /\ ~Named(k) }
      edited(k) == \E n \in k + 1..Len(receipts) :
                     receipts[n].action \notin {"undo", "redo"}
  IN  IF open = {} \/ edited(Max(open)) THEN {} ELSE {Max(open)}

Unchanged(k) == \A i \in DOMAIN receipts[k].inverse :
                  Mutable(rows[i]) = receipts[k].inverse[i].expected

-----------------------------------------------------------------------------
(* What the database writes.                                               *)

Written(after) ==
  [i \in Ids |-> IF i \notin DOMAIN after THEN rows[i]
                 ELSE [after[i] EXCEPT !.version = IF rows[i] = None THEN 1
                                                   ELSE rows[i].version + 1]]

(* Faulty variant: a restored object takes its earlier version back.       *)
RestoredWithVersion(k) ==
  LET inverse == receipts[k].inverse
  IN  [i \in Ids |->
         IF i \notin DOMAIN inverse THEN rows[i]
         ELSE IF inverse[i].restore = None THEN [rows[i] EXCEPT !.deleted = TRUE]
         ELSE [inverse[i].restore EXCEPT !.version = receipts[k].before[i].version]]

(* The rows after the inverse of receipt k: soft_delete for what it        *)
(* created, restore_snapshot for the rest.                                 *)
Restored(k) ==
  LET inverse == receipts[k].inverse
  IN  [i \in Ids |->
         IF i \notin DOMAIN inverse THEN rows[i]
         ELSE [ (IF inverse[i].restore = None THEN [rows[i] EXCEPT !.deleted = TRUE]
                                              ELSE inverse[i].restore)
                EXCEPT !.version = rows[i].version + 1 ]]

(* Faulty variant: the inverse expects the state it would restore.         *)
ReceiptSwapped(action, affected, table, target) ==
  [ action |-> action, target |-> target,
    before |-> [i \in affected |-> rows[i]],
    after  |-> [i \in affected |-> table[i]],
    inverse |-> [i \in affected |->
                   [ expected |-> Mutable(table[i]),
                     restore  |-> IF rows[i] = None THEN None ELSE Mutable(table[i]) ]] ]

(* The receipt of a change of the affected rows to those of table, with    *)
(* the inverse the database derives from what it found and what it wrote.  *)
Receipt(action, affected, table, target) ==
  [ action |-> action, target |-> target,
    before |-> [i \in affected |-> rows[i]],
    after  |-> [i \in affected |-> table[i]],
    inverse |-> [i \in affected |->
                   [ expected |-> Mutable(table[i]),
                     restore  |-> IF rows[i] = None THEN None ELSE Mutable(rows[i]) ]] ]

Store(action, affected, table, target) ==
  /\ revision < RevisionLimit
  /\ Fits(table)
  /\ rows' = table
  /\ revision' = revision + 1
  /\ receipts' = Append(receipts, Receipt(action, affected, table, target))
  /\ history' = Replay(history, receipts', revision')

(* A planned change of the objects in after.                               *)
CommitChange(action, after) ==
  /\ InNumber(after)
  /\ \A i \in DOMAIN after : ChangeAllowed(i, after[i])
  /\ Store(action, DOMAIN after, Written(after), 0)

CommitReversal(action, k) ==
  /\ Unchanged(k)
  /\ Store(action, DOMAIN receipts[k].inverse, Restored(k), k)

-----------------------------------------------------------------------------
(* The commands a member submits.                                          *)

CreateObject(i, type, x, width) ==
  /\ rows[i] = None
  /\ CommitChange("create", Created(i, type, x, width))

AppendNoteText(i, line) ==
  /\ MayAppend(rows, i)
  /\ CommitChange("update", Appended(rows, i, line))

TransformObject(i, x, width) ==
  /\ MayTransform(rows, i, x, width)
  /\ CommitChange("transform", Transformed(rows, i, x, width))

PinObject(i, pinned) ==
  /\ i \in Live(rows)
  /\ CommitChange("flags", Flagged(rows, i, pinned, rows[i].minimized))

DiscardObject(i) ==
  /\ MayDiscard(rows, i)
  /\ CommitChange("discard", Discarded(rows, i))

GroupObjects(f, selected, x, width) ==
  /\ MayGroup(rows, f, selected, x, width)
  /\ CommitChange("group", Grouped(rows, f, selected, x, width))

UngroupObjects(f) ==
  /\ MayUngroup(rows, f)
  /\ CommitChange("ungroup", Ungrouped(rows, f))

(* The planner names the receipt its own rules find; the database holds    *)
(* the name against its rules.                                             *)
UndoLatest ==
  /\ Engine!Undoable # {}
  /\ Max(Engine!Undoable) \in UndoTargets
  /\ CommitReversal("undo", Max(Engine!Undoable))

RedoLatest ==
  /\ history.redo # << >>
  /\ Last(history.redo) \in RedoTargets
  /\ CommitReversal("redo", Last(history.redo))

Init ==
  /\ rows = [i \in Ids |-> None]
  /\ revision = 0
  /\ receipts = << >>
  /\ history = [undone |-> {}, redo |-> << >>, sound |-> TRUE]

(* Objects are placed at 0 and moved from there.                           *)
Next ==
  \/ \E i \in Ids, t \in {"note", "frame"}, w \in Widths : CreateObject(i, t, 0, w)
  \/ \E i \in Ids, l \in Lines : AppendNoteText(i, l)
  \/ \E i \in Ids, x \in 0..MaxX : TransformObject(i, x, None)
  \/ \E i \in Ids, p \in BOOLEAN : PinObject(i, p)
  \/ \E i \in Ids : DiscardObject(i)
  \/ \E f \in Ids, S \in SUBSET Ids, w \in Widths : GroupObjects(f, S, 0, w)
  \/ \E f \in Ids : UngroupObjects(f)
  \/ UndoLatest
  \/ RedoLatest

Spec == Init /\ [][Next]_vars

-----------------------------------------------------------------------------
(* Properties.                                                             *)

(* Every table holds rows of its kind.                                     *)
TypeOK ==
  /\ rows \in Canvas
  /\ revision \in 0..RevisionLimit
  /\ Len(receipts) = revision
  /\ history.undone \subseteq 1..revision
  /\ history.redo \in Seq(1..revision)
  /\ \A k \in 1..Len(receipts) :
       /\ receipts[k].action \in Action
       /\ receipts[k].target \in 0..k - 1
       /\ DOMAIN receipts[k].inverse = DOMAIN receipts[k].after
       /\ DOMAIN receipts[k].before = DOMAIN receipts[k].after

(* Everything the database has committed can be loaded again               *)
(* (parseCanvasPersistenceRows): rows and receipts have their types,       *)
(* versions of successive snapshots are consecutive, every row is the      *)
(* after state of its latest receipt, the undo and redo receipts replay,   *)
(* and the hierarchy validates.                                            *)
CommittedLoads ==
  LET touching(i) == { k \in 1..Len(receipts) : i \in DOMAIN receipts[k].after }
  IN  /\ TypeOK
      /\ \A k \in 1..Len(receipts) : \A i \in DOMAIN receipts[k].after :
           /\ receipts[k].after[i] # None
           /\ receipts[k].after[i].version =
                IF receipts[k].before[i] = None THEN 1
                ELSE receipts[k].before[i].version + 1
      /\ \A i \in Ids : touching(i) # {} =>
           rows[i] = receipts[Max(touching(i))].after[i]
      /\ history.sound
      /\ Engine!HierarchySound

(* The planner and the database, which compute it from the same receipts   *)
(* in different ways, name the same receipt for undo and for redo, so a    *)
(* room never shows a history the database refuses to follow.              *)
HistoriesAgree ==
  /\ UndoTargets = IF Engine!Undoable = {} THEN {} ELSE {Max(Engine!Undoable)}
  /\ RedoTargets = IF history.redo = << >> THEN {} ELSE {Last(history.redo)}

(* What undo or redo names can always be reversed: its objects still are   *)
(* as its inverse expects, and the result is a sound hierarchy within the  *)
(* room's object limit.                                                    *)
ReversalsFit == \A k \in UndoTargets \union RedoTargets : Unchanged(k) /\ Fits(Restored(k))

(* Both: undo and redo are never stuck between the planner's idea of the   *)
(* history and the database's (buildCanvasMutationPlan,                    *)
(* commit_canvas_mutation_at_revision).                                    *)
ReversalsAgree == HistoriesAgree /\ ReversalsFit

(* A plan of the engine that moves, ungroups, discards or flags objects is *)
(* refused by the database for three reasons only: a frame carries an      *)
(* object out of the coordinate bounds; a frame that is moved or ungrouped *)
(* holds more objects than one command may change, since frames nest; or   *)
(* an ungrouped frame has pinned contents, which the engine re-parents and *)
(* canvas_pinned_transform_forbidden protects.                             *)
PlansAreCommitted ==
  LET committed(after) == /\ InNumber(after)
                          /\ \A i \in DOMAIN after : ChangeAllowed(i, after[i])
                          /\ ParentGraphSound(Written(after))
  IN  /\ \A i \in Ids, x \in 0..MaxX : MayTransform(rows, i, x, None) =>
           \/ committed(Transformed(rows, i, x, None))
           \/ \E j \in Carried(rows, i, x) :
                ~InBounds(Transformed(rows, i, x, None)[j])
           \/ Cardinality(Carried(rows, i, x)) >= ChangeLimit
      /\ \A f \in Ids : MayUngroup(rows, f) =>
           \/ committed(Ungrouped(rows, f))
           \/ \E j \in Children(rows, f) : rows[j].pinned
           \/ Cardinality(Children(rows, f)) >= ChangeLimit
      /\ \A i \in Ids : MayDiscard(rows, i) => committed(Discarded(rows, i))
      /\ \A i \in Live(rows), p \in BOOLEAN :
           committed(Flagged(rows, i, p, rows[i].minimized))

(* The stored history is the abstract one: undo returns to the canvas that *)
(* people saw before the command it reverses, redo to the one undo left.   *)
VisibleObject == { o \in MutableObject : ~o.deleted }

Visible(o) == IF o = None \/ o.deleted THEN None ELSE Mutable(o)

Shown(canvas) == [i \in Ids |-> Visible(canvas[i])]

AllShown(canvases) ==
  LET shown[cs \in {canvases}] == [n \in 1..Len(cs) |-> Shown(cs[n])]
  IN  shown[canvases]

History == INSTANCE LinearHistory WITH
  Documents <- [Ids -> VisibleObject \union {None}],
  past <- AllShown(Engine!PastDocuments), present <- Shown(rows),
  future <- AllShown(Engine!FutureDocuments)

ImplementsHistory == History!HistorySpec
==============================================================================
