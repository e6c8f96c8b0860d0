-------------------------- MODULE CommandEngineProofs --------------------------
(***************************************************************************)
(* Proofs about the command engine of a local preview: undo and redo name  *)
(* receipts they may name, the canvas they lead back to is the one that    *)
(* was there, and no command breaks the hierarchy of frames.               *)
(*                                                                         *)
(* The argument follows the canvases the preview has been through.  Each   *)
(* receipt records the step from one of them to the next, and each         *)
(* reversal returns exactly to the canvas before the receipt it names.     *)
(***************************************************************************)
EXTENDS CanvasCommandsProofs, CommandEngine

Receipts ==
  [ action : Action,
    before : UNION { [S -> Snapshot] : S \in SUBSET Ids },
    after  : UNION { [S -> Snapshot] : S \in SUBSET Ids },
    target : Nat ]

\* Receipt r is that of the change of one canvas to the next.
Records(r, from, to) ==
  /\ DOMAIN r.after \subseteq Ids
  /\ DOMAIN r.before = DOMAIN r.after
  /\ \A i \in DOMAIN r.after : r.before[i] = from[i] /\ r.after[i] = to[i]
  /\ \A i \in Ids \ DOMAIN r.after : to[i] = from[i]

\* The canvases the preview has been through, the present one last.
Past(c) ==
  /\ c \in [0 .. revision -> Canvas]
  /\ c[revision] = objects
  /\ \A k \in 0 .. revision : Hierarchy(c[k])
  /\ \A k \in 1 .. revision : Records(receipts[k], c[k - 1], c[k])

TypeInv ==
  /\ objects \in Canvas
  /\ revision \in Nat
  /\ receipts \in Seq(Receipts)
  /\ Len(receipts) = revision
  /\ undone \subseteq Nat
  /\ redo \in Seq(Nat)

HistoryOf(log, n, taken, stack) ==
  /\ LogSound(log, n)
  /\ \E E : IsEffects(E, log, n) /\ UndoneSound(log, n, E, taken)
  /\ RedoSound(log, n, stack)

Inv ==
  /\ TypeInv
  /\ HistoryOf(receipts, revision, undone, redo)
  /\ \E c : Past(c) /\ Retraces(receipts, revision, c)

-----------------------------------------------------------------------------
(* What an edit leaves behind.                                             *)

LEMMA OverwriteTakes ==
  ASSUME NEW a \in Canvas, NEW patch \in Patches
  PROVE  /\ Overwrite(a, patch) \in Canvas
         /\ Takes(Overwrite(a, patch), a, patch)
<1>1. /\ DOMAIN a = Ids /\ DOMAIN patch \subseteq Ids
      /\ \A i \in Ids : a[i] \in Snapshot
      /\ \A i \in DOMAIN patch : patch[i] \in Object
  BY DEF Canvas, Patches
<1>2. Overwrite(a, patch) = [i \in Ids |-> IF i \in DOMAIN patch THEN patch[i] ELSE a[i]]
  BY <1>1 DEF Overwrite
<1>3. Overwrite(a, patch) \in Canvas
  BY <1>1, <1>2 DEF Canvas, Snapshot
<1>4. Takes(Overwrite(a, patch), a, patch)
  BY <1>1, <1>2, CommandAssumption DEF Takes
<1> QED  BY <1>3, <1>4

\* A pinned object keeps its place, and its frame unless the frame is ungrouped.
KeepsPinned(action, patch) ==
  \A i \in Active \cap DOMAIN patch : objects[i].pinned =>
    /\ KeepsPlace(patch, objects, i)
    /\ patch[i].parent = objects[i].parent \/ action = "ungroup"

EditOf(action, patch) ==
  /\ action \in Action \ {"undo", "redo"}
  /\ patch \in Patches
  /\ Commit(action, patch)
  /\ Hierarchy(Overwrite(objects, patch))
  /\ KeepsPinned(action, patch)

LEMMA CreateIsEdit ==
  ASSUME objects \in Canvas, Hierarchy(objects),
         NEW i \in Ids, NEW t \in {"note", "frame"}, NEW x \in 0 .. MaxX, NEW w \in Widths,
         CreateObject(i, t, x, w)
  PROVE  EditOf("create", Created(i, t, x, w))
<1> DEFINE patch == Created(i, t, x, w)
<1>1. objects[i] = None /\ Commit("create", patch)
  BY DEF CreateObject
<1>2. patch \in Patches /\ DOMAIN patch = {i}
  BY CreatedType DEF Created, Only
<1>3. Takes(Overwrite(objects, patch), objects, patch)
  BY <1>2, OverwriteTakes
<1>4. Hierarchy(Overwrite(objects, patch))
  BY <1>1, <1>3, CreatedSound, Zenon
<1>5. KeepsPinned("create", patch)
  BY <1>1, <1>2 DEF KeepsPinned, Active, ActiveIn
<1> QED  BY <1>1, <1>2, <1>4, <1>5 DEF EditOf, Action

LEMMA AppendIsEdit ==
  ASSUME objects \in Canvas, Hierarchy(objects), NEW i \in Ids, NEW line \in Lines,
         AppendNoteText(i, line)
  PROVE  EditOf("update", Appended(objects, i, line))
<1> DEFINE patch == Appended(objects, i, line)
<1>1. i \in ActiveIn(objects) /\ MayAppend(objects, i) /\ Commit("update", patch)
  BY DEF AppendNoteText, MayAppend
<1>2. patch \in Patches
  BY <1>1, AppendedType
<1>3. KeepsKind(patch, objects) /\ DOMAIN patch = {i} /\ KeepsPlace(patch, objects, i)
  BY <1>1, AppendedFields
<1> HIDE DEF patch
<1>4. Hierarchy(Overwrite(objects, patch))
  <2>1. Takes(Overwrite(objects, patch), objects, patch)
    BY <1>2, OverwriteTakes
  <2> QED  BY <1>3, <2>1, KeptSound
<1>5. KeepsPinned("update", patch)
  BY <1>3 DEF KeepsPinned, KeepsKind
<1>6. EditOf("update", patch)
  BY <1>1, <1>2, <1>4, <1>5 DEF EditOf, Action
<1> QED  BY <1>6 DEF patch

LEMMA TransformIsEdit ==
  ASSUME objects \in Canvas, Hierarchy(objects), NEW i \in Ids,
         NEW x \in (0 .. MaxX) \union {None}, NEW w \in Widths \union {None},
         TransformObject(i, x, w)
  PROVE  EditOf("transform", Transformed(objects, i, x, w))
<1> DEFINE patch == Transformed(objects, i, x, w)
<1>1. /\ i \in ActiveIn(objects) /\ Commit("transform", patch)
      /\ \A j \in Carried(objects, i, x) \union {i} : ~objects[j].pinned
  BY DEF TransformObject, MayTransform
<1>2. patch \in Patches
  BY <1>1, TransformedType, Zenon
<1>3. KeepsKind(patch, objects) /\ DOMAIN patch = Carried(objects, i, x) \union {i}
  BY <1>1, TransformedFields, Zenon DEF patch
<1> HIDE DEF patch
<1>4. Hierarchy(Overwrite(objects, patch))
  <2>1. Takes(Overwrite(objects, patch), objects, patch)
    BY <1>2, OverwriteTakes
  <2> QED  BY <1>3, <2>1, KeptSound
<1>5. KeepsPinned("transform", patch)
  BY <1>1, <1>3 DEF KeepsPinned
<1>6. EditOf("transform", patch)
  BY <1>1, <1>2, <1>4, <1>5 DEF EditOf, Action
<1> QED  BY <1>6 DEF patch

LEMMA FlagsIsEdit ==
  ASSUME objects \in Canvas, Hierarchy(objects), NEW i \in Ids, NEW p \in BOOLEAN,
         NEW m \in BOOLEAN, SetFlags(i, p, m)
  PROVE  EditOf("flags", Flagged(objects, i, p, m))
<1> DEFINE patch == Flagged(objects, i, p, m)
<1>1. i \in ActiveIn(objects) /\ Commit("flags", patch)
  BY DEF SetFlags, Active
<1>2. patch \in Patches
  BY <1>1, FlaggedType, Zenon
<1>3. KeepsKind(patch, objects) /\ DOMAIN patch = {i} /\ KeepsPlace(patch, objects, i)
  BY <1>1, FlaggedFields, Zenon
<1> HIDE DEF patch
<1>4. Hierarchy(Overwrite(objects, patch))
  <2>1. Takes(Overwrite(objects, patch), objects, patch)
    BY <1>2, OverwriteTakes
  <2> QED  BY <1>3, <2>1, KeptSound
<1>5. KeepsPinned("flags", patch)
  BY <1>3 DEF KeepsPinned, KeepsKind
<1>6. EditOf("flags", patch)
  BY <1>1, <1>2, <1>4, <1>5 DEF EditOf, Action
<1> QED  BY <1>6 DEF patch

LEMMA DiscardIsEdit ==
  ASSUME objects \in Canvas, Hierarchy(objects), NEW i \in Ids, DiscardObject(i)
  PROVE  EditOf("discard", Discarded(objects, i))
<1>1. /\ i \in ActiveIn(objects) /\ MayDiscard(objects, i)
      /\ Commit("discard", Discarded(objects, i))
  BY DEF DiscardObject, MayDiscard
<1>2. PICK patch : patch = Discarded(objects, i)
  OBVIOUS
<1>3. patch \in Patches
  BY <1>1, <1>2, DiscardedType
<1>4. /\ DOMAIN patch = {i}
      /\ patch[i].x = objects[i].x /\ patch[i].width = objects[i].width
      /\ patch[i].parent = objects[i].parent
  BY <1>1, <1>2, DiscardedFields
<1>5. Hierarchy(Overwrite(objects, patch))
  <2>1. Takes(Overwrite(objects, patch), objects, Discarded(objects, i))
    BY <1>2, <1>3, OverwriteTakes
  <2> QED  BY <1>1, <2>1, DiscardedSound
<1>6. KeepsPinned("discard", patch)
  BY <1>4 DEF KeepsPinned, KeepsPlace
<1> QED  BY <1>1, <1>2, <1>3, <1>5, <1>6 DEF EditOf, Action

LEMMA GroupIsEdit ==
  ASSUME objects \in Canvas, Hierarchy(objects), NEW f \in Ids, NEW S \in SUBSET Ids,
         NEW x \in 0 .. MaxX, NEW w \in Widths, GroupObjects(f, S, x, w)
  PROVE  EditOf("group", Grouped(objects, f, S, x, w))
<1> DEFINE patch == Grouped(objects, f, S, x, w)
<1>1. /\ MayGroup(objects, f, S, x, w) /\ Commit("group", patch)
      /\ objects[f] = None /\ S \subseteq ActiveIn(objects)
      /\ \A j \in S : ~objects[j].pinned
  BY DEF GroupObjects, MayGroup
<1>2. patch \in Patches
  BY <1>1, GroupedType
<1>3. f \notin ActiveIn(objects) /\ f \notin S
  BY <1>1 DEF ActiveIn
<1>4. DOMAIN patch = S \union {f}
  BY DEF Grouped
<1>5. Takes(Overwrite(objects, patch), objects, patch)
  BY <1>2, OverwriteTakes
<1>6. Hierarchy(Overwrite(objects, patch))
  BY <1>1, <1>5, GroupedSound, Zenon
<1>7. KeepsPinned("group", patch)
  BY <1>1, <1>3, <1>4 DEF KeepsPinned, Active
<1> QED  BY <1>1, <1>2, <1>6, <1>7 DEF EditOf, Action

LEMMA UngroupIsEdit ==
  ASSUME objects \in Canvas, Hierarchy(objects), NEW f \in Ids, UngroupObjects(f)
  PROVE  EditOf("ungroup", Ungrouped(objects, f))
<1> DEFINE patch == Ungrouped(objects, f)
<1>1. /\ MayUngroup(objects, f) /\ f \in ActiveIn(objects)
      /\ Commit("ungroup", patch)
  BY DEF UngroupObjects, MayUngroup
<1>2. patch \in Patches
  BY <1>1, UngroupedType
<1>3. Disbands(patch, objects, f)
  BY <1>1, UngroupedFields
<1>4. Takes(Overwrite(objects, patch), objects, patch)
  BY <1>2, OverwriteTakes
<1>5. Hierarchy(Overwrite(objects, patch))
  BY <1>1, <1>4, UngroupedSound
<1> HIDE DEF patch
<1>6. KeepsPinned("ungroup", patch)
  BY <1>3 DEF KeepsPinned, Disbands
<1>7. EditOf("ungroup", patch)
  BY <1>1, <1>2, <1>5, <1>6 DEF EditOf, Action
<1> QED  BY <1>7 DEF patch

LEMMA EditCases ==
  ASSUME objects \in Canvas, Hierarchy(objects), Edit
  PROVE  \E action, patch : EditOf(action, patch)
  BY CreateIsEdit, AppendIsEdit, TransformIsEdit, FlagsIsEdit, DiscardIsEdit, GroupIsEdit,
     UngroupIsEdit, Zenon DEF Edit

-----------------------------------------------------------------------------
(* The history after one more receipt.                                     *)

LEMMA EffectsIs ==
  ASSUME Len(receipts) \in Nat, LogSound(receipts, Len(receipts)),
         NEW E, IsEffects(E, receipts, Len(receipts)), NEW k \in 1 .. Len(receipts)
  PROVE  Effects(k) = E[k]
<1> DEFINE n == Len(receipts)
           IsEffect(F) == F = [j \in 1 .. n |->
                                 IF receipts[j].action # "redo" \/ receipts[j].target = 0 THEN {j}
                                 ELSE {j} \union F[receipts[receipts[j].target].target]]
           F == CHOOSE F : IsEffect(F)
<1>1. \A j \in 1 .. n : receipts[j].action = "redo" => receipts[j].target # 0
  <2> SUFFICES ASSUME NEW j \in 1 .. n, receipts[j].action = "redo"
               PROVE  receipts[j].target # 0
    OBVIOUS
  <2>1. receipts[j].target \in 1 .. j - 1
    BY Names
  <2> QED  BY <2>1
<1>2. ASSUME NEW G  PROVE IsEffect(G) <=> IsEffects(G, receipts, n)
  <2>1. \A j \in 1 .. n :
          (IF receipts[j].action # "redo" \/ receipts[j].target = 0 THEN {j}
           ELSE {j} \union G[receipts[receipts[j].target].target])
          = (IF receipts[j].action # "redo" THEN {j}
             ELSE {j} \union G[receipts[receipts[j].target].target])
    BY <1>1
  <2>2. [j \in 1 .. n |->
           IF receipts[j].action # "redo" \/ receipts[j].target = 0 THEN {j}
           ELSE {j} \union G[receipts[receipts[j].target].target]]
        = [j \in 1 .. n |->
             IF receipts[j].action # "redo" THEN {j}
             ELSE {j} \union G[receipts[receipts[j].target].target]]
    BY <2>1, Zenon
  <2> QED  BY <2>2, Zenon DEF IsEffects
<1>3. IsEffects(F, receipts, n)
  <2>1. IsEffect(E)
    BY <1>2
  <2>2. IsEffect(F)
    BY <2>1, Zenon
  <2> QED  BY <1>2, <2>2
<1>4. Effects(k) = F[k]
  BY Zenon DEF Effects
<1> HIDE DEF F, IsEffect
<1>5. Alike(receipts, receipts, n) /\ n =< n
  BY DEF Alike
<1>6. \A j \in 1 .. n : E[j] = F[j]
  BY <1>3, <1>5, EffectsAgree
<1> QED  BY <1>4, <1>6

LEMMA HistoryAfterEdit ==
  ASSUME NEW log, NEW n \in Nat, NEW taken, NEW stack, HistoryOf(log, n, taken, stack),
         NEW longer, Alike(log, longer, n), NamesSoundly(longer, n + 1),
         IsEdit(longer[n + 1])
  PROVE  HistoryOf(longer, n + 1, taken, << >>)
<1>1. LogSound(log, n) /\ RedoSound(log, n, stack)
  BY DEF HistoryOf
<1>2. PICK E : IsEffects(E, log, n) /\ UndoneSound(log, n, E, taken)
  BY DEF HistoryOf
<1>3. /\ LogSound(longer, n + 1)
      /\ \E F : IsEffects(F, longer, n + 1) /\ UndoneSound(longer, n, F, taken)
  BY <1>1, <1>2, PlannerStep
<1>4. PICK F : IsEffects(F, longer, n + 1) /\ UndoneSound(longer, n, F, taken)
  BY <1>3
<1>5. PICK N : N = n + 1
  OBVIOUS
<1>6. N \in Nat \ {0} /\ N - 1 = n
  BY <1>5
<1>7. UndoneSound(longer, N, F, taken)
  BY <1>3, <1>4, <1>5, <1>6, UndoneAfterEdit
<1>8. RedoSound(longer, N, << >>)
  BY <1>3, <1>5, <1>6, RedoAfterEdit
<1> QED  BY <1>3, <1>4, <1>5, <1>7, <1>8 DEF HistoryOf

LEMMA HistoryAfterUndo ==
  ASSUME NEW log, NEW n \in Nat, NEW taken, NEW stack, HistoryOf(log, n, taken, stack),
         NEW longer, Alike(log, longer, n), NamesSoundly(longer, n + 1),
         longer[n + 1].action = "undo",
         NEW E, IsEffects(E, log, n), UndoneSound(log, n, E, taken)
  PROVE  HistoryOf(longer, n + 1, taken \union E[longer[n + 1].target], Append(stack, n + 1))
<1>1. LogSound(log, n) /\ RedoSound(log, n, stack)
  BY DEF HistoryOf
<1>2. /\ LogSound(longer, n + 1)
      /\ RedoSound(longer, n, stack)
      /\ \E F : /\ IsEffects(F, longer, n + 1)
               /\ UndoneSound(longer, n, F, taken)
               /\ \A j \in 1 .. n : F[j] = E[j]
  BY <1>1, PlannerStep
<1>3. PICK F : /\ IsEffects(F, longer, n + 1)
               /\ UndoneSound(longer, n, F, taken)
               /\ \A j \in 1 .. n : F[j] = E[j]
  BY <1>2
<1>4. PICK N : N = n + 1
  OBVIOUS
<1>5. N \in Nat \ {0} /\ N - 1 = n /\ N \in 1 .. N
  BY <1>4
<1>6. longer[N].target \in 1 .. n
  BY <1>2, <1>4, <1>5, Names
<1>7. UndoneSound(longer, N, F, taken \union F[longer[N].target])
  BY <1>2, <1>3, <1>4, <1>5, UndoneAfterUndo
<1>8. RedoSound(longer, N, Append(stack, N))
  BY <1>2, <1>4, <1>5, RedoAfterUndo
<1> QED  BY <1>2, <1>3, <1>4, <1>6, <1>7, <1>8 DEF HistoryOf

LEMMA HistoryAfterRedo ==
  ASSUME NEW log, NEW n \in Nat, NEW taken, NEW stack, HistoryOf(log, n, taken, stack),
         stack # << >>,
         NEW longer, Alike(log, longer, n), NamesSoundly(longer, n + 1),
         longer[n + 1].action = "redo", longer[n + 1].target = stack[Len(stack)],
         NEW E, IsEffects(E, log, n), UndoneSound(log, n, E, taken)
  PROVE  HistoryOf(longer, n + 1, taken \ E[longer[stack[Len(stack)]].target], Front(stack))
<1>1. LogSound(log, n) /\ RedoSound(log, n, stack)
  BY DEF HistoryOf
<1>2. /\ LogSound(longer, n + 1)
      /\ RedoSound(longer, n, stack)
      /\ \E F : /\ IsEffects(F, longer, n + 1)
               /\ UndoneSound(longer, n, F, taken)
               /\ \A j \in 1 .. n : F[j] = E[j]
  BY <1>1, PlannerStep
<1>3. PICK F : /\ IsEffects(F, longer, n + 1)
               /\ UndoneSound(longer, n, F, taken)
               /\ \A j \in 1 .. n : F[j] = E[j]
  BY <1>2
<1>4. PICK N : N = n + 1
  OBVIOUS
<1>5. N \in Nat \ {0} /\ N - 1 = n /\ N \in 1 .. N
  BY <1>4
<1>6. PICK u : u = stack[Len(stack)]
  OBVIOUS
<1>7. longer[N].target = u /\ longer[N].action = "redo"
  BY <1>4, <1>6
<1>8. u \in 1 .. n /\ u \in 1 .. N /\ longer[u].action = "undo"
  BY <1>2, <1>4, <1>5, <1>7, Names
<1>9. longer[u].target \in 1 .. n
  <2>1. longer[u].target \in 1 .. u - 1
    BY <1>2, <1>4, <1>5, <1>8, Names
  <2> QED  BY <1>8, <2>1
<1>10. UndoneSound(longer, N, F, taken \ F[longer[u].target])
  BY <1>2, <1>3, <1>4, <1>5, <1>7, UndoneAfterRedo
<1>11. PICK left : left = Front(stack)
  OBVIOUS
<1>12. /\ stack \in Seq(1 .. n) /\ Len(stack) \in Nat \ {0}
       /\ \A k, l \in 1 .. Len(stack) : k < l => stack[k] < stack[l]
  BY <1>2 DEF RedoSound
<1>13. /\ left \in Seq(1 .. n)
       /\ Len(left) = Len(stack) - 1
       /\ \A k \in 1 .. Len(stack) - 1 : left[k] = stack[k]
  BY <1>11, <1>12, FrontIs, Zenon
<1>14. \A k, l \in 1 .. Len(left) : k < l => left[k] < left[l]
  <2> SUFFICES ASSUME NEW k \in 1 .. Len(left), NEW l \in 1 .. Len(left), k < l
               PROVE  left[k] < left[l]
    OBVIOUS
  <2>1. /\ k \in 1 .. Len(stack) - 1 /\ k \in 1 .. Len(stack)
        /\ l \in 1 .. Len(stack) - 1 /\ l \in 1 .. Len(stack)
    <3>1. k \in 1 .. Len(stack) - 1 /\ l \in 1 .. Len(stack) - 1
      BY <1>13, Zenon
    <3>2. PICK top \in Nat \ {0} : top = Len(stack)
      BY <1>12
    <3>3. \A j \in 1 .. top - 1 : j \in 1 .. top
      OBVIOUS
    <3> QED  BY <3>1, <3>2, <3>3, Zenon
  <2>2. left[k] = stack[k] /\ left[l] = stack[l]
    BY <1>13, <2>1
  <2> QED  BY <1>12, <2>1, <2>2
<1>15. { left[k] : k \in 1 .. Len(left) } = { stack[k] : k \in 1 .. Len(stack) } \ {u}
  <2>1. \A k \in 1 .. Len(stack) : k # Len(stack) => k \in 1 .. Len(stack) - 1
    BY <1>12
  <2>2. \A k \in 1 .. Len(stack) - 1 : k \in 1 .. Len(stack) /\ k < Len(stack)
    BY <1>12
  <2>3. \A k \in 1 .. Len(stack) - 1 : stack[k] # u
    <3> SUFFICES ASSUME NEW k \in 1 .. Len(stack) - 1  PROVE stack[k] # u
      OBVIOUS
    <3>1. k \in 1 .. Len(stack) /\ Len(stack) \in 1 .. Len(stack) /\ k < Len(stack)
      BY <1>12, <2>2
    <3>2. stack[k] < stack[Len(stack)] /\ stack[k] \in 1 .. n /\ stack[Len(stack)] \in 1 .. n
      BY <1>12, <3>1
    <3> QED  BY <1>6, <3>2
  <2>4. ASSUME NEW v \in { left[k] : k \in 1 .. Len(left) }
        PROVE  v \in { stack[k] : k \in 1 .. Len(stack) } \ {u}
    BY <1>13, <2>2, <2>3
  <2>5. ASSUME NEW v \in { stack[k] : k \in 1 .. Len(stack) } \ {u}
        PROVE  v \in { left[k] : k \in 1 .. Len(left) }
    <3>1. PICK k \in 1 .. Len(stack) : v = stack[k] /\ k # Len(stack)
      BY <1>6
    <3> QED  BY <1>13, <2>1, <3>1
  <2> QED  BY <2>4, <2>5
<1>16. RedoSound(longer, N, left)
  <2>1. RedoSound(longer, N - 1, stack) /\ left \in Seq(1 .. N - 1)
    BY <1>2, <1>5, <1>13
  <2>2. { left[k] : k \in 1 .. Len(left) }
          = { stack[k] : k \in 1 .. Len(stack) } \ {longer[N].target}
    BY <1>7, <1>15
  <2>3. LogSound(longer, N) /\ longer[N].action = "redo"
    BY <1>2, <1>4, <1>7
  <2>4. Stacked(left, N - 1, Elements(stack) \ {longer[N].target})
    BY <1>14, <2>1, <2>2, Zenon DEF Stacked, Elements
  <2> QED  BY <1>5, <2>1, <2>3, <2>4, RedoAfterRedo, Zenon
<1>17. taken \ E[longer[stack[Len(stack)]].target] = taken \ F[longer[u].target]
  BY <1>3, <1>6, <1>9
<1> QED  BY <1>2, <1>3, <1>4, <1>10, <1>11, <1>16, <1>17 DEF HistoryOf

-----------------------------------------------------------------------------
(* The canvases after one more receipt.                                    *)

LEMMA PastStep ==
  ASSUME TypeInv, NEW c, Past(c), revision' = revision + 1, NEW table \in Canvas,
         objects' = table, Hierarchy(table),
         \A k \in 1 .. revision : receipts'[k] = receipts[k],
         Records(receipts'[revision'], objects, table),
         NEW d, d = [k \in 0 .. revision + 1 |-> IF k = revision + 1 THEN table ELSE c[k]]
  PROVE  Past(d)'
<1>1. revision \in Nat
  BY DEF TypeInv
<1>2. /\ c \in [0 .. revision -> Canvas] /\ c[revision] = objects
      /\ \A k \in 0 .. revision : Hierarchy(c[k])
      /\ \A k \in 1 .. revision : Records(receipts[k], c[k - 1], c[k])
  BY DEF Past
<1>3. d[revision'] = table /\ \A k \in 0 .. revision : d[k] = c[k]
  BY <1>1
<1>4. d \in [0 .. revision' -> Canvas]
  BY <1>1, <1>2
<1>5. \A k \in 0 .. revision' : k = revision' \/ k \in 0 .. revision
  BY <1>1
<1>6. \A k \in 0 .. revision' : Hierarchy(d[k])
  BY <1>2, <1>3, <1>5
<1>7. ASSUME NEW k \in 1 .. revision'  PROVE Records(receipts'[k], d[k - 1], d[k])
  <2>1. CASE k = revision'
    <3>1. d[k - 1] = objects
      BY <1>1, <1>2, <1>3, <2>1
    <3> QED  BY <1>3, <2>1, <3>1
  <2>2. CASE k # revision'
    <3>1. k \in 1 .. revision /\ k - 1 \in 0 .. revision /\ k \in 0 .. revision
      BY <1>1, <2>2
    <3> QED  BY <1>2, <1>3, <3>1
  <2> QED  BY <2>1, <2>2
<1> QED  BY <1>3, <1>4, <1>6, <1>7 DEF Past

LEMMA ReturnsStep ==
  ASSUME NEW n \in Nat, NEW log, NEW longer, Alike(log, longer, n),
         LogSound(log, n), LogSound(longer, n + 1),
         NEW c, Retraces(log, n, c), NEW table,
         ~IsEdit(longer[n + 1]) => table = c[longer[n + 1].target - 1],
         NEW d, d = [k \in 0 .. n + 1 |-> IF k = n + 1 THEN table ELSE c[k]]
  PROVE  Retraces(longer, n + 1, d)
<1> DEFINE N == n + 1
           t == longer[N].target
<1>1. /\ N \in Nat \ {0} /\ N \in 1 .. N /\ N - 1 = n
      /\ d[N] = table /\ \A k \in 0 .. n : d[k] = c[k]
  OBVIOUS
<1>2. \A m \in 0 .. n : \A k \in Nat : /\ IsUndo(log, m, k) = IsUndo(longer, m, k)
                                     /\ IsRedo(log, m, k) = IsRedo(longer, m, k)
  BY AlikeHistories
<1>3. /\ \A k \in 0 .. N : k = N \/ k \in 0 .. n
      /\ \A k \in 1 .. N : k = N \/ k \in 1 .. n
  OBVIOUS
<1>4. ~IsEdit(longer[N]) => t \in 1 .. n
  BY <1>1, Names DEF IsEdit
<1>5. ASSUME NEW k \in 1 .. N, ~IsEdit(longer[k])
      PROVE  d[k] = d[longer[k].target - 1]
  <2>1. CASE k = N
    <3>1. t - 1 \in 0 .. n
      BY <1>4, <1>5, <2>1
    <3> QED  BY <1>1, <1>5, <2>1, <3>1
  <2>2. CASE k # N
    <3>1. k \in 1 .. n /\ k \in 0 .. n
      BY <1>3, <2>2
    <3>2. longer[k].action = log[k].action /\ longer[k].target = log[k].target
      BY <3>1 DEF Alike
    <3>3. log[k].target - 1 \in 0 .. n
      <4>1. log[k].target \in 1 .. k - 1
        BY <1>5, <3>1, <3>2, Names DEF IsEdit
      <4> QED  BY <3>1, <4>1
    <3>4. c[k] = c[log[k].target - 1]
      BY <1>5, <3>1, <3>2 DEF Retraces, IsEdit
    <3> QED  BY <1>1, <3>1, <3>2, <3>3, <3>4
  <2> QED  BY <2>1, <2>2
<1>6. ASSUME NEW m \in 0 .. N, NEW k \in 1 .. m, IsUndo(longer, m, k) \/ IsRedo(longer, m, k)
      PROVE  d[m] = d[k]
  <2>1. CASE m # N
    <3>1. m \in 0 .. n /\ k \in 0 .. n /\ k \in Nat
      BY <1>3, <2>1
    <3>2. IsUndo(log, m, k) \/ IsRedo(log, m, k)
      BY <1>2, <1>6, <3>1
    <3>3. c[m] = c[k]
      BY <3>1, <3>2 DEF Retraces
    <3> QED  BY <1>1, <3>1, <3>3
  <2>2. CASE m = N
    <3>1. CASE k = N
      BY <2>2, <3>1
    <3>2. CASE k # N
      <4>1. ~IsEdit(longer[N]) /\ k \in 1 .. n
        BY <1>1, <1>3, <1>6, <2>2, <3>2, AfterEdit
      <4>2. t \in 1 .. n /\ t - 1 \in 0 .. n
        BY <1>4, <4>1
      <4>3. IsUndo(longer, t - 1, k) \/ IsRedo(longer, t - 1, k)
        <5>1. CASE longer[N].action = "undo"
          BY <1>1, <1>6, <2>2, <3>2, <5>1, AfterUndo
        <5>2. CASE longer[N].action = "redo"
          BY <1>1, <1>6, <2>2, <3>2, <5>2, AfterRedo
        <5> QED  BY <4>1, <5>1, <5>2 DEF IsEdit
      <4>4. k \in 1 .. t - 1
        BY <4>1, <4>3 DEF IsUndo, IsRedo, OpenAt, OpenUndosAt
      <4>5. IsUndo(log, t - 1, k) \/ IsRedo(log, t - 1, k)
        BY <1>2, <4>1, <4>2, <4>3
      <4>6. c[t - 1] = c[k]
        BY <4>2, <4>4, <4>5 DEF Retraces
      <4>7. table = c[t - 1]
        BY <4>1
      <4>8. d[k] = c[k]
        BY <1>1, <4>1
      <4> HIDE DEF t
      <4> QED  BY <1>1, <2>2, <4>6, <4>7, <4>8
    <3> QED  BY <3>1, <3>2
  <2> QED  BY <2>1, <2>2
<1> QED  BY <1>5, <1>6 DEF Retraces

\* Reversing the receipt that left the canvas as it is puts back, object by object,
\* the canvas before it.
LEMMA ReversalIs ==
  ASSUME TypeInv, NEW c, Past(c), NEW k \in 1 .. revision, objects = c[k],
         NEW action \in Action,
         NEW r, r = [ action |-> action, before |-> receipts[k].after,
                      after |-> receipts[k].before, target |-> k ]
  PROVE  /\ Overwrite(objects, receipts[k].before) = c[k - 1]
         /\ c[k - 1] \in Canvas
         /\ Hierarchy(c[k - 1])
         /\ r \in Receipts
         /\ Records(r, objects, c[k - 1])
<1>1. /\ k - 1 \in 0 .. revision /\ k \in 0 .. revision /\ k \in Nat
      /\ receipts[k] \in Receipts
  BY DEF TypeInv
<1>2. /\ c[k - 1] \in Canvas /\ c[k] \in Canvas /\ Hierarchy(c[k - 1])
      /\ Records(receipts[k], c[k - 1], c[k])
  BY <1>1 DEF Past
<1>3. /\ DOMAIN receipts[k].after \subseteq Ids
      /\ DOMAIN receipts[k].before = DOMAIN receipts[k].after
      /\ \A i \in DOMAIN receipts[k].after :
           receipts[k].before[i] = c[k - 1][i] /\ receipts[k].after[i] = c[k][i]
      /\ \A i \in Ids \ DOMAIN receipts[k].after : c[k][i] = c[k - 1][i]
  BY <1>2 DEF Records
<1>4. Overwrite(objects, receipts[k].before) = c[k - 1]
  <2>1. DOMAIN objects = Ids /\ c[k - 1] = [i \in Ids |-> c[k - 1][i]]
    BY <1>2 DEF Canvas
  <2>2. \A i \in Ids : (IF i \in DOMAIN receipts[k].before THEN receipts[k].before[i]
                        ELSE objects[i]) = c[k - 1][i]
    BY <1>3
  <2> QED  BY <2>1, <2>2 DEF Overwrite
<1>5. r \in Receipts
  <2>1. /\ receipts[k].before \in UNION { [S -> Snapshot] : S \in SUBSET Ids }
        /\ receipts[k].after \in UNION { [S -> Snapshot] : S \in SUBSET Ids }
    BY <1>1, Zenon DEF Receipts
  <2> QED  BY <1>1, <2>1, Zenon DEF Receipts
<1>6. Records(r, objects, c[k - 1])
  <2>1. r.before = receipts[k].after /\ r.after = receipts[k].before
    OBVIOUS
  <2> QED  BY <1>3, <2>1 DEF Records
<1> QED  BY <1>2, <1>4, <1>5, <1>6

-----------------------------------------------------------------------------
(* The invariant.                                                          *)

\* One more receipt lengthens the past by the canvas it led to.
Extends(c, d) ==
  /\ revision' = revision + 1
  /\ Longer(c, d, revision)
  /\ Alike(receipts, receipts', revision)
  /\ Past(d)'
  /\ Retraces(receipts', revision', d)

Lengthens == \E c, d : Past(c) /\ Retraces(receipts, revision, c) /\ Extends(c, d)

LEMMA CommittedStep ==
  ASSUME Inv, NEW r \in Receipts, NEW table \in Canvas, Hierarchy(table),
         revision' = revision + 1, objects' = table, receipts' = Append(receipts, r),
         Records(r, objects, table), HistoryOf(receipts', revision', undone', redo'),
         NEW c, Past(c), Retraces(receipts, revision, c),
         ~IsEdit(r) => table = c[r.target - 1]
  PROVE  Inv' /\ Lengthens
<1>1. /\ revision \in Nat /\ receipts \in Seq(Receipts) /\ Len(receipts) = revision
      /\ TypeInv /\ LogSound(receipts, revision)
  BY DEF Inv, TypeInv, HistoryOf
<1>2. /\ receipts' \in Seq(Receipts) /\ Len(receipts') = revision'
      /\ \A k \in 1 .. revision : receipts'[k] = receipts[k]
      /\ receipts'[revision'] = r
  BY <1>1
<1>3. TypeInv'
  <2>1. undone' \subseteq Nat /\ redo' \in Seq(Nat)
    BY DEF HistoryOf, UndoneSound, RedoSound
  <2> QED  BY <1>1, <1>2, <2>1 DEF TypeInv
<1>4. PICK d : d = [k \in 0 .. revision + 1 |-> IF k = revision + 1 THEN table ELSE c[k]]
  OBVIOUS
<1>5. Past(d)'
  BY <1>1, <1>2, <1>4, PastStep
<1>6. PICK longer : longer = receipts'
  OBVIOUS
<1>7. Retraces(longer, revision + 1, d)
  <2>1. Alike(receipts, longer, revision)
    BY <1>2, <1>6 DEF Alike
  <2>2. LogSound(longer, revision + 1)
    BY <1>6 DEF HistoryOf
  <2>3. ~IsEdit(longer[revision + 1]) => table = c[longer[revision + 1].target - 1]
    BY <1>2, <1>6
  <2> QED  BY <1>1, <1>4, <2>1, <2>2, <2>3, ReturnsStep
<1>8. Retraces(receipts', revision', d)
  BY <1>6, <1>7
<1>9. Extends(c, d)
  <2>1. Longer(c, d, revision)
    BY <1>1, <1>4 DEF Longer
  <2>2. Alike(receipts, receipts', revision)
    BY <1>2 DEF Alike
  <2> QED  BY <1>5, <1>8, <2>1, <2>2 DEF Extends
<1>10. Inv'
  BY <1>3, <1>5, <1>8 DEF Inv, HistoryOf
<1>11. Lengthens
  BY <1>9 DEF Lengthens
<1> QED  BY <1>10, <1>11

LEMMA InvInit ==
  ASSUME Init
  PROVE  Inv
<1>1. /\ objects = [i \in Ids |-> None] /\ revision = 0 /\ receipts = << >>
      /\ undone = {} /\ redo = << >>
  BY DEF Init
<1>2. objects \in Canvas
  BY <1>1 DEF Canvas, Snapshot
<1>3. TypeInv
  BY <1>1, <1>2 DEF TypeInv
<1>4. HistoryOf(receipts, revision, undone, redo)
  <2>1. LogSound(receipts, 0)
    BY DEF LogSound
  <2>2. PICK E : IsEffects(E, receipts, 0)
    BY <2>1, EffectsExist
  <2>3. OpenAt(receipts, 0) = {} /\ OpenUndosAt(receipts, 0) = {}
    BY DEF OpenAt, OpenUndosAt
  <2>4. UndoneSound(receipts, 0, E, {})
    BY <2>3 DEF UndoneSound, Heads
  <2>5. RedoSound(receipts, 0, << >>)
    BY <2>3 DEF RedoSound
  <2> QED  BY <1>1, <2>1, <2>2, <2>4, <2>5 DEF HistoryOf
<1>5. Hierarchy(objects)
  <2>1. ActiveIn(objects) = {}
    BY <1>1 DEF ActiveIn
  <2> QED  BY <2>1 DEF Hierarchy
<1>6. Past([k \in 0 .. 0 |-> objects])
  BY <1>1, <1>2, <1>5 DEF Past
<1>7. Retraces(receipts, revision, [k \in 0 .. 0 |-> objects])
  <2>1. \A m \in 0 .. 0 : 1 .. m = {}
    OBVIOUS
  <2> QED  BY <1>1, <2>1 DEF Retraces
<1> QED  BY <1>3, <1>4, <1>6, <1>7 DEF Inv

LEMMA InvEdit ==
  ASSUME Inv, NEW action, NEW patch, EditOf(action, patch)
  PROVE  Inv' /\ Lengthens
<1>1. PICK c : Past(c) /\ Retraces(receipts, revision, c)
  BY DEF Inv
<1>2. /\ TypeInv /\ revision \in Nat /\ objects \in Canvas
      /\ receipts \in Seq(Receipts) /\ Len(receipts) = revision
      /\ HistoryOf(receipts, revision, undone, redo)
  BY DEF Inv, TypeInv
<1>3. PICK r : r = [ action |-> action,
                     before |-> [i \in DOMAIN patch |-> objects[i]],
                     after  |-> patch,
                     target |-> 0 ]
  OBVIOUS
<1>4. /\ action \in Action /\ action \notin {"undo", "redo"}
      /\ patch \in Patches /\ DOMAIN patch \subseteq Ids
      /\ \A i \in DOMAIN patch : patch[i] \in Object
      /\ Hierarchy(Overwrite(objects, patch))
      /\ revision' = revision + 1 /\ objects' = Overwrite(objects, patch)
      /\ receipts' = Append(receipts, r) /\ redo' = << >> /\ undone' = undone
  BY <1>3 DEF EditOf, Commit, Patches
<1>5. PICK table : table = Overwrite(objects, patch)
  OBVIOUS
<1>6. table \in Canvas
  BY <1>2, <1>4, <1>5, OverwriteTakes
<1>7. r.action = action /\ r.target = 0 /\ r.after = patch
      /\ r.before = [i \in DOMAIN patch |-> objects[i]]
  BY <1>3
<1>8. r \in Receipts
  <2>1. /\ [i \in DOMAIN patch |-> objects[i]] \in [DOMAIN patch -> Snapshot]
        /\ patch \in [DOMAIN patch -> Snapshot]
    <3>1. patch = [i \in DOMAIN patch |-> patch[i]]
      BY <1>4 DEF Patches
    <3> QED  BY <1>2, <1>4, <3>1 DEF Canvas, Snapshot
  <2>2. PICK S \in SUBSET Ids : S = DOMAIN patch
    BY <1>4
  <2>3. /\ [i \in DOMAIN patch |-> objects[i]] \in UNION { [T -> Snapshot] : T \in SUBSET Ids }
        /\ patch \in UNION { [T -> Snapshot] : T \in SUBSET Ids }
    BY <2>1, <2>2
  <2>4. 0 \in Nat
    OBVIOUS
  <2> QED  BY <1>3, <1>4, <2>3, <2>4, Zenon DEF Receipts
<1>9. Records(r, objects, table)
  <2>1. DOMAIN objects = Ids
    BY <1>2 DEF Canvas
  <2> QED  BY <1>4, <1>5, <1>7, <2>1 DEF Records, Overwrite
<1>10. PICK longer : longer = receipts'
  OBVIOUS
<1>11. /\ longer[revision + 1] = r
       /\ \A k \in 1 .. revision : longer[k] = receipts[k]
  BY <1>2, <1>4, <1>8, <1>10
<1>12. HistoryOf(longer, revision + 1, undone, << >>)
  <2>1. Alike(receipts, longer, revision)
    BY <1>11 DEF Alike
  <2>2. IsEdit(longer[revision + 1])
    BY <1>4, <1>7, <1>11 DEF IsEdit
  <2>3. NamesSoundly(longer, revision + 1)
    BY <1>7, <1>11, <2>2 DEF NamesSoundly
  <2> QED  BY <1>2, <2>1, <2>2, <2>3, HistoryAfterEdit
<1>13. HistoryOf(receipts', revision', undone', redo')
  BY <1>4, <1>10, <1>12
<1>14. IsEdit(r)
  BY <1>4, <1>7 DEF IsEdit
<1> QED  BY <1>1, <1>4, <1>5, <1>6, <1>8, <1>9, <1>13, <1>14, CommittedStep

\* What the planner names.
LEMMA PlannerNames ==
  ASSUME Inv, NEW E, IsEffects(E, receipts, revision),
         UndoneSound(receipts, revision, E, undone)
  PROVE  /\ Undoable # {} => IsUndo(receipts, revision, Max(Undoable))
         /\ redo # << >> => IsRedo(receipts, revision, Last(redo))
<1>1. /\ revision \in Nat /\ Len(receipts) = revision
      /\ LogSound(receipts, revision) /\ RedoSound(receipts, revision, redo)
  BY DEF Inv, TypeInv, HistoryOf
<1>2. PICK undoable : undoable = Undoable
  OBVIOUS
<1>3. undoable = { k \in 1 .. revision : receipts[k].action # "undo" /\ k \notin undone }
  BY <1>1, <1>2 DEF Undoable
<1>4. undoable # {} => IsUndo(receipts, revision, Max(undoable))
  BY <1>1, <1>3, PlannerUndo
<1>5. redo # << >> => IsRedo(receipts, revision, redo[Len(redo)])
  BY <1>1, PlannerRedo
<1> QED  BY <1>2, <1>4, <1>5 DEF Last

\* A reversal of a receipt that undo or redo may name.
LEMMA InvReapply ==
  ASSUME Inv, NEW action \in {"undo", "redo"}, NEW k, Reapply(action, k),
         action = "undo" => IsUndo(receipts, revision, k),
         action = "redo" => IsRedo(receipts, revision, k),
         \A longer : /\ Alike(receipts, longer, revision)
                     /\ NamesSoundly(longer, revision + 1)
                     /\ longer[revision + 1].action = action
                     /\ longer[revision + 1].target = k
                     => HistoryOf(longer, revision + 1, undone', redo')
  PROVE  Inv' /\ Lengthens
<1>1. PICK c : Past(c) /\ Retraces(receipts, revision, c)
  BY DEF Inv
<1>2. /\ TypeInv /\ revision \in Nat /\ revision \in 0 .. revision /\ objects \in Canvas
      /\ receipts \in Seq(Receipts) /\ Len(receipts) = revision
  BY DEF Inv, TypeInv
<1>3. k \in 1 .. revision /\ k \in Nat
  BY <1>2 DEF IsUndo, IsRedo, OpenAt, OpenUndosAt
<1>4. objects = c[k]
  BY <1>1, <1>2, <1>3 DEF Past, Retraces
<1>5. action \in Action
  BY DEF Action
<1>6. PICK r : r = [ action |-> action, before |-> receipts[k].after,
                     after |-> receipts[k].before, target |-> k ]
  OBVIOUS
<1>7. /\ revision' = revision + 1 /\ objects' = Overwrite(objects, receipts[k].before)
      /\ receipts' = Append(receipts, r)
  BY <1>6 DEF Reapply
<1>8. PICK table : table = c[k - 1]
  OBVIOUS
<1>9. /\ objects' = table /\ table \in Canvas /\ Hierarchy(table)
      /\ r \in Receipts /\ Records(r, objects, table)
  BY <1>1, <1>2, <1>3, <1>4, <1>5, <1>6, <1>7, <1>8, ReversalIs
<1>10. r.action = action /\ r.target = k
  BY <1>6
<1>11. PICK longer : longer = receipts'
  OBVIOUS
<1>12. /\ longer[revision + 1] = r
       /\ \A l \in 1 .. revision : longer[l] = receipts[l]
  BY <1>2, <1>7, <1>9, <1>11
<1>13. HistoryOf(longer, revision + 1, undone', redo')
  <2>1. Alike(receipts, longer, revision)
    BY <1>12 DEF Alike
  <2>2. NamesSoundly(longer, revision + 1)
    <3>1. (revision + 1) - 1 = revision
      BY <1>2
    <3>2. /\ IsUndo(receipts, revision, k) = IsUndo(longer, revision, k)
          /\ IsRedo(receipts, revision, k) = IsRedo(longer, revision, k)
      BY <1>2, <1>3, <2>1, AlikeHistories
    <3> QED  BY <1>10, <1>12, <3>1, <3>2 DEF NamesSoundly
  <2> QED  BY <1>10, <1>12, <2>1, <2>2
<1>14. HistoryOf(receipts', revision', undone', redo')
  BY <1>7, <1>11, <1>13
<1>15. ~IsEdit(r) => table = c[r.target - 1]
  BY <1>8, <1>10
<1> QED  BY <1>1, <1>7, <1>9, <1>14, <1>15, CommittedStep

LEMMA InvUndo ==
  ASSUME Inv, UndoLatest
  PROVE  Inv' /\ Lengthens
<1>1. /\ revision \in Nat /\ Len(receipts) = revision
      /\ HistoryOf(receipts, revision, undone, redo) /\ LogSound(receipts, revision)
  BY DEF Inv, TypeInv, HistoryOf
<1>2. PICK E : IsEffects(E, receipts, revision) /\ UndoneSound(receipts, revision, E, undone)
  BY <1>1 DEF HistoryOf
<1>3. PICK k : k = Max(Undoable)
  OBVIOUS
<1>4. /\ Reapply("undo", k) /\ undone' = undone \union Effects(k)
      /\ redo' = Append(redo, revision + 1)
      /\ IsUndo(receipts, revision, k)
  BY <1>1, <1>2, <1>3, PlannerNames DEF UndoLatest
<1>5. k \in 1 .. revision
  BY <1>4 DEF IsUndo, OpenAt
<1>6. Effects(k) = E[k]
  BY <1>1, <1>2, <1>5, EffectsIs
<1>7. ASSUME NEW longer, Alike(receipts, longer, revision),
             NamesSoundly(longer, revision + 1), longer[revision + 1].action = "undo",
             longer[revision + 1].target = k
      PROVE  HistoryOf(longer, revision + 1, undone', redo')
  <2>1. HistoryOf(longer, revision + 1, undone \union E[longer[revision + 1].target],
                  Append(redo, revision + 1))
    BY <1>1, <1>2, <1>7, HistoryAfterUndo
  <2> QED  BY <1>4, <1>6, <1>7, <2>1
<1> QED  BY <1>4, <1>7, InvReapply

LEMMA InvRedo ==
  ASSUME Inv, RedoLatest
  PROVE  Inv' /\ Lengthens
<1>1. /\ revision \in Nat /\ Len(receipts) = revision
      /\ HistoryOf(receipts, revision, undone, redo) /\ LogSound(receipts, revision)
  BY DEF Inv, TypeInv, HistoryOf
<1>2. PICK E : IsEffects(E, receipts, revision) /\ UndoneSound(receipts, revision, E, undone)
  BY <1>1 DEF HistoryOf
<1>3. PICK k : k = Last(redo)
  OBVIOUS
<1>4. /\ redo # << >>
      /\ Reapply("redo", k) /\ undone' = undone \ Effects(receipts[k].target)
      /\ redo' = Front(redo)
      /\ IsRedo(receipts, revision, k)
  BY <1>1, <1>2, <1>3, PlannerNames DEF RedoLatest
<1>5. k \in 1 .. revision /\ receipts[k].action = "undo"
  BY <1>4 DEF IsRedo, OpenUndosAt
<1>6. receipts[k].target \in 1 .. revision
  <2>1. receipts[k].target \in 1 .. k - 1
    BY <1>1, <1>5, Names
  <2> QED  BY <1>1, <1>5, <2>1
<1>7. Effects(receipts[k].target) = E[receipts[k].target]
  BY <1>1, <1>2, <1>6, EffectsIs
<1>8. ASSUME NEW longer, Alike(receipts, longer, revision),
             NamesSoundly(longer, revision + 1), longer[revision + 1].action = "redo",
             longer[revision + 1].target = k
      PROVE  HistoryOf(longer, revision + 1, undone', redo')
  <2>1. k = redo[Len(redo)]
    BY <1>3 DEF Last
  <2>2. longer[k].target = receipts[k].target
    BY <1>5, <1>8 DEF Alike
  <2>3. HistoryOf(longer, revision + 1, undone \ E[longer[redo[Len(redo)]].target], Front(redo))
    BY <1>1, <1>2, <1>4, <1>8, <2>1, HistoryAfterRedo
  <2> QED  BY <1>4, <1>7, <2>1, <2>2, <2>3
<1> QED  BY <1>4, <1>8, InvReapply

LEMMA InvSound ==
  ASSUME Inv
  PROVE  objects \in Canvas /\ Hierarchy(objects)
<1>1. PICK c : Past(c)
  BY DEF Inv
<1>2. objects \in Canvas /\ revision \in 0 .. revision
  BY DEF Inv, TypeInv
<1> QED  BY <1>1, <1>2 DEF Past

LEMMA InvNext ==
  ASSUME Inv, [Next]_vars
  PROVE  Inv' /\ (Lengthens \/ UNCHANGED vars)
<1>1. CASE Edit
  BY <1>1, InvSound, EditCases, InvEdit
<1>2. CASE UndoLatest
  BY <1>2, InvUndo
<1>3. CASE RedoLatest
  BY <1>3, InvRedo
<1>4. CASE UNCHANGED vars
  <2>1. /\ objects' = objects /\ revision' = revision /\ receipts' = receipts
        /\ undone' = undone /\ redo' = redo
    BY <1>4 DEF vars
  <2>2. TypeInv'
    BY <2>1 DEF Inv, TypeInv
  <2>3. HistoryOf(receipts', revision', undone', redo')
    BY <2>1 DEF Inv
  <2>4. PICK c : Past(c) /\ Retraces(receipts, revision, c)
    BY DEF Inv
  <2>5. Past(c)' /\ Retraces(receipts', revision', c)
    BY <2>1, <2>4 DEF Past
  <2> QED  BY <1>4, <2>2, <2>3, <2>5 DEF Inv
<1> QED  BY <1>1, <1>2, <1>3, <1>4 DEF Next

\* Through every mix of commands, undos and redos the invariant holds.
THEOREM EngineInvariant == Spec => []Inv
<1>1. Init => Inv
  BY InvInit
<1>2. Inv /\ [Next]_vars => Inv'
  BY InvNext
<1> QED  BY <1>1, <1>2, PTL DEF Spec

-----------------------------------------------------------------------------
(* What it gives.                                                          *)

LEMMA InvTyped ==
  ASSUME Inv
  PROVE  TypeOK
<1>1. TypeInv
  BY DEF Inv
<1>2. ASSUME NEW k \in 1 .. Len(receipts)  PROVE IsReceipt(receipts[k])
  <2>1. receipts[k] \in Receipts
    BY <1>1 DEF TypeInv
  <2>2. PICK r \in Receipts : r = receipts[k]
    BY <2>1
  <2>3. PICK c : Past(c)
    BY DEF Inv
  <2>4. DOMAIN r.before \subseteq Ids /\ DOMAIN r.after = DOMAIN r.before
    <3>1. Records(r, c[k - 1], c[k])
      BY <1>1, <2>2, <2>3 DEF Past, TypeInv
    <3> QED  BY <3>1 DEF Records
  <2>5. DOMAIN r = {"action", "before", "after", "target"} /\ r.action \in Action /\ r.target \in Nat
    BY DEF Receipts
  <2>6. \A i \in DOMAIN r.before : {r.before[i], r.after[i]} \subseteq Snapshot
    <3>1. /\ r.before \in UNION { [S -> Snapshot] : S \in SUBSET Ids }
          /\ r.after \in UNION { [S -> Snapshot] : S \in SUBSET Ids }
      BY DEF Receipts
    <3> QED  BY <2>4, <3>1
  <2> QED  BY <2>2, <2>4, <2>5, <2>6 DEF IsReceipt
<1> QED  BY <1>1, <1>2 DEF TypeOK, TypeInv

\* What redo will name is an undo whose target is undone: the target's own effects
\* are no open receipt's.
LEMMA InvWellFormed ==
  ASSUME Inv
  PROVE  HistoryWellFormed
<1>1. /\ revision \in Nat /\ Len(receipts) = revision
      /\ LogSound(receipts, revision) /\ RedoSound(receipts, revision, redo)
  BY DEF Inv, TypeInv, HistoryOf
<1>2. PICK E : IsEffects(E, receipts, revision) /\ UndoneSound(receipts, revision, E, undone)
  BY DEF Inv, HistoryOf
<1>3. undone \subseteq 1 .. Len(receipts)
  BY <1>1, <1>2 DEF UndoneSound
<1>4. ASSUME NEW m \in 1 .. Len(redo)
      PROVE  /\ redo[m] \in 1 .. Len(receipts)
             /\ receipts[redo[m]].action = "undo"
             /\ receipts[redo[m]].target \in undone
  <2>1. PICK u : u = redo[m]
    OBVIOUS
  <2>2. u \in OpenUndosAt(receipts, revision)
    BY <1>1, <2>1 DEF RedoSound
  <2>3. u \in 1 .. revision /\ receipts[u].action = "undo"
    BY <2>2 DEF OpenUndosAt
  <2>4. PICK t : t = receipts[u].target
    OBVIOUS
  <2>5. t \in 1 .. revision /\ receipts[t].action # "undo"
    <3>1. t \in 1 .. u - 1 /\ receipts[t].action # "undo"
      BY <1>1, <2>3, <2>4, Names
    <3> QED  BY <1>1, <2>3, <3>1
  <2>6. t \in Heads(receipts, revision) /\ OpenAt(receipts, revision) \subseteq Heads(receipts, revision)
    BY <2>2, <2>4 DEF Heads
  <2>7. t \notin OpenAt(receipts, revision)
    BY <2>3, <2>4 DEF OpenAt
  <2>8. t \in E[t]
    BY <1>1, <1>2, <2>5, EffectsRange
  <2>9. \A o \in OpenAt(receipts, revision) : t \notin E[o]
    BY <1>2, <2>6, <2>7, <2>8 DEF UndoneSound
  <2>10. t \in undone
    BY <1>2, <2>5, <2>9 DEF UndoneSound
  <2> QED  BY <1>1, <2>1, <2>3, <2>4, <2>10
<1>5. IsInjective(redo)
  <2>1. DOMAIN redo = 1 .. Len(redo) /\ redo \in Seq(1 .. revision)
    BY <1>1 DEF RedoSound
  <2>2. ASSUME NEW k \in 1 .. Len(redo), NEW l \in 1 .. Len(redo), redo[k] = redo[l]
        PROVE  k = l
    <3>1. redo[k] \in Nat /\ redo[l] \in Nat /\ k \in Nat /\ l \in Nat
      BY <1>1, <2>1
    <3>2. (k < l => redo[k] < redo[l]) /\ (l < k => redo[l] < redo[k])
      BY <1>1 DEF RedoSound
    <3> QED  BY <2>2, <3>1, <3>2
  <2> QED  BY <2>1, <2>2 DEF IsInjective
<1> QED  BY <1>3, <1>4, <1>5 DEF HistoryWellFormed

LEMMA InvIsSound ==
  ASSUME Inv
  PROVE  TypeOK /\ HistoryWellFormed /\ HierarchySound
<1>1. Hierarchy(objects) => HierarchySound
  BY DEF Hierarchy, HierarchySound, Active
<1> QED  BY <1>1, InvTyped, InvWellFormed, InvSound

\* The canvas of a preview always passes the checks of a load, and its undo and redo
\* stacks name receipts they may name (commitMutation, undoLatest, redoLatest,
\* validateHierarchy).
THEOREM EngineSound == Spec => [](TypeOK /\ HistoryWellFormed /\ HierarchySound)
<1>1. Inv => TypeOK /\ HistoryWellFormed /\ HierarchySound
  BY InvIsSound
<1> QED  BY <1>1, EngineInvariant, PTL

LEMMA PinnedStep ==
  ASSUME Inv, [Next]_vars
  PROVE  [ \A i \in Active :
             objects[i].pinned /\ receipts'[Len(receipts')].action \notin {"undo", "redo"}
               => /\ objects'[i].x = objects[i].x
                  /\ objects'[i].width = objects[i].width
                  /\ \/ objects'[i].parent = objects[i].parent
                     \/ receipts'[Len(receipts')].action = "ungroup" ]_vars
<1>1. /\ objects \in Canvas /\ Hierarchy(objects)
      /\ receipts \in Seq(Receipts) /\ Len(receipts) = revision /\ revision \in Nat
  BY InvSound DEF Inv, TypeInv
<1>2. CASE Edit
  <2>1. PICK action, patch : EditOf(action, patch)
    BY <1>1, <1>2, EditCases
  <2>2. KeepsPinned(action, patch) /\ Commit(action, patch)
    BY <2>1 DEF EditOf
  <2>3. PICK r : r = [ action |-> action,
                       before |-> [i \in DOMAIN patch |-> objects[i]],
                       after  |-> patch,
                       target |-> 0 ]
    OBVIOUS
  <2>4. objects' = Overwrite(objects, patch) /\ receipts' = Append(receipts, r)
    BY <2>2, <2>3 DEF Commit
  <2>5. receipts'[Len(receipts')] = r /\ r.action = action
    <3>1. receipts'[Len(receipts) + 1] = r /\ Len(receipts') = Len(receipts) + 1
      BY <1>1, <2>4
    <3> QED  BY <2>3, <3>1
  <2>6. ASSUME NEW i \in Active, objects[i].pinned
        PROVE  /\ objects'[i].x = objects[i].x
               /\ objects'[i].width = objects[i].width
               /\ objects'[i].parent = objects[i].parent \/ action = "ungroup"
    <3>1. i \in Ids /\ DOMAIN objects = Ids
      BY <1>1 DEF Active, ActiveIn, Canvas
    <3>2. objects'[i] = IF i \in DOMAIN patch THEN patch[i] ELSE objects[i]
      BY <2>4, <3>1 DEF Overwrite
    <3>3. i \in DOMAIN patch => /\ KeepsPlace(patch, objects, i)
                                /\ patch[i].parent = objects[i].parent \/ action = "ungroup"
      BY <2>2, <2>6 DEF KeepsPinned
    <3> QED  BY <3>2, <3>3 DEF KeepsPlace
  <2> QED  BY <2>5, <2>6
<1>3. ASSUME NEW action \in {"undo", "redo"}, NEW k, Reapply(action, k)
      PROVE  receipts'[Len(receipts')].action \in {"undo", "redo"}
  <2>1. PICK r : r = [ action |-> action, before |-> receipts[k].after,
                       after |-> receipts[k].before, target |-> k ]
    OBVIOUS
  <2>2. receipts' = Append(receipts, r) /\ r.action = action
    BY <1>3, <2>1 DEF Reapply
  <2>3. receipts'[Len(receipts) + 1] = r /\ Len(receipts') = Len(receipts) + 1
    BY <1>1, <2>2
  <2> QED  BY <2>2, <2>3
<1>4. CASE UndoLatest
  BY <1>3, <1>4 DEF UndoLatest
<1>5. CASE RedoLatest
  BY <1>3, <1>5 DEF RedoLatest
<1>6. CASE UNCHANGED vars
  BY <1>6
<1> QED  BY <1>2, <1>4, <1>5, <1>6 DEF Next

\* No command moves, resizes or re-parents a pinned object, except the ungrouping of
\* its frame (transformObject, groupObjects, ungroupObjects).
THEOREM PinnedObjectsStay == Spec => PinnedStaysPut
<1>1. Inv /\ [Next]_vars =>
        [ \A i \in Active :
            objects[i].pinned /\ receipts'[Len(receipts')].action \notin {"undo", "redo"}
              => /\ objects'[i].x = objects[i].x
                 /\ objects'[i].width = objects[i].width
                 /\ \/ objects'[i].parent = objects[i].parent
                    \/ receipts'[Len(receipts')].action = "ungroup" ]_vars
  BY PinnedStep
<1> QED  BY <1>1, EngineInvariant, PTL DEF Spec, PinnedStaysPut

-----------------------------------------------------------------------------
(* Undo and redo walk one linear history.                                  *)

Touching(order, k, i) == { m \in k .. Len(order) : i \in DOMAIN receipts[order[m]].before }

LEMMA ReversedAt ==
  ASSUME NEW order, NEW k, NEW i \in Ids
  PROVE  Reversed(order, k)[i] = IF Touching(order, k, i) = {} THEN objects[i]
                                 ELSE receipts[order[Min(Touching(order, k, i))]].before[i]
  BY DEF Reversed, Touching

\* Reversing receipts of which each left the canvas as it was before the next leads
\* through the canvases before them.
LEMMA ReversedIs ==
  ASSUME TypeInv, NEW c, Past(c), NEW order \in Seq(1 .. revision),
         order # << >> => objects = c[order[Len(order)]],
         \A k \in 1 .. Len(order) - 1 : c[order[k + 1] - 1] = c[order[k]]
  PROVE  \A k \in 1 .. Len(order) : Reversed(order, k) = c[order[k] - 1]
<1> DEFINE p == Len(order)
           T == { m \in 0 .. p - 1 : Reversed(order, p - m) # c[order[p - m] - 1] }
<1>1. p \in Nat
  OBVIOUS
<1>2. SUFFICES ASSUME T # {}  PROVE FALSE
  <2> SUFFICES ASSUME NEW k \in 1 .. p  PROVE Reversed(order, k) = c[order[k] - 1]
    OBVIOUS
  <2>1. p - k \in 0 .. p - 1 /\ p - (p - k) = k
    BY <1>1
  <2>2. p - k \notin T
    BY <1>2
  <2> QED  BY <2>1, <2>2
<1>3. T \subseteq Nat
  OBVIOUS
<1>4. PICK m \in T : \A l \in T : m =< l
  BY <1>2, <1>3, LeastNat
<1>5. PICK k : k = p - m
  OBVIOUS
<1>6. k \in 1 .. p /\ Reversed(order, k) # c[order[k] - 1] /\ m \in 0 .. p - 1
  BY <1>1, <1>5
<1>7. k # p => Reversed(order, k + 1) = c[order[k + 1] - 1]
  <2> SUFFICES ASSUME k # p  PROVE Reversed(order, k + 1) = c[order[k + 1] - 1]
    OBVIOUS
  <2>1. m - 1 \in 0 .. p - 1 /\ p - (m - 1) = k + 1 /\ m - 1 < m
    BY <1>1, <1>5, <1>6
  <2> HIDE DEF T
  <2>2. m - 1 \notin T
    BY <1>4, <1>6, <2>1
  <2> QED  BY <2>1, <2>2 DEF T
<1> HIDE DEF T
<1>8. PICK o : o = order[k]
  OBVIOUS
<1>9. /\ o \in 1 .. revision /\ o - 1 \in 0 .. revision /\ o \in 0 .. revision
      /\ revision \in Nat
  BY <1>6, <1>8 DEF TypeInv
<1>10. /\ Records(receipts[o], c[o - 1], c[o])
       /\ c[o - 1] \in Canvas
  BY <1>9 DEF Past
<1>11. k = p => objects = c[o]
  BY <1>1, <1>6, <1>8
<1>12. k # p => c[order[k + 1] - 1] = c[o] /\ k + 1 \in 1 .. p
  BY <1>1, <1>6, <1>8
<1> HIDE DEF p
<1>13. p = Len(order)
  BY DEF p
<1>14. ASSUME NEW i \in Ids  PROVE Reversed(order, k)[i] = c[o - 1][i]
  <2> DEFINE S == Touching(order, k, i)
  <2>1. S \subseteq k .. p
    BY <1>13 DEF Touching
  <2>2. CASE i \in DOMAIN receipts[o].before
    <3>1. k \in S
      BY <1>1, <1>6, <1>8, <1>13, <2>2 DEF Touching
    <3>2. \A l \in S : k =< l
      BY <1>1, <1>6, <2>1
    <3>3. Min(S) = k
      <4> HIDE DEF S
      <4>1. \A l \in S : l \in Nat
        BY <1>1, <1>6, <2>1
      <4>2. Min(S) \in S /\ \A l \in S : Min(S) =< l
        BY <3>1, <3>2, Zenon DEF Min
      <4> QED  BY <3>1, <3>2, <4>1, <4>2
    <3>4. Reversed(order, k)[i] = receipts[o].before[i]
      BY <1>8, <3>1, <3>3, ReversedAt
    <3> QED  BY <1>10, <2>2, <3>4 DEF Records
  <2>3. CASE i \notin DOMAIN receipts[o].before
    <3>1. c[o][i] = c[o - 1][i]
      BY <1>10, <2>3 DEF Records
    <3>2. CASE k = p
      <4>1. S = {}
        BY <1>1, <1>6, <1>8, <2>1, <2>3, <3>2 DEF Touching
      <4> QED  BY <1>11, <3>1, <3>2, <4>1, ReversedAt
    <3>3. CASE k # p
      <4>1. \A l \in k .. p : l = k \/ l \in k + 1 .. p
        BY <1>1, <1>6
      <4>2. \A l \in k + 1 .. p : l \in k .. p
        BY <1>1, <1>6
      <4>3. S = Touching(order, k + 1, i)
        BY <1>8, <1>13, <2>3, <4>1, <4>2 DEF Touching
      <4>4. Reversed(order, k)[i] = Reversed(order, k + 1)[i]
        BY <4>3, ReversedAt
      <4> QED  BY <1>7, <1>12, <3>1, <3>3, <4>4
    <3> QED  BY <3>2, <3>3
  <2> QED  BY <2>2, <2>3
<1>15. Reversed(order, k) = c[o - 1]
  <2>1. c[o - 1] = [i \in Ids |-> c[o - 1][i]]
    BY <1>10 DEF Canvas
  <2>2. Reversed(order, k) = [i \in Ids |-> Reversed(order, k)[i]]
    BY DEF Reversed
  <2> QED  BY <1>14, <2>1, <2>2
<1> QED  BY <1>6, <1>8, <1>15

\* The receipts undo walks back through are those that no other receipt takes back.
LEMMA OrderIs ==
  ASSUME revision \in Nat, Len(receipts) = revision,
         HistoryOf(receipts, revision, undone, redo)
  PROVE  Lists(UndoOrder, OpenAt(receipts, revision))
<1>1. /\ revision \in Nat /\ Len(receipts) = revision /\ LogSound(receipts, revision)
  BY DEF HistoryOf
<1>2. PICK E : IsEffects(E, receipts, revision) /\ UndoneSound(receipts, revision, E, undone)
  BY DEF HistoryOf
<1>3. PICK live : live = Undoable
  OBVIOUS
<1>4. live = { k \in 1 .. revision : receipts[k].action # "undo" /\ k \notin undone }
  BY <1>1, <1>3 DEF Undoable
<1>5. \A m \in live : Effects(m) = E[m]
  BY <1>1, <1>2, <1>4, EffectsIs
<1>6. UNION { Effects(m) \ {m} : m \in live } = UNION { E[m] \ {m} : m \in live }
  BY <1>5
<1>7. live \ UNION { Effects(m) \ {m} : m \in live } = OpenAt(receipts, revision)
  <2>1. Foremost(E, live) = OpenAt(receipts, revision)
    BY <1>1, <1>2, <1>4, PlannerOrder
  <2> QED  BY <1>6, <2>1, Zenon DEF Foremost
<1>8. PICK s : s = [k \in 1 .. revision |-> k]
  OBVIOUS
<1>9. PICK r : r = Selected(s, OpenAt(receipts, revision))
  OBVIOUS
<1>10. UndoOrder = r
  BY <1>1, <1>3, <1>7, <1>8, <1>9, Zenon DEF UndoOrder
<1>11. s \in Seq(Nat) /\ Len(s) = revision /\ \A k \in 1 .. revision : s[k] = k
  BY <1>1, <1>8
<1>12. r \in Seq(Nat) /\ \E g : Picks(g, r, s, OpenAt(receipts, revision))
  BY <1>9, <1>11, SelectedIs, Zenon
<1>13. PICK g : Picks(g, r, s, OpenAt(receipts, revision))
  BY <1>12
<1>14. OpenAt(receipts, revision) \subseteq 1 .. revision
  BY <1>1, HeadsRange
<1>15. /\ \A k, l \in 1 .. Len(r) : k < l => g[k] < g[l]
       /\ { g[k] : k \in 1 .. Len(r) } = OpenAt(receipts, revision)
       /\ \A k \in 1 .. Len(r) : r[k] = s[g[k]]
  BY <1>11, <1>13, <1>14 DEF Picks
<1>16. \A k \in 1 .. Len(r) : r[k] = g[k]
  <2>1. ASSUME NEW k \in 1 .. Len(r)  PROVE r[k] = g[k]
    <3>1. g[k] \in 1 .. revision
      BY <1>14, <1>15, Zenon
    <3> QED  BY <1>11, <1>15, <3>1
  <2> QED  BY <2>1
<1>17. { r[k] : k \in 1 .. Len(r) } = { g[k] : k \in 1 .. Len(r) }
  BY <1>16, Zenon
<1>18. \A k, l \in 1 .. Len(r) : k < l => r[k] < r[l]
  BY <1>15, <1>16
<1>19. r \in Seq(Nat) /\ { r[k] : k \in 1 .. Len(r) } = OpenAt(receipts, revision)
  BY <1>12, <1>15, <1>17, Zenon
<1> QED  BY <1>10, <1>18, <1>19, Zenon DEF Lists

LEMMA PastIs ==
  ASSUME Inv, NEW c, Past(c), Retraces(receipts, revision, c),
         NEW order, Lists(order, OpenAt(receipts, revision))
  PROVE  \A k \in 1 .. Len(order) : Reversed(order, k) = c[order[k] - 1]
<1>1. /\ TypeInv /\ revision \in Nat /\ LogSound(receipts, revision) /\ objects = c[revision]
  BY DEF Inv, TypeInv, HistoryOf, Past
<1>2. Chained(order, revision, c)
  BY <1>1, UndoChained
<1> QED  BY <1>1, <1>2, ReversedIs DEF Chained

LEMMA FutureIs ==
  ASSUME Inv, NEW c, Past(c), Retraces(receipts, revision, c)
  PROVE  \A k \in 1 .. Len(redo) : Reversed(redo, k) = c[redo[k] - 1]
<1>1. /\ TypeInv /\ revision \in Nat /\ LogSound(receipts, revision) /\ objects = c[revision]
      /\ RedoSound(receipts, revision, redo)
  BY DEF Inv, TypeInv, HistoryOf, Past
<1>2. Chained(redo, revision, c)
  BY <1>1, RedoChained
<1> QED  BY <1>1, <1>2, ReversedIs DEF Chained

\* The documents of the history are canvases the preview has been through.
Recounts(c) ==
  /\ PastDocuments = Behind(c, UndoOrder)
  /\ FutureDocuments = Ahead(c, redo)
  /\ Lists(UndoOrder, OpenAt(receipts, revision))

Recounted == \A c : Past(c) /\ Retraces(receipts, revision, c) => Recounts(c)

LEMMA InvRecounted == Inv => Recounted
<1> SUFFICES ASSUME Inv, NEW c, Past(c), Retraces(receipts, revision, c)
             PROVE  Recounts(c)
  BY DEF Recounted
<1>1. PICK order : order = UndoOrder
  OBVIOUS
<1>2. Lists(order, OpenAt(receipts, revision))
  BY <1>1, OrderIs DEF Inv, TypeInv
<1>3. \A k \in 1 .. Len(order) : Reversed(order, k) = c[order[k] - 1]
  BY <1>2, PastIs
<1>4. PastDocuments = Behind(c, order)
  BY <1>1, <1>3 DEF PastDocuments, Behind
<1>5. Len(redo) \in Nat
  BY DEF Inv, TypeInv
<1>6. \A k \in 1 .. Len(redo) : Len(redo) - k + 1 \in 1 .. Len(redo)
  BY <1>5
<1>7. FutureDocuments = Ahead(c, redo)
  BY <1>6, FutureIs DEF FutureDocuments, Ahead
<1> QED  BY <1>1, <1>2, <1>4, <1>7 DEF Recounts

\* A step with a receipt is a step of the history, and no other changes what the
\* history shows.
LEMMA HistoryStep ==
  ASSUME Inv, Inv', Recounted, Recounted', [Next]_vars
  PROVE  [History!HistoryNext]_(History!historyVars)
<1>1. CASE Lengthens
  <2>1. PICK c, d : Past(c) /\ Retraces(receipts, revision, c) /\ Extends(c, d)
    BY <1>1 DEF Lengthens
  <2>2. PICK n \in Nat : n = revision
    BY DEF Inv, TypeInv
  <2>3. PICK longer, left : longer = receipts' /\ left = redo'
    OBVIOUS
  <2>4. PICK order : order = UndoOrder
    OBVIOUS
  <2>5. PICK next : next = UndoOrder'
    OBVIOUS
  <2>6. /\ PastDocuments = Behind(c, order) /\ FutureDocuments = Ahead(c, redo)
        /\ Lists(order, OpenAt(receipts, n))
    <3>1. Recounts(c)
      BY <2>1 DEF Recounted
    <3> QED  BY <2>2, <2>4, <3>1 DEF Recounts
  <2>7. /\ PastDocuments' = Behind(d, next) /\ FutureDocuments' = Ahead(d, left)
        /\ Lists(next, OpenAt(longer, n + 1))
    <3>1. Past(d)' /\ Retraces(receipts', revision', d) /\ revision' = revision + 1
      BY <2>1 DEF Extends
    <3>2. Recounts(d)'
      BY <3>1 DEF Recounted
    <3> QED  BY <2>2, <2>3, <2>5, <3>1, <3>2 DEF Recounts
  <2>8. c \in [0 .. n -> Canvas] /\ c[n] = objects
    BY <2>1, <2>2 DEF Past
  <2>9. /\ d[n + 1] = objects' /\ objects' \in Canvas /\ Retraces(longer, n + 1, d)
        /\ Longer(c, d, n) /\ Alike(receipts, longer, n)
    BY <2>1, <2>2, <2>3 DEF Extends, Past, Inv, TypeInv
  <2>10. /\ LogSound(receipts, n) /\ RedoSound(receipts, n, redo)
         /\ LogSound(longer, n + 1) /\ RedoSound(longer, n + 1, left)
    BY <2>1, <2>2, <2>3 DEF Inv, HistoryOf, Extends
  <2>11. ~IsEdit(longer[n + 1]) => d[n + 1] = d[longer[n + 1].target - 1]
    <3>1. n + 1 \in 1 .. n + 1
      OBVIOUS
    <3> QED  BY <2>9, <3>1 DEF Retraces
  <2>12. GoesOn(Behind(c, order), c[n], Ahead(c, redo), Behind(d, next), d[n + 1], Ahead(d, left))
    BY <2>6, <2>7, <2>8, <2>9, <2>10, <2>11, DocumentsGoOn
  <2>13. GoesOn(PastDocuments, objects, FutureDocuments, PastDocuments', objects', FutureDocuments')
    BY <2>6, <2>7, <2>8, <2>9, <2>12
  <2> QED  BY <2>9, <2>13, Zenon
           DEF GoesOn, History!HistoryNext, History!Edit, History!StepBack, History!StepForward,
               Front, Last, History!Front, History!Last
<1>2. CASE UNCHANGED vars
  <2>1. /\ objects' = objects /\ revision' = revision /\ receipts' = receipts
        /\ undone' = undone /\ redo' = redo
    BY <1>2 DEF vars
  <2>2. Undoable' = Undoable /\ \A k : Effects(k)' = Effects(k)
    BY <2>1 DEF Undoable, Effects
  <2>3. UndoOrder' = UndoOrder
    BY <2>1, <2>2 DEF UndoOrder
  <2>4. \A order, k : Reversed(order, k)' = Reversed(order, k)
    BY <2>1 DEF Reversed
  <2>5. PastDocuments' = PastDocuments /\ FutureDocuments' = FutureDocuments
    BY <2>1, <2>3, <2>4 DEF PastDocuments, FutureDocuments
  <2> QED  BY <2>1, <2>5 DEF History!historyVars
<1> QED  BY <1>1, <1>2, InvNext

LEMMA HistoryStart ==
  ASSUME Init
  PROVE  History!HistoryInit
<1>1. /\ objects = [i \in Ids |-> None] /\ receipts = << >> /\ redo = << >>
  BY DEF Init
<1>2. objects \in Canvas
  BY <1>1 DEF Canvas, Snapshot
<1>3. Inv
  BY InvInit
<1>4. Lists(UndoOrder, OpenAt(receipts, revision)) /\ revision = 0
  BY <1>3, OrderIs DEF Init, Inv, TypeInv
<1>5. PICK order : order = UndoOrder
  OBVIOUS
<1>6. Len(order) = 0
  <2>1. OpenAt(receipts, 0) = {}
    BY DEF OpenAt
  <2>2. \A k \in 1 .. Len(order) : order[k] \in {} /\ order \in Seq(Nat)
    BY <1>4, <1>5, <2>1, ListRange DEF Lists
  <2>3. Len(order) \in Nat
    BY <1>4, <1>5 DEF Lists
  <2> QED  BY <2>2, <2>3
<1>7. PastDocuments = << >>
  BY <1>5, <1>6 DEF PastDocuments
<1>8. FutureDocuments = << >>
  BY <1>1 DEF FutureDocuments
<1> QED  BY <1>2, <1>7, <1>8 DEF History!HistoryInit

\* Undo returns to the canvas before the command it reverses and redo to the one undo
\* left, to any depth and between any new commands (undoLatest, redoLatest).
THEOREM EngineImplementsHistory == Spec => ImplementsHistory
<1>1. Init => History!HistoryInit
  BY HistoryStart
<1>2. Inv => Recounted
  BY InvRecounted
<1>3. Inv /\ Inv' /\ Recounted /\ Recounted' /\ [Next]_vars
        => [History!HistoryNext]_(History!historyVars)
  BY HistoryStep
<1> QED  BY <1>1, <1>2, <1>3, EngineInvariant, PTL DEF Spec, ImplementsHistory, History!HistorySpec
=============================================================================
