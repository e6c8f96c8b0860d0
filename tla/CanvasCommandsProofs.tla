------------------------ MODULE CanvasCommandsProofs ------------------------
(***************************************************************************)
(* Lemmas about the operators that the command engine and the room         *)
(* database share.                                                         *)
(***************************************************************************)
EXTENDS CanvasCommands, SelectionProofs, FiniteSetsExt, SequencesExt, SequenceTheorems

-----------------------------------------------------------------------------
(* Greatest numbers.                                                       *)

\* The maximum of a bounded set.
LEMMA MaxIs ==
  ASSUME NEW n \in Nat, NEW S, S \subseteq 0 .. n, S # {}
  PROVE  Max(S) \in S /\ \A k \in S : k =< Max(S)
<1> DEFINE T == { n - k : k \in S }
<1>1. T \subseteq Nat /\ T # {}
  <2>1. \A k \in S : k \in 0 .. n /\ n - k \in Nat
    OBVIOUS
  <2> QED  BY <2>1
<1>2. PICK m \in T : \A l \in T : m =< l
  BY <1>1, LeastNat
<1>3. PICK k \in S : m = n - k
  OBVIOUS
<1>4. \A l \in S : l =< k
  <2> SUFFICES ASSUME NEW l \in S  PROVE l =< k
    OBVIOUS
  <2>1. n - l \in T
    OBVIOUS
  <2>2. m =< n - l
    BY <1>2, <2>1
  <2>3. l \in Nat /\ k \in Nat
    OBVIOUS
  <2> HIDE DEF T
  <2> QED  BY <1>3, <2>2, <2>3
<1>5. \E j \in S : \A l \in S : j >= l
  BY <1>4
<1>6. Max(S) \in S /\ \A l \in S : Max(S) >= l
  BY <1>5, Zenon DEF Max
<1> QED  BY <1>6

-----------------------------------------------------------------------------
(* What a redo stands for.                                                 *)

\* The recursion of historyEffectReceiptIds: a restoring receipt stands for
\* itself and for what the receipt it restored stands for, which is earlier.
Stands(f, n, restoring, restored) ==
  f = [j \in 1 .. n |-> IF j \notin restoring THEN {j} ELSE {j} \union f[restored[j]]]

LEMMA StandsExists ==
  ASSUME NEW restoring, NEW restored, NEW n \in Nat,
         \A j \in restoring \cap (1 .. n) : restored[j] \in 1 .. j - 1
  PROVE  \E f : Stands(f, n, restoring, restored)
<1> DEFINE T == { m \in 0 .. n : ~ \E f : Stands(f, m, restoring, restored) }
<1>1. SUFFICES ASSUME T # {}  PROVE FALSE
  <2>1. n \in 0 .. n
    OBVIOUS
  <2> QED  BY <1>1, <2>1
<1>2. T \subseteq Nat
  OBVIOUS
<1>3. PICK m \in T : \A l \in T : m =< l
  BY <1>1, <1>2, LeastNat
<1>4. m \in 0 .. n /\ ~ \E f : Stands(f, m, restoring, restored)
  OBVIOUS
<1>5. \A l \in 0 .. n : l < m => \E f : Stands(f, l, restoring, restored)
  <2>1. \A l \in 0 .. n : l < m => l \notin T
    BY <1>3, <1>4
  <2> QED  BY <2>1
<1> HIDE DEF T
<1>6. CASE m = 0
  <2>1. Stands(<< >>, 0, restoring, restored)
    BY DEF Stands
  <2> QED  BY <1>4, <1>6, <2>1
<1>7. CASE m # 0
  <2>1. m - 1 \in 0 .. n /\ m \in 1 .. n
    BY <1>4, <1>7
  <2>2. PICK f : Stands(f, m - 1, restoring, restored)
    BY <1>5, <2>1
  <2>3. \A j \in 1 .. m - 1 : f[j] = IF j \notin restoring THEN {j} ELSE {j} \union f[restored[j]]
    BY <2>2 DEF Stands
  <2> DEFINE h == [j \in 1 .. m |-> IF j < m THEN f[j]
                                    ELSE IF m \notin restoring THEN {m}
                                    ELSE {m} \union f[restored[m]]]
             body(j) == IF j \notin restoring THEN {j} ELSE {j} \union h[restored[j]]
  <2>4. \A j \in 1 .. m - 1 : h[j] = f[j]
    BY <2>1
  <2>5. \A j \in restoring \cap (1 .. m) : restored[j] \in 1 .. m - 1 /\ restored[j] \in 1 .. j - 1
    BY <2>1
  <2>6. ASSUME NEW j \in 1 .. m  PROVE h[j] = body(j)
    <3>1. CASE j = m
      <4>1. h[m] = IF m \notin restoring THEN {m} ELSE {m} \union f[restored[m]]
        BY <2>1
      <4>2. m \in restoring => h[restored[m]] = f[restored[m]]
        BY <2>1, <2>4, <2>5
      <4> HIDE DEF h
      <4> QED  BY <3>1, <4>1, <4>2
    <3>2. CASE j # m
      <4>1. j \in 1 .. m - 1
        BY <2>1, <3>2
      <4>2. j \in restoring => restored[j] \in 1 .. m - 1
        BY <2>5
      <4> HIDE DEF h
      <4> QED  BY <2>3, <2>4, <4>1, <4>2
    <3> QED  BY <3>1, <3>2
  <2>7. h = [j \in 1 .. m |-> body(j)]
    <3>1. h = [j \in 1 .. m |-> h[j]]
      OBVIOUS
    <3> QED  BY <2>6, <3>1, Zenon
  <2> QED  BY <1>4, <2>7, Zenon DEF Stands
<1> QED  BY <1>6, <1>7

-----------------------------------------------------------------------------
(* What a command changes are objects.                                     *)

Patches == UNION { [S -> Object] : S \in SUBSET Ids }

LEMMA TouchedType == ASSUME NEW o \in Object  PROVE Touched(o) \in Object
  BY DEF Touched, Object

LEMMA FreshType ==
  ASSUME NEW type \in {"note", "frame"}, NEW x \in Int, NEW width \in Nat
  PROVE  Fresh(type, x, width, << >>) \in Object
  BY DEF Fresh, Object

LEMMA OnlyType ==
  ASSUME NEW i \in Ids, NEW o \in Object
  PROVE  Only(i, o) \in Patches /\ DOMAIN Only(i, o) = {i} /\ Only(i, o)[i] = o
<1>1. Only(i, o) \in [{i} -> Object] /\ {i} \in SUBSET Ids
  BY DEF Only
<1>2. Only(i, o) \in Patches
  BY <1>1 DEF Patches
<1> QED  BY <1>2 DEF Only

LEMMA ActiveType ==
  ASSUME NEW objs \in Canvas, NEW i \in ActiveIn(objs)
  PROVE  i \in Ids /\ objs[i] \in Object /\ ~objs[i].deleted
  BY DEF ActiveIn, Canvas, Snapshot

LEMMA CreatedType ==
  ASSUME NEW i \in Ids, NEW type \in {"note", "frame"}, NEW x \in 0 .. MaxX,
         NEW width \in Widths
  PROVE  Created(i, type, x, width) \in Patches
<1>1. x \in Int /\ width \in Nat
  BY SchemaAssumption
<1> QED  BY <1>1, FreshType, OnlyType DEF Created

LEMMA AppendedType ==
  ASSUME NEW objs \in Canvas, NEW i \in Ids, NEW line \in Lines, MayAppend(objs, i)
  PROVE  Appended(objs, i, line) \in Patches
<1>1. objs[i] \in Object
  BY ActiveType DEF MayAppend
<1> DEFINE text == Append(objs[i].text, line)
           o == [objs[i] EXCEPT !.text = Append(@, line)]
<1>2. o \in Object
  <2>1. text \in Seq(Lines)
    BY <1>1 DEF Object
  <2>2. o = [objs[i] EXCEPT !.text = text]
    BY Zenon
  <2> HIDE DEF text, o
  <2> QED  BY <1>1, <2>1, <2>2 DEF Object
<1> HIDE DEF o
<1>3. Touched(o) \in Object
  BY <1>2, TouchedType
<1>4. Only(i, Touched(o)) \in Patches
  BY <1>3, OnlyType
<1> QED  BY <1>4, Zenon DEF Appended, o

LEMMA FlaggedType ==
  ASSUME NEW objs \in Canvas, NEW i \in ActiveIn(objs), NEW pinned \in BOOLEAN,
         NEW minimized \in BOOLEAN
  PROVE  Flagged(objs, i, pinned, minimized) \in Patches
<1>1. objs[i] \in Object /\ i \in Ids
  BY ActiveType
<1>2. [objs[i] EXCEPT !.pinned = pinned, !.minimized = minimized] \in Object
  BY <1>1 DEF Object
<1> QED  BY <1>1, <1>2, TouchedType, OnlyType DEF Flagged

LEMMA DiscardedType ==
  ASSUME NEW objs \in Canvas, NEW i \in ActiveIn(objs)
  PROVE  Discarded(objs, i) \in Patches
<1>1. objs[i] \in Object /\ i \in Ids
  BY ActiveType
<1>2. [objs[i] EXCEPT !.deleted = TRUE] \in Object
  BY <1>1 DEF Object
<1> QED  BY <1>1, <1>2, TouchedType, OnlyType DEF Discarded

LEMMA CarriedType ==
  ASSUME NEW objs, NEW i, NEW x
  PROVE  Carried(objs, i, x) \subseteq ActiveIn(objs)
  BY DEF Carried, Descendants

LEMMA TransformedType ==
  ASSUME NEW objs \in Canvas, NEW i \in ActiveIn(objs), NEW x \in (0 .. MaxX) \union {None},
         NEW width \in Widths \union {None}
  PROVE  Transformed(objs, i, x, width) \in Patches
<1> DEFINE S == Carried(objs, i, x) \union {i}
           offset == IF x = None THEN 0 ELSE x - objs[i].x
           moved(j) == Touched([objs[j] EXCEPT !.x = @ + offset])
<1>1. S \subseteq ActiveIn(objs) /\ S \in SUBSET Ids
  BY CarriedType, ActiveType
<1>2. offset \in Int
  BY ActiveType, SchemaAssumption DEF Object
<1> HIDE DEF offset
<1>3. ASSUME NEW j \in S  PROVE moved(j) \in Object
  <2>1. objs[j] \in Object
    BY <1>1, ActiveType
  <2>2. [objs[j] EXCEPT !.x = @ + offset] \in Object
    BY <1>2, <2>1 DEF Object
  <2> QED  BY <2>2, TouchedType
<1>4. width # None => width \in Nat
  BY SchemaAssumption
<1>5. ASSUME NEW j \in S
      PROVE  (IF j = i /\ width # None THEN [moved(i) EXCEPT !.width = width]
                                       ELSE moved(j)) \in Object
  <2>1. moved(i) \in Object /\ moved(j) \in Object
    BY <1>3
  <2> HIDE DEF moved
  <2>2. width # None => [moved(i) EXCEPT !.width = width] \in Object
    BY <1>4, <2>1 DEF Object
  <2> QED  BY <2>1, <2>2
<1>6. Transformed(objs, i, x, width) \in [S -> Object]
  BY <1>5 DEF Transformed, offset
<1> QED  BY <1>1, <1>6 DEF Patches

LEMMA GroupedType ==
  ASSUME NEW objs \in Canvas, NEW f \in Ids, NEW selected, selected \subseteq ActiveIn(objs),
         NEW x \in 0 .. MaxX, NEW width \in Widths
  PROVE  Grouped(objs, f, selected, x, width) \in Patches
<1>1. selected \union {f} \in SUBSET Ids
  BY ActiveType
<1>2. Fresh("frame", x, width, << >>) \in Object
  BY FreshType, SchemaAssumption
<1>3. ASSUME NEW j \in selected  PROVE Touched([objs[j] EXCEPT !.parent = f]) \in Object
  <2>1. objs[j] \in Object
    BY ActiveType
  <2>2. [objs[j] EXCEPT !.parent = f] \in Object
    BY <2>1 DEF Object
  <2> QED  BY <2>2, TouchedType
<1>4. Grouped(objs, f, selected, x, width) \in [selected \union {f} -> Object]
  BY <1>2, <1>3 DEF Grouped
<1> QED  BY <1>1, <1>4 DEF Patches

LEMMA UngroupedType ==
  ASSUME NEW objs \in Canvas, NEW f \in ActiveIn(objs)
  PROVE  Ungrouped(objs, f) \in Patches
<1>1. Children(objs, f) \subseteq ActiveIn(objs)
  BY DEF Children
<1>2. objs[f] \in Object /\ f \in Ids
  BY ActiveType
<1>3. Touched([objs[f] EXCEPT !.deleted = TRUE]) \in Object
  <2>1. [objs[f] EXCEPT !.deleted = TRUE] \in Object
    BY <1>2 DEF Object
  <2> QED  BY <2>1, TouchedType
<1>4. ASSUME NEW j \in Children(objs, f)
      PROVE  Touched([objs[j] EXCEPT !.parent = objs[f].parent]) \in Object
  <2>1. objs[j] \in Object
    BY <1>1, ActiveType
  <2>2. [objs[j] EXCEPT !.parent = objs[f].parent] \in Object
    BY <1>2, <2>1 DEF Object
  <2> QED  BY <2>2, TouchedType
<1>5. Ungrouped(objs, f) \in [Children(objs, f) \union {f} -> Object]
  BY <1>3, <1>4 DEF Ungrouped
<1>6. Children(objs, f) \union {f} \in SUBSET Ids
  BY <1>1, <1>2, ActiveType
<1> QED  BY <1>5, <1>6 DEF Patches

-----------------------------------------------------------------------------
(* The history that receipts encode.  Of a log of receipts only the action *)
(* and the target matter here: which receipt undo and redo may name.       *)

\* What undo may still name after n receipts: no undo, and named by none.
OpenAt(log, n) ==
  { k \in 1 .. n : log[k].action # "undo" /\ \A m \in 1 .. n : log[m].target # k }

\* What redo may still name.
OpenUndosAt(log, n) ==
  { k \in 1 .. n : log[k].action = "undo" /\ \A m \in 1 .. n : log[m].target # k }

IsEdit(r) == r.action \notin {"undo", "redo"}

Edited(log, k, n) == \E m \in k + 1 .. n : IsEdit(log[m])

IsUndo(log, n, k) == k \in OpenAt(log, n) /\ \A l \in OpenAt(log, n) : l =< k

IsRedo(log, n, k) ==
  /\ k \in OpenUndosAt(log, n)
  /\ \A l \in OpenUndosAt(log, n) : l =< k
  /\ ~Edited(log, k, n)

\* Receipt k names what it may name after the receipts before it.
NamesSoundly(log, k) ==
  \/ log[k].action = "undo" /\ IsUndo(log, k - 1, log[k].target)
  \/ log[k].action = "redo" /\ IsRedo(log, k - 1, log[k].target)
  \/ IsEdit(log[k]) /\ log[k].target = 0

LogSound(log, n) == \A k \in 1 .. n : NamesSoundly(log, k)

\* Two logs that begin alike.
Alike(log, other, n) ==
  \A k \in 1 .. n : log[k].action = other[k].action /\ log[k].target = other[k].target

LEMMA AlikeHistories ==
  ASSUME NEW log, NEW other, NEW n \in Nat, Alike(log, other, n), NEW m \in 0 .. n
  PROVE  /\ OpenAt(log, m) = OpenAt(other, m)
         /\ OpenUndosAt(log, m) = OpenUndosAt(other, m)
         /\ \A k \in Nat : Edited(log, k, m) = Edited(other, k, m)
         /\ \A k \in Nat : IsUndo(log, m, k) = IsUndo(other, m, k)
         /\ \A k \in Nat : IsRedo(log, m, k) = IsRedo(other, m, k)
<1>1. \A k \in 1 .. m : log[k].action = other[k].action /\ log[k].target = other[k].target
  BY DEF Alike
<1>2. OpenAt(log, m) = OpenAt(other, m) /\ OpenUndosAt(log, m) = OpenUndosAt(other, m)
  BY <1>1 DEF OpenAt, OpenUndosAt
<1>3. \A k \in Nat : Edited(log, k, m) = Edited(other, k, m)
  BY <1>1 DEF Edited, IsEdit
<1> QED  BY <1>2, <1>3, Zenon DEF IsUndo, IsRedo

LEMMA AlikeSound ==
  ASSUME NEW log, NEW other, NEW n \in Nat, Alike(log, other, n), LogSound(log, n)
  PROVE  LogSound(other, n)
<1> SUFFICES ASSUME NEW k \in 1 .. n  PROVE NamesSoundly(other, k)
  BY DEF LogSound
<1>1. NamesSoundly(log, k) /\ k - 1 \in 0 .. n /\ k \in Nat
  BY DEF LogSound
<1>2. log[k].action = other[k].action /\ log[k].target = other[k].target
  BY DEF Alike
<1>3. \A t : IsUndo(log, k - 1, t) => t \in Nat
  BY DEF IsUndo, OpenAt
<1>4. \A t : IsRedo(log, k - 1, t) => t \in Nat
  BY DEF IsRedo, OpenUndosAt
<1>5. \A t \in Nat : /\ IsUndo(log, k - 1, t) = IsUndo(other, k - 1, t)
                     /\ IsRedo(log, k - 1, t) = IsRedo(other, k - 1, t)
  BY <1>1, AlikeHistories
<1> QED  BY <1>1, <1>2, <1>3, <1>4, <1>5 DEF NamesSoundly, IsEdit

\* What a receipt names comes before it and is of the right kind; no two receipts
\* name the same one.
LEMMA Names ==
  ASSUME NEW log, NEW n \in Nat, LogSound(log, n), NEW k \in 1 .. n
  PROVE  /\ log[k].action = "undo" => log[k].target \in 1 .. k - 1
                                       /\ log[log[k].target].action # "undo"
         /\ log[k].action = "redo" => log[k].target \in 1 .. k - 1
                                       /\ log[log[k].target].action = "undo"
         /\ IsEdit(log[k]) => log[k].target = 0
  BY DEF LogSound, NamesSoundly, IsUndo, IsRedo, OpenAt, OpenUndosAt, IsEdit

LEMMA NamesOnce ==
  ASSUME NEW log, NEW n \in Nat, LogSound(log, n), NEW k \in 1 .. n, NEW l \in 1 .. n,
         log[k].target = log[l].target, log[k].target # 0
  PROVE  k = l
<1>1. ASSUME NEW a \in 1 .. n, NEW b \in 1 .. n, a < b,
             log[a].target = log[b].target, log[b].target # 0
      PROVE  FALSE
  <2>1. a \in 1 .. b - 1
    BY <1>1
  <2>2. NamesSoundly(log, b)
    BY DEF LogSound
  <2> QED  BY <1>1, <2>1, <2>2 DEF NamesSoundly, IsUndo, IsRedo, OpenAt, OpenUndosAt
<1> QED  BY <1>1

\* After an edit, undo names the edit and redo nothing.
LEMMA AfterEdit ==
  ASSUME NEW log, NEW n \in Nat \ {0}, LogSound(log, n), IsEdit(log[n])
  PROVE  /\ OpenAt(log, n) = OpenAt(log, n - 1) \union {n}
         /\ OpenUndosAt(log, n) = OpenUndosAt(log, n - 1)
         /\ \A k : IsUndo(log, n, k) => k = n
         /\ \A k : ~IsRedo(log, n, k)
<1>1. n \in 1 .. n /\ log[n].target = 0 /\ 1 .. n = (1 .. n - 1) \union {n}
  BY Names
<1>2. \A m \in 1 .. n : log[m].target # n
  BY Names DEF IsEdit
<1>3. OpenAt(log, n) = OpenAt(log, n - 1) \union {n}
  BY <1>1, <1>2 DEF OpenAt, IsEdit
<1>4. OpenUndosAt(log, n) = OpenUndosAt(log, n - 1)
  BY <1>1, <1>2 DEF OpenUndosAt, IsEdit
<1>5. \A k : IsUndo(log, n, k) => k = n
  BY <1>3 DEF IsUndo, OpenAt
<1>6. ASSUME NEW k, IsRedo(log, n, k)  PROVE FALSE
  <2>1. k \in 1 .. n /\ k # n
    BY <1>6 DEF IsRedo, OpenUndosAt, IsEdit
  <2>2. n \in k + 1 .. n
    BY <2>1
  <2> QED  BY <1>6, <2>2 DEF IsRedo, Edited
<1> QED  BY <1>3, <1>4, <1>5, <1>6

\* After an undo, redo names that undo, and undo what it named before the receipt
\* that was undone.
LEMMA AfterUndo ==
  ASSUME NEW log, NEW n \in Nat \ {0}, LogSound(log, n), log[n].action = "undo"
  PROVE  LET t == log[n].target
         IN  /\ t \in OpenAt(log, n - 1)
             /\ OpenAt(log, n) = OpenAt(log, n - 1) \ {t}
             /\ OpenAt(log, n) = OpenAt(log, t - 1)
             /\ OpenUndosAt(log, n) = OpenUndosAt(log, n - 1) \union {n}
             /\ \A k : IsUndo(log, n, k) => IsUndo(log, t - 1, k)
             /\ \A k : IsRedo(log, n, k) => k = n
<1> DEFINE t == log[n].target
<1>1. n \in 1 .. n /\ t \in 1 .. n - 1 /\ 1 .. n = (1 .. n - 1) \union {n}
  BY Names
<1>2. IsUndo(log, n - 1, t)
  BY <1>1 DEF LogSound, NamesSoundly, IsEdit
<1>3. \A m \in 1 .. n : log[m].target # n
  BY Names DEF IsEdit
<1> HIDE DEF t
<1>4. log[n].target = t
  BY DEF t
<1>5. t \in OpenAt(log, n - 1) /\ \A l \in OpenAt(log, n - 1) : l =< t
  BY <1>2 DEF IsUndo
<1>6. OpenAt(log, n) = OpenAt(log, n - 1) \ {t}
  BY <1>1, <1>3, <1>4 DEF OpenAt
<1>7. OpenUndosAt(log, n) = OpenUndosAt(log, n - 1) \union {n}
  <2>1. \A k \in OpenUndosAt(log, n - 1) : k # t
    BY <1>5 DEF OpenUndosAt, OpenAt
  <2> QED  BY <1>1, <1>3, <1>4, <2>1 DEF OpenUndosAt
<1>8. OpenAt(log, n) \subseteq OpenAt(log, t - 1)
  <2> SUFFICES ASSUME NEW k \in OpenAt(log, n)  PROVE k \in OpenAt(log, t - 1)
    OBVIOUS
  <2>1. k \in 1 .. t - 1
    BY <1>1, <1>5, <1>6 DEF OpenAt
  <2> QED  BY <1>1, <2>1 DEF OpenAt
<1>9. OpenAt(log, t - 1) \subseteq OpenAt(log, n)
  <2> SUFFICES ASSUME NEW k \in OpenAt(log, t - 1), k \notin OpenAt(log, n - 1)  PROVE FALSE
    BY <1>1, <1>6 DEF OpenAt
  <2>1. k \in 1 .. t - 1 /\ k \in 1 .. n - 1 /\ log[k].action # "undo"
    BY <1>1 DEF OpenAt
  <2>2. PICK m \in 1 .. n - 1 : log[m].target = k
    BY <2>1 DEF OpenAt
  <2>3. m \notin 1 .. t - 1 /\ m \in 1 .. n
    BY <1>1, <2>2 DEF OpenAt
  <2>4. log[m].action = "undo"
    BY <2>1, <2>2, <2>3, Names DEF IsEdit
  <2>5. m # t /\ m - 1 \in 1 .. n - 1
    BY <1>1, <1>5, <2>3, <2>4 DEF OpenAt
  <2>6. IsUndo(log, m - 1, k)
    BY <2>2, <2>3, <2>4 DEF LogSound, NamesSoundly, IsEdit
  <2>7. t \in OpenAt(log, m - 1)
    BY <1>1, <1>5, <2>2, <2>3, <2>5 DEF OpenAt
  <2> QED  BY <1>1, <2>1, <2>6, <2>7 DEF IsUndo
<1>10. OpenAt(log, n) = OpenAt(log, t - 1)
  BY <1>8, <1>9
<1>11. \A k : IsUndo(log, n, k) => IsUndo(log, t - 1, k)
  BY <1>10 DEF IsUndo
<1>12. \A k : IsRedo(log, n, k) => k = n
  BY <1>1, <1>7 DEF IsRedo, OpenUndosAt
<1> QED  BY <1>4, <1>5, <1>6, <1>7, <1>10, <1>11, <1>12

\* After a redo, undo names that redo, and redo what it named before the undo that
\* was redone.
LEMMA AfterRedo ==
  ASSUME NEW log, NEW n \in Nat \ {0}, LogSound(log, n), log[n].action = "redo"
  PROVE  LET u == log[n].target
         IN  /\ u \in OpenUndosAt(log, n - 1)
             /\ OpenAt(log, n) = OpenAt(log, n - 1) \union {n}
             /\ OpenUndosAt(log, n) = OpenUndosAt(log, n - 1) \ {u}
             /\ \A k : IsUndo(log, n, k) => k = n
             /\ \A k : IsRedo(log, n, k) => IsRedo(log, u - 1, k)
<1> DEFINE u == log[n].target
<1>1. n \in 1 .. n /\ u \in 1 .. n - 1 /\ 1 .. n = (1 .. n - 1) \union {n}
  BY Names
<1>2. IsRedo(log, n - 1, u)
  BY <1>1 DEF LogSound, NamesSoundly, IsEdit
<1>3. \A m \in 1 .. n : log[m].target # n
  BY Names DEF IsEdit
<1> HIDE DEF u
<1>4. log[n].target = u
  BY DEF u
<1>5. u \in OpenUndosAt(log, n - 1) /\ \A l \in OpenUndosAt(log, n - 1) : l =< u
  BY <1>2 DEF IsRedo
<1>6. OpenUndosAt(log, n) = OpenUndosAt(log, n - 1) \ {u}
  BY <1>1, <1>3, <1>4 DEF OpenUndosAt
<1>7. OpenAt(log, n) = OpenAt(log, n - 1) \union {n}
  <2>1. \A k \in OpenAt(log, n - 1) : k # u
    BY <1>5 DEF OpenUndosAt, OpenAt
  <2> QED  BY <1>1, <1>3, <1>4, <2>1 DEF OpenAt
<1>8. \A k : IsUndo(log, n, k) => k = n
  BY <1>1, <1>7 DEF IsUndo, OpenAt
<1>9. ASSUME NEW k, IsRedo(log, n, k)  PROVE IsRedo(log, u - 1, k)
  <2>1. k \in OpenUndosAt(log, n) /\ k \in 1 .. u - 1 /\ ~Edited(log, k, n)
    BY <1>1, <1>5, <1>6, <1>9 DEF IsRedo, OpenUndosAt
  <2>2. k \in OpenUndosAt(log, u - 1)
    BY <1>1, <2>1 DEF OpenUndosAt
  <2>3. ~Edited(log, k, u - 1)
    BY <1>1, <2>1 DEF Edited
  <2>4. ASSUME NEW j \in OpenUndosAt(log, u - 1), k < j  PROVE FALSE
    <3>1. j \in 1 .. u - 1 /\ log[j].action = "undo" /\ j \in 1 .. n
      BY <1>1 DEF OpenUndosAt
    <3>2. j \notin OpenUndosAt(log, n)
      BY <1>9, <2>1, <2>4, <3>1 DEF IsRedo
    <3>3. PICK m \in 1 .. n : log[m].target = j
      BY <3>1, <3>2 DEF OpenUndosAt
    <3>4. m \notin 1 .. u - 1 /\ m # n
      BY <1>1, <1>4, <3>1, <3>3 DEF OpenUndosAt
    <3>5. log[m].action = "redo"
      BY <3>1, <3>3, Names DEF IsEdit
    <3>6. m # u /\ m - 1 \in 1 .. n - 1
      BY <1>1, <1>5, <3>4, <3>5 DEF OpenUndosAt
    <3>7. IsRedo(log, m - 1, j)
      BY <3>3, <3>5 DEF LogSound, NamesSoundly, IsEdit
    <3>8. u \in OpenUndosAt(log, m - 1)
      BY <1>1, <1>5, <3>3, <3>4, <3>6 DEF OpenUndosAt
    <3> QED  BY <1>1, <3>1, <3>7, <3>8 DEF IsRedo
  <2>5. OpenUndosAt(log, u - 1) \subseteq Nat
    BY DEF OpenUndosAt
  <2> QED  BY <2>1, <2>2, <2>3, <2>4, <2>5 DEF IsRedo
<1> QED  BY <1>4, <1>5, <1>6, <1>7, <1>8, <1>9

-----------------------------------------------------------------------------
(* What the planner makes of a log: the receipts it holds undone, through  *)
(* the receipts a redo stands for, and its stack of undos to redo.         *)

IsEffects(E, log, n) ==
  E = [j \in 1 .. n |-> IF log[j].action # "redo" THEN {j}
                         ELSE {j} \union E[log[log[j].target].target]]

LEMMA EffectsExist ==
  ASSUME NEW log, NEW n \in Nat, LogSound(log, n)
  PROVE  \E E : IsEffects(E, log, n)
<1> DEFINE redone == { j \in 1 .. n : log[j].action = "redo" }
           restored == [j \in 1 .. n |-> log[log[j].target].target]
<1>1. ASSUME NEW j \in redone \cap (1 .. n)  PROVE restored[j] \in 1 .. j - 1
  <2>1. log[j].target \in 1 .. j - 1 /\ log[log[j].target].action = "undo"
    BY Names
  <2>2. log[j].target \in 1 .. n
    BY <2>1
  <2>3. log[log[j].target].target \in 1 .. log[j].target - 1
    BY <2>1, <2>2, Names
  <2> QED  BY <2>1, <2>3
<1>2. PICK E : Stands(E, n, redone, restored)
  <2> HIDE DEF redone, restored
  <2> QED  BY <1>1, StandsExists
<1>3. \A j \in 1 .. n : (j \notin redone) = (log[j].action # "redo")
  OBVIOUS
<1>4. \A j \in 1 .. n : restored[j] = log[log[j].target].target
  OBVIOUS
<1> HIDE DEF redone, restored
<1>5. [j \in 1 .. n |-> IF j \notin redone THEN {j} ELSE {j} \union E[restored[j]]]
        = [j \in 1 .. n |-> IF log[j].action # "redo" THEN {j}
                             ELSE {j} \union E[log[log[j].target].target]]
  BY <1>3, <1>4
<1>6. IsEffects(E, log, n)
  BY <1>2, <1>5, Zenon DEF Stands, IsEffects
<1> QED  BY <1>6

\* A receipt stands for itself and for earlier ones.
LEMMA EffectsRange ==
  ASSUME NEW log, NEW n \in Nat, LogSound(log, n), NEW E, IsEffects(E, log, n)
  PROVE  \A j \in 1 .. n : j \in E[j] /\ E[j] \subseteq 1 .. j
<1> DEFINE T == { j \in 1 .. n : ~ (j \in E[j] /\ E[j] \subseteq 1 .. j) }
<1>1. SUFFICES ASSUME T # {}  PROVE FALSE
  OBVIOUS
<1>2. T \subseteq Nat
  OBVIOUS
<1>3. PICK j \in T : \A l \in T : j =< l
  BY <1>1, <1>2, LeastNat
<1>4. j \in 1 .. n /\ ~ (j \in E[j] /\ E[j] \subseteq 1 .. j)
  OBVIOUS
<1>5. \A l \in 1 .. n : l < j => E[l] \subseteq 1 .. l
  <2>1. \A l \in 1 .. n : l < j => l \notin T
    BY <1>3, <1>4
  <2> QED  BY <2>1
<1> HIDE DEF T
<1>6. E[j] = IF log[j].action # "redo" THEN {j} ELSE {j} \union E[log[log[j].target].target]
  BY <1>4 DEF IsEffects
<1>7. CASE log[j].action # "redo"
  BY <1>4, <1>6, <1>7
<1>8. CASE log[j].action = "redo"
  <2>1. log[j].target \in 1 .. j - 1 /\ log[log[j].target].action = "undo"
    BY <1>4, <1>8, Names
  <2>2. log[j].target \in 1 .. n
    BY <1>4, <2>1
  <2>3. log[log[j].target].target \in 1 .. log[j].target - 1
    BY <2>1, <2>2, Names
  <2> DEFINE v == log[log[j].target].target
  <2>4. v \in 1 .. n /\ v < j
    BY <1>4, <2>1, <2>3
  <2>5. E[v] \subseteq 1 .. v
    BY <1>5, <2>4
  <2>6. E[j] = {j} \union E[v]
    BY <1>6, <1>8
  <2> HIDE DEF v
  <2> QED  BY <1>4, <2>4, <2>5, <2>6
<1> QED  BY <1>7, <1>8

\* What it stands for stands for no more than it does.
LEMMA EffectsNested ==
  ASSUME NEW log, NEW n \in Nat, LogSound(log, n), NEW E, IsEffects(E, log, n),
         NEW k \in 1 .. n, NEW j \in E[k]
  PROVE  E[j] \subseteq E[k]
<1> DEFINE T == { l \in 1 .. n : ~ \A i \in E[l] : E[i] \subseteq E[l] }
<1>1. SUFFICES ASSUME T # {}  PROVE FALSE
  OBVIOUS
<1>2. T \subseteq Nat
  OBVIOUS
<1>3. PICK l \in T : \A i \in T : l =< i
  BY <1>1, <1>2, LeastNat
<1>4. l \in 1 .. n /\ ~ \A i \in E[l] : E[i] \subseteq E[l]
  OBVIOUS
<1>5. \A m \in 1 .. n : m < l => \A i \in E[m] : E[i] \subseteq E[m]
  <2>1. \A m \in 1 .. n : m < l => m \notin T
    BY <1>3, <1>4
  <2> QED  BY <2>1
<1> HIDE DEF T
<1>6. E[l] = IF log[l].action # "redo" THEN {l} ELSE {l} \union E[log[log[l].target].target]
  BY <1>4 DEF IsEffects
<1>7. CASE log[l].action # "redo"
  BY <1>4, <1>6, <1>7
<1>8. CASE log[l].action = "redo"
  <2>1. log[l].target \in 1 .. l - 1 /\ log[log[l].target].action = "undo"
    BY <1>4, <1>8, Names
  <2>2. log[l].target \in 1 .. n
    BY <1>4, <2>1
  <2>3. log[log[l].target].target \in 1 .. log[l].target - 1
    BY <2>1, <2>2, Names
  <2>4. PICK v : v = log[log[l].target].target
    OBVIOUS
  <2>5. v \in 1 .. n /\ v < l
    BY <1>4, <2>1, <2>3, <2>4
  <2>6. E[l] = {l} \union E[v] /\ \A i \in E[v] : E[i] \subseteq E[v]
    BY <1>5, <1>6, <1>8, <2>4, <2>5
  <2> QED  BY <1>4, <2>6
<1> QED  BY <1>7, <1>8

\* It depends on the log up to that receipt only.
LEMMA EffectsAgree ==
  ASSUME NEW log, NEW other, NEW n \in Nat, NEW m \in Nat, NEW k \in Nat, k =< n, k =< m,
         LogSound(log, n), Alike(log, other, k),
         NEW E, IsEffects(E, log, n), NEW F, IsEffects(F, other, m)
  PROVE  \A j \in 1 .. k : E[j] = F[j]
<1> DEFINE T == { j \in 1 .. k : E[j] # F[j] }
<1>1. SUFFICES ASSUME T # {}  PROVE FALSE
  OBVIOUS
<1>2. T \subseteq Nat
  OBVIOUS
<1>3. PICK j \in T : \A l \in T : j =< l
  BY <1>1, <1>2, LeastNat
<1>4. j \in 1 .. k /\ E[j] # F[j] /\ j \in 1 .. n /\ j \in 1 .. m
  OBVIOUS
<1>5. \A l \in 1 .. k : l < j => E[l] = F[l]
  <2>1. \A l \in 1 .. k : l < j => l \notin T
    BY <1>3, <1>4
  <2> QED  BY <2>1
<1> HIDE DEF T
<1>6. E[j] = IF log[j].action # "redo" THEN {j} ELSE {j} \union E[log[log[j].target].target]
  BY <1>4 DEF IsEffects
<1>7. F[j] = IF other[j].action # "redo" THEN {j}
             ELSE {j} \union F[other[other[j].target].target]
  BY <1>4 DEF IsEffects
<1>8. log[j].action = other[j].action /\ log[j].target = other[j].target
  BY <1>4 DEF Alike
<1>9. CASE log[j].action # "redo"
  BY <1>4, <1>6, <1>7, <1>8, <1>9
<1>10. CASE log[j].action = "redo"
  <2>1. log[j].target \in 1 .. j - 1 /\ log[log[j].target].action = "undo"
    BY <1>4, <1>10, Names
  <2>2. log[j].target \in 1 .. n /\ log[j].target \in 1 .. k
    BY <1>4, <2>1
  <2>3. log[log[j].target].target \in 1 .. log[j].target - 1
    BY <2>1, <2>2, Names
  <2>4. other[other[j].target].target = log[log[j].target].target
    BY <1>8, <2>2 DEF Alike
  <2> DEFINE v == log[log[j].target].target
  <2>5. v \in 1 .. k /\ v < j
    BY <1>4, <2>1, <2>3
  <2>6. E[v] = F[v]
    BY <1>5, <2>5
  <2> QED  BY <1>4, <1>6, <1>7, <1>8, <1>10, <2>4, <2>6
<1> QED  BY <1>9, <1>10

\* The receipts some change of the present may reverse or repeat.
Heads(log, n) == OpenAt(log, n) \union { log[u].target : u \in OpenUndosAt(log, n) }

\* undone holds what no open receipt stands for, and no two heads stand for the
\* same receipt.
UndoneSound(log, n, E, undone) ==
  /\ undone \subseteq 1 .. n
  /\ \A j \in 1 .. n : log[j].action # "undo"
        => (j \in undone <=> \A o \in OpenAt(log, n) : j \notin E[o])
  /\ \A g, h \in Heads(log, n) : g # h => E[g] \cap E[h] = {}

LEMMA HeadsRange ==
  ASSUME NEW log, NEW n \in Nat, LogSound(log, n)
  PROVE  /\ Heads(log, n) \subseteq 1 .. n
         /\ OpenAt(log, n) \subseteq 1 .. n
         /\ OpenUndosAt(log, n) \subseteq 1 .. n
<1>1. \A u \in OpenUndosAt(log, n) : log[u].target \in 1 .. n
  BY Names DEF OpenUndosAt
<1> QED  BY <1>1 DEF Heads, OpenAt, OpenUndosAt

LEMMA UndoneAlike ==
  ASSUME NEW log, NEW other, NEW n \in Nat, LogSound(log, n), Alike(log, other, n),
         NEW E, NEW F, \A j \in 1 .. n : E[j] = F[j],
         NEW undone, UndoneSound(log, n, E, undone)
  PROVE  UndoneSound(other, n, F, undone)
<1>1. OpenAt(other, n) = OpenAt(log, n) /\ OpenUndosAt(other, n) = OpenUndosAt(log, n)
  BY AlikeHistories, n \in 0 .. n
<1>2. Heads(other, n) = Heads(log, n)
  <2>1. \A u \in OpenUndosAt(log, n) : log[u].target = other[u].target
    BY DEF OpenUndosAt, Alike
  <2> QED  BY <1>1, <2>1 DEF Heads
<1>3. \A j \in Heads(log, n) : j \in 1 .. n
  BY HeadsRange
<1>4. \A g, h \in Heads(log, n) : g # h => F[g] \cap F[h] = {}
  BY <1>3 DEF UndoneSound
<1>5. \A j \in 1 .. n : log[j].action = other[j].action
  BY DEF Alike
<1>6. \A o \in OpenAt(log, n) : E[o] = F[o]
  BY HeadsRange
<1> QED  BY <1>1, <1>2, <1>4, <1>5, <1>6 DEF UndoneSound

LEMMA UndoneAfterEdit ==
  ASSUME NEW log, NEW n \in Nat \ {0}, LogSound(log, n), NEW E, IsEffects(E, log, n),
         IsEdit(log[n]), NEW undone, UndoneSound(log, n - 1, E, undone)
  PROVE  UndoneSound(log, n, E, undone)
<1>1. /\ OpenAt(log, n) = OpenAt(log, n - 1) \union {n}
      /\ OpenUndosAt(log, n) = OpenUndosAt(log, n - 1)
  BY AfterEdit
<1>2. LogSound(log, n - 1) /\ n - 1 \in Nat
  BY DEF LogSound
<1>3. Heads(log, n) = Heads(log, n - 1) \union {n}
  BY <1>1 DEF Heads
<1>4. E[n] = {n}
  <2>1. n \in 1 .. n /\ log[n].action # "redo"
    BY DEF IsEdit
  <2>2. E[n] = IF log[n].action # "redo" THEN {n} ELSE {n} \union E[log[log[n].target].target]
    BY <2>1, Zenon DEF IsEffects
  <2> QED  BY <2>1, <2>2, Zenon
<1>5. \A j \in 1 .. n - 1 : j # n /\ n \notin E[j]
  BY EffectsRange
<1>6. /\ \A h \in Heads(log, n - 1) : h \in 1 .. n - 1
      /\ \A o \in OpenAt(log, n - 1) : o \in 1 .. n - 1
  BY <1>2, HeadsRange
<1>7. \A g, h \in Heads(log, n) : g # h => E[g] \cap E[h] = {}
  BY <1>3, <1>4, <1>5, <1>6 DEF UndoneSound
<1>8. undone \subseteq 1 .. n /\ n \notin undone
  BY <1>2 DEF UndoneSound
<1>9. ASSUME NEW j \in 1 .. n, log[j].action # "undo"
      PROVE  j \in undone <=> \A o \in OpenAt(log, n) : j \notin E[o]
  <2>1. CASE j = n
    BY <1>1, <1>4, <1>8, <2>1
  <2>2. CASE j # n
    <3>1. j \in 1 .. n - 1 /\ j \notin E[n]
      BY <1>4, <2>2
    <3> QED  BY <1>1, <1>9, <3>1 DEF UndoneSound
  <2> QED  BY <2>1, <2>2
<1> QED  BY <1>7, <1>8, <1>9 DEF UndoneSound

LEMMA UndoneAfterUndo ==
  ASSUME NEW log, NEW n \in Nat \ {0}, LogSound(log, n), NEW E, IsEffects(E, log, n),
         log[n].action = "undo", NEW undone, UndoneSound(log, n - 1, E, undone)
  PROVE  UndoneSound(log, n, E, undone \union E[log[n].target])
<1> DEFINE t == log[n].target
<1>1. /\ t \in OpenAt(log, n - 1)
      /\ OpenAt(log, n) = OpenAt(log, n - 1) \ {t}
      /\ OpenUndosAt(log, n) = OpenUndosAt(log, n - 1) \union {n}
  BY AfterUndo
<1>2. LogSound(log, n - 1) /\ n - 1 \in Nat
  BY DEF LogSound
<1>3. Heads(log, n) = Heads(log, n - 1)
  <2>1. { log[u].target : u \in OpenUndosAt(log, n) }
          = { log[u].target : u \in OpenUndosAt(log, n - 1) } \union {t}
    BY <1>1
  <2> HIDE DEF t
  <2> QED  BY <1>1, <2>1 DEF Heads
<1> HIDE DEF t
<1>4. t \in 1 .. n - 1 /\ E[t] \subseteq 1 .. t
  BY <1>1, <1>2, HeadsRange, EffectsRange
<1>5. undone \union E[t] \subseteq 1 .. n
  <2>1. undone \subseteq 1 .. n - 1
    BY DEF UndoneSound
  <2>2. E[t] \subseteq 1 .. n - 1
    BY <1>4
  <2>3. 1 .. n - 1 \subseteq 1 .. n
    OBVIOUS
  <2> QED  BY <2>1, <2>2, <2>3, Zenon
<1>6. \A g, h \in Heads(log, n) : g # h => E[g] \cap E[h] = {}
  BY <1>3 DEF UndoneSound
<1>7. \A o \in OpenAt(log, n) : E[o] \cap E[t] = {}
  BY <1>1, <1>3, <1>6 DEF Heads
<1>8. ASSUME NEW j \in 1 .. n, log[j].action # "undo"
      PROVE  j \in undone \union E[t] <=> \A o \in OpenAt(log, n) : j \notin E[o]
  <2>1. j \in 1 .. n - 1
    BY <1>8
  <2>2. j \in undone <=> \A o \in OpenAt(log, n - 1) : j \notin E[o]
    BY <1>8, <2>1 DEF UndoneSound
  <2> QED  BY <1>1, <1>7, <2>2
<1>9. UndoneSound(log, n, E, undone \union E[t])
  BY <1>5, <1>6, <1>8 DEF UndoneSound
<1> QED  BY <1>9 DEF t

LEMMA UndoneAfterRedo ==
  ASSUME NEW log, NEW n \in Nat \ {0}, LogSound(log, n), NEW E, IsEffects(E, log, n),
         log[n].action = "redo", NEW undone, UndoneSound(log, n - 1, E, undone)
  PROVE  UndoneSound(log, n, E, undone \ E[log[log[n].target].target])
<1> DEFINE u == log[n].target
           v == log[u].target
<1>1. /\ u \in OpenUndosAt(log, n - 1)
      /\ OpenAt(log, n) = OpenAt(log, n - 1) \union {n}
      /\ OpenUndosAt(log, n) = OpenUndosAt(log, n - 1) \ {u}
  BY AfterRedo
<1>2. LogSound(log, n - 1) /\ n - 1 \in Nat
  BY DEF LogSound
<1>3. u \in 1 .. n - 1 /\ log[u].action = "undo"
  BY <1>1 DEF OpenUndosAt
<1>4. v \in 1 .. u - 1
  BY <1>2, <1>3, Names
<1>5. E[n] = {n} \union E[v]
  <2>1. n \in 1 .. n
    OBVIOUS
  <2> QED  BY <2>1, Zenon DEF IsEffects
<1>6. v \in Heads(log, n - 1)
  BY <1>1 DEF Heads
<1>7. Heads(log, n) \subseteq (Heads(log, n - 1) \ {v}) \union {n}
  <2>1. v \notin OpenAt(log, n - 1)
    BY <1>3 DEF OpenAt
  <2>2. ASSUME NEW w \in OpenUndosAt(log, n)  PROVE log[w].target # v
    <3>1. w \in 1 .. n - 1 /\ w # u
      BY <1>1 DEF OpenUndosAt
    <3> QED  BY <1>2, <1>3, <1>4, <3>1, NamesOnce
  <2> HIDE DEF u, v
  <2> QED  BY <1>1, <2>1, <2>2 DEF Heads
<1> HIDE DEF u, v
<1>8. E[v] \subseteq 1 .. n - 1
  BY <1>3, <1>4, EffectsRange
<1>9. \A h \in Heads(log, n - 1) : h \in 1 .. n - 1 /\ n \notin E[h]
  BY <1>2, HeadsRange, EffectsRange
<1>10. \A g, h \in Heads(log, n) : g # h => E[g] \cap E[h] = {}
  <2>1. \A g, h \in Heads(log, n - 1) : g # h => E[g] \cap E[h] = {}
    BY DEF UndoneSound
  <2>2. \A h \in Heads(log, n - 1) \ {v} : E[h] \cap E[n] = {}
    BY <1>5, <1>6, <1>9, <2>1
  <2> QED  BY <1>7, <2>1, <2>2
<1>11. undone \ E[v] \subseteq 1 .. n /\ n \notin undone
  <2>1. undone \subseteq 1 .. n - 1
    BY DEF UndoneSound
  <2>2. 1 .. n - 1 \subseteq 1 .. n /\ n \notin 1 .. n - 1
    OBVIOUS
  <2> QED  BY <2>1, <2>2, Zenon
<1>12. ASSUME NEW j \in 1 .. n, log[j].action # "undo"
       PROVE  j \in undone \ E[v] <=> \A o \in OpenAt(log, n) : j \notin E[o]
  <2>1. CASE j = n
    BY <1>1, <1>5, <1>11, <2>1
  <2>2. CASE j # n
    <3>1. j \in 1 .. n - 1
      BY <2>2
    <3>2. j \in undone <=> \A o \in OpenAt(log, n - 1) : j \notin E[o]
      BY <1>12, <3>1 DEF UndoneSound
    <3> QED  BY <1>1, <1>5, <2>2, <3>2
  <2> QED  BY <2>1, <2>2
<1>13. UndoneSound(log, n, E, undone \ E[v])
  BY <1>10, <1>11, <1>12 DEF UndoneSound
<1> QED  BY <1>13 DEF u, v

\* The undos to redo, the next one last: those no redo names and no edit follows.
RedoSound(log, n, redo) ==
  /\ redo \in Seq(1 .. n)
  /\ \A k, l \in 1 .. Len(redo) : k < l => redo[k] < redo[l]
  /\ { redo[k] : k \in 1 .. Len(redo) }
       = { u \in OpenUndosAt(log, n) : ~Edited(log, u, n) }

LEMMA RedoAlike ==
  ASSUME NEW log, NEW other, NEW n \in Nat, Alike(log, other, n),
         NEW redo, RedoSound(log, n, redo)
  PROVE  RedoSound(other, n, redo)
<1>1. OpenUndosAt(other, n) = OpenUndosAt(log, n)
  BY AlikeHistories, n \in 0 .. n
<1>2. \A u \in OpenUndosAt(log, n) : Edited(other, u, n) = Edited(log, u, n)
  BY AlikeHistories, n \in 0 .. n DEF OpenUndosAt
<1> QED  BY <1>1, <1>2 DEF RedoSound

LEMMA RedoAfterEdit ==
  ASSUME NEW log, NEW n \in Nat \ {0}, LogSound(log, n), IsEdit(log[n])
  PROVE  RedoSound(log, n, << >>)
<1>1. \A u \in OpenUndosAt(log, n) : u \in 1 .. n - 1
  BY AfterEdit DEF OpenUndosAt
<1>2. \A u \in 1 .. n - 1 : n \in u + 1 .. n
  OBVIOUS
<1>3. { u \in OpenUndosAt(log, n) : ~Edited(log, u, n) } = {}
  BY <1>1, <1>2 DEF Edited
<1> QED  BY <1>3 DEF RedoSound

LEMMA RedoAfterUndo ==
  ASSUME NEW log, NEW n \in Nat \ {0}, LogSound(log, n), log[n].action = "undo",
         NEW redo, RedoSound(log, n - 1, redo)
  PROVE  RedoSound(log, n, Append(redo, n))
<1> DEFINE r == Append(redo, n)
<1>1. redo \in Seq(1 .. n - 1) /\ n \in 1 .. n
  BY DEF RedoSound
<1>2. /\ r \in Seq(1 .. n) /\ Len(r) = Len(redo) + 1 /\ Len(redo) \in Nat
      /\ \A k \in 1 .. Len(redo) : r[k] = redo[k] /\ redo[k] \in 1 .. n - 1
      /\ r[Len(redo) + 1] = n
  <2>1. redo \in Seq(1 .. n)
    BY <1>1
  <2> QED  BY <1>1, <2>1
<1> HIDE DEF r
<1>3. \A k, l \in 1 .. Len(r) : k < l => r[k] < r[l]
  <2>1. \A k, l \in 1 .. Len(redo) : k < l => redo[k] < redo[l]
    BY DEF RedoSound
  <2>2. \A k \in 1 .. Len(r) : k = Len(redo) + 1 \/ k \in 1 .. Len(redo)
    BY <1>2
  <2>3. \A k \in 1 .. Len(redo) : r[k] < n /\ r[k] \in Nat
    BY <1>2
  <2> SUFFICES ASSUME NEW k \in 1 .. Len(r), NEW l \in 1 .. Len(r), k < l
               PROVE  r[k] < r[l]
    OBVIOUS
  <2>4. k \in 1 .. Len(redo)
    BY <1>2
  <2>5. CASE l = Len(redo) + 1
    BY <1>2, <2>3, <2>4, <2>5
  <2>6. CASE l \in 1 .. Len(redo)
    BY <1>2, <2>1, <2>4, <2>6
  <2> QED  BY <2>2, <2>5, <2>6
<1>4. { r[k] : k \in 1 .. Len(r) } = { redo[k] : k \in 1 .. Len(redo) } \union {n}
  BY <1>2, SMTT(30)
<1>5. OpenUndosAt(log, n) = OpenUndosAt(log, n - 1) \union {n}
  BY AfterUndo
<1>6. ~Edited(log, n, n)
  BY DEF Edited
<1>7. \A u \in OpenUndosAt(log, n - 1) : Edited(log, u, n) = Edited(log, u, n - 1)
  BY DEF Edited, OpenUndosAt, IsEdit
<1>8. { u \in OpenUndosAt(log, n) : ~Edited(log, u, n) }
        = { u \in OpenUndosAt(log, n - 1) : ~Edited(log, u, n - 1) } \union {n}
  BY <1>5, <1>6, <1>7
<1>9. RedoSound(log, n, r)
  BY <1>2, <1>3, <1>4, <1>8, Zenon DEF RedoSound
<1> QED  BY <1>9 DEF r

Elements(s) == { s[k] : k \in 1 .. Len(s) }

\* s is the numbers of S, none above n, in order.
Stacked(s, n, S) ==
  /\ s \in Seq(1 .. n)
  /\ \A k, l \in 1 .. Len(s) : k < l => s[k] < s[l]
  /\ Elements(s) = S

LEMMA RedoAfterRedo ==
  ASSUME NEW log, NEW n \in Nat \ {0}, LogSound(log, n), log[n].action = "redo",
         NEW redo, RedoSound(log, n - 1, redo),
         NEW left, Stacked(left, n - 1, Elements(redo) \ {log[n].target})
  PROVE  RedoSound(log, n, left)
<1>0. /\ left \in Seq(1 .. n - 1)
      /\ \A k, l \in 1 .. Len(left) : k < l => left[k] < left[l]
      /\ { left[k] : k \in 1 .. Len(left) }
           = { redo[k] : k \in 1 .. Len(redo) } \ {log[n].target}
  BY Zenon DEF Stacked, Elements
<1>1. OpenUndosAt(log, n) = OpenUndosAt(log, n - 1) \ {log[n].target}
  BY AfterRedo
<1>2. \A u \in OpenUndosAt(log, n - 1) : Edited(log, u, n) = Edited(log, u, n - 1)
  BY DEF Edited, OpenUndosAt, IsEdit
<1>3. { u \in OpenUndosAt(log, n) : ~Edited(log, u, n) }
        = { u \in OpenUndosAt(log, n - 1) : ~Edited(log, u, n - 1) } \ {log[n].target}
  BY <1>1, <1>2
<1>4. left \in Seq(1 .. n)
  BY <1>0
<1> QED  BY <1>0, <1>3, <1>4 DEF RedoSound

\* The planner and the log name the same receipt for undo ...
LEMMA PlannerUndo ==
  ASSUME NEW log, NEW n \in Nat, LogSound(log, n), NEW E, IsEffects(E, log, n),
         NEW undone, UndoneSound(log, n, E, undone),
         NEW undoable, undoable = { k \in 1 .. n : log[k].action # "undo" /\ k \notin undone }
  PROVE  /\ OpenAt(log, n) \subseteq undoable
         /\ undoable # {} => IsUndo(log, n, Max(undoable))
<1>1. OpenAt(log, n) \subseteq undoable
  BY EffectsRange, HeadsRange DEF UndoneSound, OpenAt
<1>2. \A k \in undoable : \E o \in OpenAt(log, n) : k =< o
  <2> SUFFICES ASSUME NEW k \in undoable  PROVE \E o \in OpenAt(log, n) : k =< o
    OBVIOUS
  <2>1. PICK o \in OpenAt(log, n) : k \in E[o]
    BY DEF UndoneSound
  <2>2. o \in 1 .. n /\ E[o] \subseteq 1 .. o
    BY EffectsRange, HeadsRange
  <2> QED  BY <2>1, <2>2
<1>3. undoable \subseteq 0 .. n
  OBVIOUS
<1>4. ASSUME undoable # {}  PROVE IsUndo(log, n, Max(undoable))
  <2>1. Max(undoable) \in undoable /\ \A k \in undoable : k =< Max(undoable)
    BY <1>3, <1>4, MaxIs
  <2>2. PICK o \in OpenAt(log, n) : Max(undoable) =< o
    BY <1>2, <2>1
  <2>3. Max(undoable) = o
    <3>1. o \in undoable /\ o \in Nat /\ Max(undoable) \in Nat
      <4>1. 0 .. n \subseteq Nat
        OBVIOUS
      <4> QED  BY <1>1, <1>3, <2>1, <4>1, Zenon
    <3>2. o =< Max(undoable)
      BY <2>1, <3>1
    <3> QED  BY <2>2, <3>1, <3>2
  <2> QED  BY <1>1, <2>1, <2>2, <2>3 DEF IsUndo
<1> QED  BY <1>1, <1>4

\* ... and for redo.
LEMMA PlannerRedo ==
  ASSUME NEW log, NEW n \in Nat, NEW redo, RedoSound(log, n, redo)
  PROVE  /\ redo = << >> => \A u : ~IsRedo(log, n, u)
         /\ redo # << >> => IsRedo(log, n, redo[Len(redo)])
<1>5. ASSUME redo = << >>  PROVE \A u : ~IsRedo(log, n, u)
  <2>1. { u \in OpenUndosAt(log, n) : ~Edited(log, u, n) } = {}
    BY <1>5 DEF RedoSound
  <2> QED  BY <2>1 DEF IsRedo
<1>6. ASSUME redo # << >>  PROVE IsRedo(log, n, redo[Len(redo)])
  <2> DEFINE m == Len(redo)
  <2>1. redo \in Seq(1 .. n) /\ m \in 1 .. m /\ m \in Nat
    BY <1>6 DEF RedoSound
  <2>2. redo[m] \in { redo[k] : k \in 1 .. m } /\ redo[m] \in 1 .. n
    BY <2>1
  <2>3. redo[m] \in OpenUndosAt(log, n) /\ ~Edited(log, redo[m], n)
    BY <2>2 DEF RedoSound
  <2>4. ASSUME NEW l \in OpenUndosAt(log, n), redo[m] < l  PROVE FALSE
    <3>1. l \in 1 .. n
      BY DEF OpenUndosAt
    <3>2. ~Edited(log, l, n)
      BY <2>2, <2>3, <2>4, <3>1 DEF Edited
    <3>3. PICK k \in 1 .. m : redo[k] = l
      BY <3>2 DEF RedoSound
    <3>4. k < m => redo[k] < redo[m]
      BY <2>1 DEF RedoSound
    <3> QED  BY <2>1, <2>2, <2>4, <3>1, <3>3, <3>4
  <2>5. OpenUndosAt(log, n) \subseteq Nat
    BY DEF OpenUndosAt
  <2> QED  BY <2>2, <2>3, <2>4, <2>5 DEF IsRedo
<1> QED  BY <1>5, <1>6

\* A log with one more receipt.
LEMMA PlannerStep ==
  ASSUME NEW log, NEW n \in Nat, LogSound(log, n),
         NEW E, IsEffects(E, log, n),
         NEW undone, UndoneSound(log, n, E, undone), NEW redo, RedoSound(log, n, redo),
         NEW longer, Alike(log, longer, n), NamesSoundly(longer, n + 1)
  PROVE  /\ LogSound(longer, n + 1)
         /\ RedoSound(longer, n, redo)
         /\ \E F : /\ IsEffects(F, longer, n + 1)
                  /\ UndoneSound(longer, n, F, undone)
                  /\ \A j \in 1 .. n : F[j] = E[j]
<1>1. LogSound(longer, n)
  BY AlikeSound
<1>2. LogSound(longer, n + 1)
  <2>1. \A k \in 1 .. n + 1 : k = n + 1 \/ k \in 1 .. n
    OBVIOUS
  <2> QED  BY <1>1, <2>1 DEF LogSound
<1>3. n + 1 \in Nat /\ n =< n /\ n =< n + 1
  OBVIOUS
<1>4. PICK F : IsEffects(F, longer, n + 1)
  BY <1>2, <1>3, EffectsExist
<1>5. \A j \in 1 .. n : E[j] = F[j]
  BY <1>3, <1>4, EffectsAgree
<1>6. UndoneSound(longer, n, F, undone)
  BY <1>5, UndoneAlike
<1>7. RedoSound(longer, n, redo)
  BY RedoAlike
<1> QED  BY <1>2, <1>4, <1>5, <1>6, <1>7

-----------------------------------------------------------------------------
(* The order in which undo and redo will go.                               *)

\* s lists the numbers of S, the least first.
Lists(s, S) ==
  /\ s \in Seq(Nat)
  /\ \A k, l \in 1 .. Len(s) : k < l => s[k] < s[l]
  /\ { s[k] : k \in 1 .. Len(s) } = S

\* There is one such list.
LEMMA OneList ==
  ASSUME NEW S, NEW s, NEW t, Lists(s, S), Lists(t, S)
  PROVE  s = t
<1>1. ASSUME NEW a, NEW b, Lists(a, S), Lists(b, S), NEW k \in 1 .. Len(a), k \in 1 .. Len(b),
             \A l \in 1 .. k - 1 : a[l] = b[l], a[k] < b[k]
      PROVE  FALSE
  <2>1. /\ a \in Seq(Nat) /\ b \in Seq(Nat) /\ a[k] \in Nat /\ b[k] \in Nat /\ k \in Nat
        /\ \A l, m \in 1 .. Len(a) : l < m => a[l] < a[m]
        /\ \A l, m \in 1 .. Len(b) : l < m => b[l] < b[m]
    BY <1>1, SMTT(30) DEF Lists
  <2>2. PICK l \in 1 .. Len(b) : b[l] = a[k]
    <3>1. a[k] \in { a[l] : l \in 1 .. Len(a) }
      OBVIOUS
    <3>2. a[k] \in { b[l] : l \in 1 .. Len(b) }
      BY <1>1, <3>1, Zenon DEF Lists
    <3> QED  BY <3>2
  <2>3. l < k
    BY <1>1, <2>1, <2>2, SMTT(30)
  <2>4. a[l] = a[k] /\ l \in 1 .. Len(a)
    BY <1>1, <2>1, <2>2, <2>3
  <2> QED  BY <1>1, <2>1, <2>3, <2>4
<1>2. ASSUME NEW a, NEW b, Lists(a, S), Lists(b, S)
      PROVE  \A k \in 1 .. Len(a) : k \in 1 .. Len(b) => a[k] = b[k]
  <2> DEFINE T == { k \in 1 .. Len(a) : k \in 1 .. Len(b) /\ a[k] # b[k] }
  <2>1. SUFFICES ASSUME T # {}  PROVE FALSE
    OBVIOUS
  <2>2. T \subseteq Nat
    OBVIOUS
  <2>3. PICK k \in T : \A l \in T : k =< l
    BY <2>1, <2>2, LeastNat
  <2>4. /\ k \in 1 .. Len(a) /\ k \in 1 .. Len(b) /\ a[k] # b[k]
        /\ Len(a) \in Nat /\ Len(b) \in Nat /\ a[k] \in Nat /\ b[k] \in Nat
    BY <1>2 DEF Lists
  <2>5. \A l \in 1 .. k - 1 : a[l] = b[l]
    <3>1. \A l \in 1 .. k - 1 : l \in 1 .. Len(a) /\ l \in 1 .. Len(b) /\ l \notin T
      BY <2>3, <2>4
    <3> QED  BY <3>1
  <2> HIDE DEF T
  <2>6. CASE a[k] < b[k]
    BY <1>1, <1>2, <2>4, <2>5, <2>6
  <2>7. CASE b[k] < a[k]
    BY <1>1, <1>2, <2>4, <2>5, <2>7
  <2> QED  BY <2>4, <2>6, <2>7
<1>3. ASSUME NEW a, NEW b, Lists(a, S), Lists(b, S), Len(a) < Len(b)  PROVE FALSE
  <2>1. /\ Len(a) \in Nat /\ Len(b) \in Nat
        /\ \A l, m \in 1 .. Len(b) : l < m => b[l] < b[m]
        /\ \A l \in 1 .. Len(b) : b[l] \in Nat
    BY <1>3 DEF Lists
  <2>2. Len(b) \in 1 .. Len(b)
    BY <1>3, <2>1
  <2>3. PICK l \in 1 .. Len(a) : a[l] = b[Len(b)]
    <3>1. b[Len(b)] \in { b[l] : l \in 1 .. Len(b) }
      BY <2>2
    <3>2. b[Len(b)] \in { a[l] : l \in 1 .. Len(a) }
      BY <1>3, <3>1, Zenon DEF Lists
    <3> QED  BY <3>2
  <2>4. l \in 1 .. Len(b) /\ l < Len(b)
    BY <1>3, <2>1
  <2>5. a[l] = b[l]
    BY <1>2, <1>3, <2>4, Zenon
  <2>6. b[l] < b[Len(b)] /\ b[l] \in Nat
    BY <2>1, <2>2, <2>4
  <2> QED  BY <2>3, <2>5, <2>6
<1>4. Len(s) = Len(t)
  <2>1. Len(s) \in Nat /\ Len(t) \in Nat
    BY DEF Lists
  <2> QED  BY <1>3, <2>1
<1>5. \A k \in 1 .. Len(s) : s[k] = t[k]
  BY <1>2, <1>4
<1> QED  BY <1>4, <1>5 DEF Lists

LEMMA ListRange ==
  ASSUME NEW S, NEW s, Lists(s, S)
  PROVE  /\ s \in Seq(Nat)
         /\ Len(s) \in Nat
         /\ \A k, l \in 1 .. Len(s) : k < l => s[k] < s[l]
         /\ \A k \in 1 .. Len(s) : s[k] \in S /\ s[k] \in Nat
         /\ \A e \in S : \E k \in 1 .. Len(s) : e = s[k]
<1>1. { s[k] : k \in 1 .. Len(s) } = S
  BY DEF Lists
<1>2. \A k \in 1 .. Len(s) : s[k] \in { s[l] : l \in 1 .. Len(s) }
  OBVIOUS
<1>3. \A e \in { s[l] : l \in 1 .. Len(s) } : \E k \in 1 .. Len(s) : e = s[k]
  OBVIOUS
<1>4. /\ \A k \in 1 .. Len(s) : s[k] \in S
      /\ \A e \in S : \E k \in 1 .. Len(s) : e = s[k]
  BY <1>1, <1>2, <1>3, Zenon
<1> QED  BY <1>4 DEF Lists

\* A list with a greater number added.
LEMMA ListGrown ==
  ASSUME NEW S, NEW s, Lists(s, S), NEW n \in Nat, \A k \in S : k < n
  PROVE  Lists(Append(s, n), S \union {n})
<1>1. s \in Seq(Nat) /\ Len(s) \in Nat
  BY DEF Lists
<1>2. PICK t : t = Append(s, n)
  OBVIOUS
<1>3. /\ t \in Seq(Nat) /\ Len(t) = Len(s) + 1 /\ t[Len(s) + 1] = n
      /\ \A k \in 1 .. Len(s) : t[k] = s[k] /\ s[k] \in S
  BY <1>1, <1>2 DEF Lists
<1>4. \A k \in 1 .. Len(t) : k = Len(s) + 1 \/ k \in 1 .. Len(s)
  BY <1>1, <1>3
<1>5. \A k, l \in 1 .. Len(t) : k < l => t[k] < t[l]
  <2> SUFFICES ASSUME NEW k \in 1 .. Len(t), NEW l \in 1 .. Len(t), k < l  PROVE t[k] < t[l]
    OBVIOUS
  <2>1. k \in 1 .. Len(s)
    BY <1>1, <1>3
  <2>2. CASE l = Len(s) + 1
    BY <1>3, <2>1, <2>2
  <2>3. CASE l \in 1 .. Len(s)
    BY <1>3, <2>1, <2>3 DEF Lists
  <2> QED  BY <1>4, <2>2, <2>3
<1>6. { t[k] : k \in 1 .. Len(t) } = S \union {n}
  <2>1. { t[k] : k \in 1 .. Len(t) } = { s[k] : k \in 1 .. Len(s) } \union {n}
    BY <1>1, <1>3, <1>4
  <2> QED  BY <2>1 DEF Lists
<1> QED  BY <1>2, <1>3, <1>5, <1>6 DEF Lists

\* What of live no other of them stands for.
Foremost(E, live) == live \ UNION { E[m] \ {m} : m \in live }

\* Of what the planner holds undoable, that is what undo will name.
LEMMA PlannerOrder ==
  ASSUME NEW log, NEW n \in Nat, LogSound(log, n), NEW E, IsEffects(E, log, n),
         NEW undone, UndoneSound(log, n, E, undone),
         NEW live, live = { k \in 1 .. n : log[k].action # "undo" /\ k \notin undone }
  PROVE  Foremost(E, live) = OpenAt(log, n)
<1> DEFINE open == OpenAt(log, n)
           behind == UNION { E[m] \ {m} : m \in live }
<1>1. open \subseteq live
  BY PlannerUndo
<1>2. \A k \in live : k \in 1 .. n /\ \E o \in open : k \in E[o]
  BY DEF UndoneSound
<1>3. open \subseteq 1 .. n /\ open \subseteq Heads(log, n)
  BY HeadsRange DEF Heads
<1>4. \A k \in 1 .. n : k \in E[k] /\ E[k] \subseteq 1 .. k
  BY EffectsRange
<1>5. \A g, h \in open : g # h => E[g] \cap E[h] = {}
  BY <1>3 DEF UndoneSound
<1> HIDE DEF open
<1>6. ASSUME NEW o \in open, NEW m \in live, o \in E[m], o # m  PROVE FALSE
  <2>1. PICK q \in open : m \in E[q]
    BY <1>2
  <2>2. o \in 1 .. n /\ q \in 1 .. n /\ m \in 1 .. n
    BY <1>2, <1>3
  <2>3. E[m] \subseteq E[q]
    BY <2>1, <2>2, EffectsNested
  <2>4. o = q
    BY <1>4, <1>5, <1>6, <2>2, <2>3
  <2>5. E[q] \subseteq 1 .. q /\ E[m] \subseteq 1 .. m
    BY <1>4, <2>2
  <2>6. m \in 1 .. o /\ o \in 1 .. m
    BY <1>6, <2>1, <2>4, <2>5
  <2> QED  BY <1>6, <2>2, <2>6
<1>7. ASSUME NEW k \in live, k \notin open  PROVE k \in behind
  <2>1. PICK o \in open : k \in E[o]
    BY <1>2
  <2>2. k \in E[o] \ {o} /\ o \in live
    BY <1>1, <1>7, <2>1
  <2> QED  BY <2>2
<1>8. \A k \in behind : \E m \in live : k \in E[m] /\ k # m
  OBVIOUS
<1> HIDE DEF behind
<1>9. live \ behind = open
  BY <1>1, <1>6, <1>7, <1>8
<1> QED  BY <1>9 DEF open, behind, Foremost

\* The receipts undo will name: those before one of them were all it could name then.
LEMMA OpenBefore ==
  ASSUME NEW log, NEW n \in Nat, LogSound(log, n), NEW o \in OpenAt(log, n)
  PROVE  OpenAt(log, o - 1) = { k \in OpenAt(log, n) : k < o }
<1>1. o \in 1 .. n /\ log[o].action # "undo" /\ \A m \in 1 .. n : log[m].target # o
  BY DEF OpenAt
<1>2. ASSUME NEW k \in OpenAt(log, n), k < o  PROVE k \in OpenAt(log, o - 1)
  BY <1>1, <1>2 DEF OpenAt
<1>3. ASSUME NEW k \in OpenAt(log, o - 1), k \notin OpenAt(log, n)  PROVE FALSE
  <2>1. k \in 1 .. o - 1 /\ k \in 1 .. n /\ log[k].action # "undo"
    BY <1>1 DEF OpenAt
  <2>2. PICK m \in 1 .. n : log[m].target = k
    BY <1>3, <2>1 DEF OpenAt
  <2>3. m \notin 1 .. o - 1
    BY <2>2 DEF OpenAt
  <2>4. log[m].action = "undo"
    BY <2>1, <2>2, Names DEF IsEdit
  <2>5. m # o /\ m - 1 \in 1 .. n
    BY <1>1, <2>3, <2>4
  <2>6. IsUndo(log, m - 1, k)
    BY <2>2, <2>4 DEF LogSound, NamesSoundly, IsEdit
  <2>7. o \in OpenAt(log, m - 1)
    BY <1>1, <2>3, <2>5 DEF OpenAt
  <2> QED  BY <1>1, <2>1, <2>6, <2>7 DEF IsUndo
<1>4. \A k \in OpenAt(log, o - 1) : k < o
  BY <1>1 DEF OpenAt
<1> QED  BY <1>2, <1>3, <1>4

\* The undos redo will name: of those before one of them, the last was what it could
\* name then.
LEMMA RedoBefore ==
  ASSUME NEW log, NEW n \in Nat, LogSound(log, n),
         NEW u \in OpenUndosAt(log, n), ~Edited(log, u, n),
         NEW v \in OpenUndosAt(log, n), ~Edited(log, v, n), v < u,
         \A w \in OpenUndosAt(log, n) : ~Edited(log, w, n) /\ w < u => w =< v
  PROVE  IsRedo(log, u - 1, v)
<1>1. /\ u \in 1 .. n /\ log[u].action = "undo" /\ \A m \in 1 .. n : log[m].target # u
      /\ v \in 1 .. n /\ v \in 1 .. u - 1
  BY DEF OpenUndosAt
<1>2. v \in OpenUndosAt(log, u - 1) /\ ~Edited(log, v, u - 1)
  BY <1>1 DEF OpenUndosAt, Edited
<1>3. ASSUME NEW w \in OpenUndosAt(log, u - 1), v < w  PROVE FALSE
  <2>1. w \in 1 .. u - 1 /\ w \in 1 .. n /\ log[w].action = "undo"
    BY <1>1 DEF OpenUndosAt
  <2>2. ~Edited(log, w, n)
    BY <1>1, <1>3, <2>1 DEF Edited
  <2>3. w \notin OpenUndosAt(log, n)
    BY <1>1, <1>3, <2>1, <2>2
  <2>4. PICK m \in 1 .. n : log[m].target = w
    BY <2>1, <2>3 DEF OpenUndosAt
  <2>5. m \notin 1 .. u - 1
    BY <2>4 DEF OpenUndosAt
  <2>6. log[m].action = "redo"
    BY <2>1, <2>4, Names DEF IsEdit
  <2>7. m # u /\ m - 1 \in 1 .. n
    BY <1>1, <2>5, <2>6
  <2>8. IsRedo(log, m - 1, w)
    BY <2>4, <2>6 DEF LogSound, NamesSoundly, IsEdit
  <2>9. u \in OpenUndosAt(log, m - 1)
    BY <1>1, <2>5, <2>7 DEF OpenUndosAt
  <2> QED  BY <1>1, <2>1, <2>8, <2>9 DEF IsRedo
<1>4. OpenUndosAt(log, u - 1) \subseteq Nat
  BY DEF OpenUndosAt
<1> QED  BY <1>1, <1>2, <1>3, <1>4 DEF IsRedo

\* A reversal leads back to the canvas before the receipt it names, and what undo
\* and redo may name left the canvas as it is.
Retraces(log, n, c) ==
  /\ \A k \in 1 .. n : ~IsEdit(log[k]) => c[k] = c[log[k].target - 1]
  /\ \A m \in 0 .. n : \A k \in 1 .. m :
       IsUndo(log, m, k) \/ IsRedo(log, m, k) => c[m] = c[k]

\* Each receipt of a list left the canvas as it was before the next, and the last of
\* them as it is.
Chained(order, n, c) ==
  /\ order \in Seq(1 .. n)
  /\ order # << >> => c[n] = c[order[Len(order)]]
  /\ \A k \in 1 .. Len(order) - 1 : c[order[k + 1] - 1] = c[order[k]]

LEMMA UndoChained ==
  ASSUME NEW n \in Nat, NEW log, LogSound(log, n), NEW c, Retraces(log, n, c),
         NEW order, Lists(order, OpenAt(log, n))
  PROVE  Chained(order, n, c)
<1>1. OpenAt(log, n) \subseteq 1 .. n
  BY HeadsRange
<1>2. /\ order \in Seq(Nat) /\ Len(order) \in Nat
      /\ \A k, l \in 1 .. Len(order) : k < l => order[k] < order[l]
      /\ \A k \in 1 .. Len(order) : order[k] \in OpenAt(log, n) /\ order[k] \in 1 .. n
      /\ \A o \in OpenAt(log, n) : \E k \in 1 .. Len(order) : o = order[k]
  <2>1. /\ order \in Seq(Nat)
        /\ \A k, l \in 1 .. Len(order) : k < l => order[k] < order[l]
    BY DEF Lists
  <2>2. /\ \A k \in 1 .. Len(order) : order[k] \in OpenAt(log, n)
        /\ \A o \in OpenAt(log, n) : \E k \in 1 .. Len(order) : o = order[k]
    BY ListRange
  <2> QED  BY <1>1, <2>1, <2>2
<1>3. order \in Seq(1 .. n)
  <2>1. PICK p \in Nat : p = Len(order)
    BY <1>2
  <2>2. order = [k \in 1 .. p |-> order[k]]
    BY <1>2, <2>1
  <2>3. \A k \in 1 .. p : order[k] \in 1 .. n
    BY <1>2, <2>1
  <2>4. order \in [1 .. p -> 1 .. n]
    BY <2>2, <2>3, Zenon
  <2> QED  BY <2>1, <2>4, SeqDef, Zenon
<1>4. ASSUME order # << >>  PROVE c[n] = c[order[Len(order)]]
  <2>1. Len(order) \in 1 .. Len(order)
    BY <1>2, <1>4
  <2>2. \A l \in OpenAt(log, n) : l =< order[Len(order)]
    <3> SUFFICES ASSUME NEW k \in 1 .. Len(order)  PROVE order[k] =< order[Len(order)]
      BY <1>2
    <3>1. order[k] \in Nat /\ order[Len(order)] \in Nat
      BY <1>2, <2>1
    <3> QED  BY <1>2, <2>1, <3>1
  <2>3. IsUndo(log, n, order[Len(order)]) /\ order[Len(order)] \in 1 .. n
    BY <1>2, <2>1, <2>2 DEF IsUndo
  <2>4. c[n] = c[order[Len(order)]]
    BY <1>1, <2>3 DEF Retraces
  <2> QED  BY <2>4
<1>5. ASSUME NEW k \in 1 .. Len(order) - 1  PROVE c[order[k + 1] - 1] = c[order[k]]
  <2>1. k \in 1 .. Len(order) /\ k + 1 \in 1 .. Len(order)
    BY <1>2
  <2>2. PICK o, a : o = order[k + 1] /\ a = order[k]
    OBVIOUS
  <2>3. /\ o \in OpenAt(log, n) /\ o \in 1 .. n
        /\ a \in OpenAt(log, n) /\ a \in 1 .. n /\ a < o
    BY <1>2, <2>1, <2>2
  <2>4. OpenAt(log, o - 1) = { l \in OpenAt(log, n) : l < o }
    BY <1>1, <2>3, OpenBefore
  <2>5. ASSUME NEW l \in OpenAt(log, n), l < o  PROVE l =< a
    <3>1. PICK m \in 1 .. Len(order) : l = order[m]
      BY <1>2
    <3>2. m =< k
      <4>1. l \in Nat /\ o \in Nat
        BY <1>2, <2>3, <3>1
      <4>2. m = k + 1 => l = o
        BY <2>2, <3>1
      <4>3. k + 1 < m => o < l
        BY <1>2, <2>1, <2>2, <3>1
      <4> QED  BY <2>5, <4>1, <4>2, <4>3
    <3>3. m < k => l < a
      BY <1>2, <2>1, <2>2, <3>1
    <3>4. m = k => l = a
      BY <2>2, <3>1
    <3> QED  BY <1>2, <2>3, <3>1, <3>2, <3>3, <3>4, SMTT(30)
  <2>6. IsUndo(log, o - 1, a)
    BY <2>3, <2>4, <2>5 DEF IsUndo
  <2>7. o - 1 \in 0 .. n /\ a \in 1 .. o - 1
    BY <1>1, <2>3
  <2> QED  BY <2>2, <2>6, <2>7 DEF Retraces
<1> QED  BY <1>3, <1>4, <1>5 DEF Chained

LEMMA RedoChained ==
  ASSUME NEW n \in Nat, NEW log, LogSound(log, n), NEW c, Retraces(log, n, c),
         NEW redo, RedoSound(log, n, redo)
  PROVE  Chained(redo, n, c)
<1> DEFINE waiting == { u \in OpenUndosAt(log, n) : ~Edited(log, u, n) }
<1>2. Lists(redo, waiting) /\ redo \in Seq(1 .. n)
  BY DEF RedoSound, Lists
<1>3. /\ Len(redo) \in Nat
      /\ \A k, l \in 1 .. Len(redo) : k < l => redo[k] < redo[l]
      /\ \A k \in 1 .. Len(redo) : redo[k] \in waiting /\ redo[k] \in Nat
      /\ \A u \in waiting : \E k \in 1 .. Len(redo) : u = redo[k]
  <2> HIDE DEF waiting
  <2> QED  BY <1>2, ListRange
<1>4. \A k \in 1 .. Len(redo) : /\ redo[k] \in OpenUndosAt(log, n)
                                /\ ~Edited(log, redo[k], n)
                                /\ redo[k] \in 1 .. n
  BY <1>3 DEF OpenUndosAt
<1>5. ASSUME redo # << >>  PROVE c[n] = c[redo[Len(redo)]]
  <2>1. IsRedo(log, n, redo[Len(redo)]) /\ Len(redo) \in 1 .. Len(redo)
    BY <1>3, <1>5, PlannerRedo
  <2> QED  BY <1>4, <2>1 DEF Retraces
<1>6. ASSUME NEW k \in 1 .. Len(redo) - 1  PROVE c[redo[k + 1] - 1] = c[redo[k]]
  <2>1. k \in 1 .. Len(redo) /\ k + 1 \in 1 .. Len(redo)
    BY <1>3
  <2>2. PICK u, v : u = redo[k + 1] /\ v = redo[k]
    OBVIOUS
  <2>3. /\ u \in OpenUndosAt(log, n) /\ ~Edited(log, u, n)
        /\ v \in OpenUndosAt(log, n) /\ ~Edited(log, v, n)
        /\ u \in 1 .. n /\ v \in 1 .. n /\ v < u
    BY <1>3, <1>4, <2>1, <2>2
  <2>4. ASSUME NEW w \in OpenUndosAt(log, n), ~Edited(log, w, n), w < u
        PROVE  w =< v
    <3>1. PICK m \in 1 .. Len(redo) : w = redo[m]
      BY <1>3, <2>4
    <3>2. m =< k
      <4>1. w \in Nat /\ u \in Nat
        BY <1>3, <2>3, <3>1
      <4>2. m = k + 1 => w = u
        BY <2>2, <3>1
      <4>3. k + 1 < m => u < w
        BY <1>3, <2>1, <2>2, <3>1
      <4> QED  BY <2>4, <4>1, <4>2, <4>3
    <3>3. m < k => w < v
      BY <1>3, <2>1, <2>2, <3>1
    <3>4. m = k => w = v
      BY <2>2, <3>1
    <3> QED  BY <1>3, <2>3, <3>1, <3>2, <3>3, <3>4
  <2>5. IsRedo(log, u - 1, v)
    BY <2>3, <2>4, RedoBefore
  <2>6. u - 1 \in 0 .. n /\ v \in 1 .. u - 1
    BY <2>3
  <2> QED  BY <2>2, <2>5, <2>6 DEF Retraces
<1> QED  BY <1>2, <1>5, <1>6 DEF Chained

\* The canvases undo goes back to, the last one first, and redo forward to, the
\* first one first, when they name the receipts of a list.
Behind(c, order) == [k \in 1 .. Len(order) |-> c[order[k] - 1]]

Ahead(c, order) == [k \in 1 .. Len(order) |-> c[order[Len(order) - k + 1] - 1]]

\* The canvases after one more receipt.
Longer(c, d, n) == \A k \in 0 .. n : d[k] = c[k]

\* order lists receipts among the first n, and c the canvases around those.
Marks(order, c, n, S) == c \in [0 .. n -> S] /\ order \in Seq(1 .. n)

LEMMA DocumentsType ==
  ASSUME NEW n \in Nat, NEW S, NEW c, NEW order, Marks(order, c, n, S)
  PROVE  /\ Behind(c, order) \in Seq(S) /\ Len(Behind(c, order)) = Len(order)
         /\ Ahead(c, order) \in Seq(S) /\ Len(Ahead(c, order)) = Len(order)
<1> USE DEF Marks
<1>1. PICK p \in Nat : p = Len(order)
  OBVIOUS
<1>2. \A k \in 1 .. p : order[k] - 1 \in 0 .. n
  BY <1>1
<1>3. \A k \in 1 .. p : p - k + 1 \in 1 .. p
  OBVIOUS
<1>4. \A k \in 1 .. p : c[order[k] - 1] \in S /\ c[order[p - k + 1] - 1] \in S
  BY <1>2, <1>3
<1>5. /\ Behind(c, order) \in [1 .. p -> S]
      /\ Ahead(c, order) \in [1 .. p -> S]
  BY <1>1, <1>4 DEF Behind, Ahead
<1>6. \A s \in [1 .. p -> S] : s \in Seq(S) /\ Len(s) = p
  OBVIOUS
<1> QED  BY <1>1, <1>5, <1>6, Zenon

LEMMA FrontIs ==
  ASSUME NEW S, NEW s \in Seq(S), s # << >>
  PROVE  /\ Front(s) \in Seq(S)
         /\ Len(Front(s)) = Len(s) - 1
         /\ \A k \in 1 .. Len(s) - 1 : Front(s)[k] = s[k]
<1>1. PICK n : n = Len(s) - 1
  OBVIOUS
<1>2. n \in Nat /\ Len(s) \in Nat /\ \A k \in 1 .. n : s[k] \in S
  BY <1>1
<1>3. /\ SubSeq(s, 1, n) \in Seq(S)
      /\ Len(SubSeq(s, 1, n)) = IF 1 <= n THEN n - 1 + 1 ELSE 0
      /\ \A k \in 1 .. n - 1 + 1 : SubSeq(s, 1, n)[k] = s[1 + k - 1]
  <2>1. 1 \in Int /\ n \in Int
    BY <1>2
  <2> QED  BY <1>2, <2>1, SubSeqProperties
<1>4. Front(s) = SubSeq(s, 1, n)
  BY <1>1, Zenon DEF Front
<1>5. PICK r : r = SubSeq(s, 1, n)
  OBVIOUS
<1>6. r \in Seq(S) /\ Len(r) = n /\ \A k \in 1 .. n : r[k] = s[k]
  <2>1. /\ r \in Seq(S)
        /\ Len(r) = IF 1 <= n THEN n - 1 + 1 ELSE 0
        /\ \A k \in 1 .. n - 1 + 1 : r[k] = s[1 + k - 1]
    BY <1>3, <1>5, Zenon
  <2> QED  BY <1>2, <2>1
<1> QED  BY <1>1, <1>4, <1>5, <1>6, Zenon

OneLonger(g, s, e) ==
  /\ Len(g) = Len(s) + 1 /\ g[Len(s) + 1] = e
  /\ \A k \in 1 .. Len(s) : g[k] = s[k]
  /\ g = [k \in 1 .. Len(s) + 1 |-> g[k]]

LEMMA AppendIs ==
  ASSUME NEW S, NEW s \in Seq(S), NEW e \in S
  PROVE  Append(s, e) \in Seq(S) /\ OneLonger(Append(s, e), s, e)
<1> DEFINE g == Append(s, e)
<1>1. g \in Seq(S) /\ Len(g) = Len(s) + 1 /\ g[Len(s) + 1] = e
      /\ \A k \in 1 .. Len(s) : g[k] = s[k]
  OBVIOUS
<1> HIDE DEF g
<1>2. g = [k \in 1 .. Len(s) + 1 |-> g[k]]
  <2>1. g = [k \in 1 .. Len(g) |-> g[k]]
    BY <1>1
  <2>2. Len(g) = Len(s) + 1
    BY <1>1
  <2> QED  BY <2>1, <2>2, Zenon
<1> QED  BY <1>1, <1>2 DEF g, OneLonger

LEMMA BehindGrown ==
  ASSUME NEW n \in Nat, NEW S, NEW c, NEW order, Marks(order, c, n, S),
         NEW d, Longer(c, d, n), NEW m \in 1 .. n + 1
  PROVE  Behind(d, Append(order, m)) = Append(Behind(c, order), c[m - 1])
<1> DEFINE longer == Append(order, m)
<1> USE DEF Marks
<1>1. PICK p \in Nat : p = Len(order)
  OBVIOUS
<1>2. /\ Len(longer) = p + 1 /\ longer[p + 1] = m
      /\ \A k \in 1 .. p : longer[k] = order[k] /\ order[k] \in 1 .. n /\ order[k] - 1 \in 0 .. n
  BY <1>1
<1> HIDE DEF longer, Marks
<1>3. PICK b : b = Behind(c, order)
  OBVIOUS
<1>4. b \in Seq(S) /\ Len(b) = p
  <2>1. Behind(c, order) \in Seq(S) /\ Len(Behind(c, order)) = Len(order)
    BY DocumentsType
  <2> QED  BY <1>1, <1>3, <2>1
<1>5. \A k \in 1 .. p : b[k] = c[order[k] - 1]
  BY <1>1, <1>3 DEF Behind
<1>6. PICK e \in S : e = c[m - 1]
  BY DEF Marks
<1>7. PICK g : g = Append(b, e)
  OBVIOUS
<1>8. /\ g = [k \in 1 .. p + 1 |-> g[k]] /\ g[p + 1] = e
      /\ \A k \in 1 .. p : g[k] = b[k]
  <2>1. /\ Len(b) \in Nat /\ g[Len(b) + 1] = e
        /\ \A k \in 1 .. Len(b) : g[k] = b[k]
        /\ g = [k \in 1 .. Len(b) + 1 |-> g[k]]
    <3>1. OneLonger(Append(b, e), b, e) /\ Len(b) \in Nat
      BY <1>4, AppendIs
    <3> QED  BY <1>7, <3>1 DEF OneLonger
  <2> QED  BY <1>4, <2>1, Zenon
<1>9. Behind(d, longer) = [k \in 1 .. p + 1 |-> d[longer[k] - 1]]
  BY <1>2 DEF Behind
<1>10. ASSUME NEW k \in 1 .. p + 1  PROVE d[longer[k] - 1] = g[k]
  <2>1. CASE k = p + 1
    <3>1. longer[k] - 1 = m - 1 /\ m - 1 \in 0 .. n
      BY <1>2, <2>1
    <3> QED  BY <1>6, <1>8, <2>1, <3>1 DEF Longer
  <2>2. CASE k \in 1 .. p
    <3>1. longer[k] = order[k] /\ order[k] - 1 \in 0 .. n
      BY <1>2, <2>2
    <3>2. g[k] = c[order[k] - 1]
      BY <1>5, <1>8, <2>2
    <3> QED  BY <3>1, <3>2 DEF Longer
  <2>3. k = p + 1 \/ k \in 1 .. p
    OBVIOUS
  <2> QED  BY <2>1, <2>2, <2>3
<1>11. [k \in 1 .. p + 1 |-> d[longer[k] - 1]] = [k \in 1 .. p + 1 |-> g[k]]
  BY <1>10, Zenon
<1> QED  BY <1>3, <1>6, <1>7, <1>8, <1>9, <1>11, Zenon DEF longer

LEMMA AheadGrown ==
  ASSUME NEW n \in Nat, NEW S, NEW c, NEW order, Marks(order, c, n, S),
         NEW d, Longer(c, d, n), NEW m \in 1 .. n + 1
  PROVE  Ahead(d, Append(order, m)) = <<c[m - 1]>> \o Ahead(c, order)
<1> DEFINE longer == Append(order, m)
<1> USE DEF Marks
<1>1. PICK p \in Nat : p = Len(order)
  OBVIOUS
<1>2. /\ Len(longer) = p + 1 /\ longer[p + 1] = m
      /\ \A k \in 1 .. p : longer[k] = order[k] /\ order[k] \in 1 .. n /\ order[k] - 1 \in 0 .. n
  BY <1>1
<1> HIDE DEF longer, Marks
<1>3. PICK b : b = Ahead(c, order)
  OBVIOUS
<1>4. b \in Seq(S) /\ Len(b) = p
  BY <1>1, <1>3, DocumentsType
<1>5. \A k \in 1 .. p : b[k] = c[order[p - k + 1] - 1]
  BY <1>1, <1>3 DEF Ahead
<1>6. PICK g : g = <<c[m - 1]>> \o b
  OBVIOUS
<1>7. /\ g \in Seq(S) /\ Len(g) = p + 1 /\ g[1] = c[m - 1]
      /\ \A k \in 2 .. p + 1 : g[k] = b[k - 1]
  <2>1. c[m - 1] \in S
    BY DEF Marks
  <2> QED  BY <1>4, <1>6, <2>1
<1>8. g = [k \in 1 .. p + 1 |-> g[k]]
  BY <1>7
<1>9. Ahead(d, longer) = [k \in 1 .. p + 1 |-> d[longer[p + 1 - k + 1] - 1]]
  BY <1>2 DEF Ahead
<1>10. ASSUME NEW k \in 1 .. p + 1  PROVE d[longer[p + 1 - k + 1] - 1] = g[k]
  <2>1. CASE k = 1
    <3>1. longer[p + 1 - k + 1] - 1 = m - 1 /\ m - 1 \in 0 .. n
      BY <1>2, <2>1
    <3> QED  BY <1>7, <2>1, <3>1 DEF Longer
  <2>2. CASE k # 1
    <3>1. k \in 2 .. p + 1 /\ k - 1 \in 1 .. p /\ p + 1 - k + 1 = p - (k - 1) + 1
          /\ p - (k - 1) + 1 \in 1 .. p
      BY <2>2
    <3>2. g[k] = c[order[p - (k - 1) + 1] - 1]
      BY <1>5, <1>7, <3>1
    <3> QED  BY <1>2, <3>1, <3>2 DEF Longer
  <2> QED  BY <2>1, <2>2
<1>11. [k \in 1 .. p + 1 |-> d[longer[p + 1 - k + 1] - 1]] = [k \in 1 .. p + 1 |-> g[k]]
  BY <1>10, Zenon
<1> QED  BY <1>3, <1>6, <1>8, <1>9, <1>11, Zenon DEF longer

LEMMA DocumentsKept ==
  ASSUME NEW n \in Nat, NEW S, NEW c, NEW order, Marks(order, c, n, S),
         NEW d, Longer(c, d, n)
  PROVE  Behind(d, order) = Behind(c, order) /\ Ahead(d, order) = Ahead(c, order)
<1> USE DEF Marks
<1>1. PICK p \in Nat : p = Len(order)
  OBVIOUS
<1>2. \A k \in 1 .. p : order[k] - 1 \in 0 .. n
  BY <1>1
<1>3. \A k \in 1 .. p : p - k + 1 \in 1 .. p
  OBVIOUS
<1>4. /\ \A k \in 1 .. p : d[order[k] - 1] = c[order[k] - 1]
      /\ \A k \in 1 .. p : d[order[p - k + 1] - 1] = c[order[p - k + 1] - 1]
  BY <1>2, <1>3 DEF Longer
<1>5. Behind(d, order) = Behind(c, order)
  BY <1>1, <1>4, Zenon DEF Behind
<1>6. Ahead(d, order) = Ahead(c, order)
  BY <1>1, <1>4, Zenon DEF Ahead
<1> QED  BY <1>5, <1>6

\* What a list of documents is after its last, or before its first.
LEMMA EndsOf ==
  ASSUME NEW S, NEW s \in Seq(S), NEW e \in S
  PROVE  /\ Append(s, e) # << >> /\ <<e>> \o s # << >>
         /\ Front(Append(s, e)) = s /\ Last(Append(s, e)) = e
         /\ Head(<<e>> \o s) = e /\ Tail(<<e>> \o s) = s
<1>1. PICK a, b : a = Append(s, e) /\ b = <<e>> \o s
  OBVIOUS
<1>2. /\ a \in Seq(S) /\ Len(a) = Len(s) + 1 /\ a[Len(s) + 1] = e
      /\ \A k \in 1 .. Len(s) : a[k] = s[k]
  <2>1. Append(s, e) \in Seq(S) /\ OneLonger(Append(s, e), s, e)
    BY AppendIs
  <2> QED  BY <1>1, <2>1 DEF OneLonger
<1>3. /\ b \in Seq(S) /\ Len(b) = Len(s) + 1 /\ b[1] = e
      /\ \A k \in 1 .. Len(s) : b[k + 1] = s[k]
  BY <1>1
<1>4. a # << >> /\ b # << >> /\ Last(a) = e
  BY <1>2, <1>3 DEF Last
<1>5. Front(a) = s
  BY <1>2, <1>4, FrontIs DEF Front
<1>6. Head(b) = e /\ Tail(b) = s
  <2>1. Head(b) = e
    BY <1>3
  <2>2. Tail(b) \in Seq(S) /\ Len(Tail(b)) = Len(s)
    BY <1>3, <1>4
  <2>3. \A k \in 1 .. Len(s) : Tail(b)[k] = s[k]
    BY <1>3, <1>4
  <2> QED  BY <2>1, <2>2, <2>3
<1> QED  BY <1>1, <1>4, <1>5, <1>6

LEMMA FrontAndLast ==
  ASSUME NEW S, NEW s \in Seq(S), s # << >>, NEW left, left = Front(s)
  PROVE  /\ left \in Seq(S) /\ Len(left) = Len(s) - 1
         /\ \A k \in 1 .. Len(s) - 1 : left[k] = s[k]
         /\ s[Len(s)] \in S
         /\ s = Append(left, s[Len(s)])
<1>1. /\ left \in Seq(S) /\ Len(left) = Len(s) - 1
      /\ \A k \in 1 .. Len(s) - 1 : left[k] = s[k]
  BY FrontIs, Zenon
<1>2. Len(s) \in 1 .. Len(s) /\ s[Len(s)] \in S
  OBVIOUS
<1>3. PICK g : g = Append(left, s[Len(s)])
  OBVIOUS
<1>4. /\ g \in Seq(S) /\ Len(g) = Len(left) + 1 /\ g[Len(left) + 1] = s[Len(s)]
      /\ \A k \in 1 .. Len(left) : g[k] = left[k]
  <2>1. Append(left, s[Len(s)]) \in Seq(S) /\ OneLonger(Append(left, s[Len(s)]), left, s[Len(s)])
    BY <1>1, <1>2, AppendIs
  <2> QED  BY <1>3, <2>1 DEF OneLonger
<1>5. Len(g) = Len(s) /\ \A k \in 1 .. Len(s) : g[k] = s[k]
  BY <1>1, <1>2, <1>4
<1>6. g = s
  BY <1>4, <1>5
<1> QED  BY <1>1, <1>2, <1>3, <1>6

\* A list without its last and greatest number.
LEMMA ListShrunk ==
  ASSUME NEW S, NEW s, Lists(s, S), Len(s) # 0, NEW left \in Seq(Nat),
         Len(left) = Len(s) - 1, \A k \in 1 .. Len(s) - 1 : left[k] = s[k]
  PROVE  /\ Lists(left, S \ {s[Len(s)]})
         /\ s[Len(s)] \in S /\ \A k \in S : k =< s[Len(s)]
<1>1. PICK p \in Nat \ {0} : p = Len(s)
  BY DEF Lists
<1>2. /\ s \in Seq(Nat)
      /\ \A k, l \in 1 .. p : k < l => s[k] < s[l]
      /\ \A k \in 1 .. p : s[k] \in S /\ s[k] \in Nat
      /\ \A e \in S : \E k \in 1 .. p : e = s[k]
  <2>1. s \in Seq(Nat) /\ \A k, l \in 1 .. Len(s) : k < l => s[k] < s[l]
    BY DEF Lists
  <2>2. /\ \A k \in 1 .. Len(s) : s[k] \in S
        /\ \A e \in S : \E k \in 1 .. Len(s) : e = s[k]
    BY ListRange
  <2>3. \A k \in 1 .. p : s[k] \in Nat
    BY <1>1, <2>1
  <2> QED  BY <1>1, <2>1, <2>2, <2>3, Zenon
<1>3. /\ p \in 1 .. p
      /\ \A k \in 1 .. p - 1 : k \in 1 .. p /\ k < p
      /\ \A k \in 1 .. p : k # p => k \in 1 .. p - 1
      /\ \A k, l \in 1 .. p - 1 : k \in 1 .. p /\ l \in 1 .. p
  OBVIOUS
<1>4. Len(left) = p - 1 /\ \A k \in 1 .. p - 1 : left[k] = s[k]
  BY <1>1
<1>5. \A k \in 1 .. p - 1 : s[k] < s[p] /\ s[k] # s[p]
  BY <1>2, <1>3
<1>6. \A e \in S : e =< s[p]
  <2> SUFFICES ASSUME NEW k \in 1 .. p  PROVE s[k] =< s[p]
    BY <1>2
  <2> QED  BY <1>2, <1>3, <1>5
<1>7. \A k, l \in 1 .. Len(left) : k < l => left[k] < left[l]
  BY <1>2, <1>3, <1>4
<1>8. { left[k] : k \in 1 .. Len(left) } = S \ {s[p]}
  <2>1. ASSUME NEW e \in { left[k] : k \in 1 .. Len(left) }  PROVE e \in S \ {s[p]}
    <3>1. PICK k \in 1 .. p - 1 : e = left[k]
      BY <1>4
    <3> QED  BY <1>2, <1>3, <1>4, <1>5, <3>1
  <2>2. ASSUME NEW e \in S \ {s[p]}  PROVE e \in { left[k] : k \in 1 .. Len(left) }
    <3>1. PICK k \in 1 .. p : e = s[k] /\ k # p
      BY <1>2
    <3> QED  BY <1>3, <1>4, <3>1
  <2> QED  BY <2>1, <2>2
<1>9. Lists(left, S \ {s[p]})
  BY <1>7, <1>8 DEF Lists
<1> QED  BY <1>1, <1>2, <1>3, <1>6, <1>9

\* What undo will name after one more receipt.
LEMMA OrderStep ==
  ASSUME NEW n \in Nat, NEW log, NEW longer, Alike(log, longer, n), LogSound(longer, n + 1),
         NEW order \in Seq(1 .. n), Lists(order, OpenAt(log, n)),
         NEW next, Lists(next, OpenAt(longer, n + 1))
  PROVE  /\ longer[n + 1].action # "undo" => next = Append(order, n + 1)
         /\ longer[n + 1].action = "undo" =>
              /\ order # << >>
              /\ next = Front(order)
              /\ order[Len(order)] = longer[n + 1].target
<1>1. PICK N \in Nat \ {0} : N = n + 1 /\ N - 1 = n
  OBVIOUS
<1>2. OpenAt(longer, n) = OpenAt(log, n)
  <2>1. n \in 0 .. n
    OBVIOUS
  <2> QED  BY <2>1, AlikeHistories
<1>3. OpenAt(log, n) \subseteq 1 .. n
  BY DEF OpenAt
<1>4. ASSUME longer[N].action # "undo"  PROVE next = Append(order, N)
  <2>1. OpenAt(longer, N) = OpenAt(log, n) \union {N}
    <3>1. CASE longer[N].action = "redo"
      BY <1>1, <1>2, <3>1, AfterRedo
    <3>2. CASE IsEdit(longer[N])
      BY <1>1, <1>2, <3>2, AfterEdit
    <3> QED  BY <1>4, <3>1, <3>2 DEF IsEdit
  <2>2. \A k \in OpenAt(log, n) : k < N
    BY <1>1, <1>3
  <2>3. Lists(Append(order, N), OpenAt(log, n) \union {N})
    BY <2>2, ListGrown
  <2> QED  BY <1>1, <2>1, <2>3, OneList
<1>5. ASSUME longer[N].action = "undo"
      PROVE  order # << >> /\ next = Front(order) /\ order[Len(order)] = longer[N].target
  <2>1. PICK t : t = longer[N].target
    OBVIOUS
  <2>2. t \in OpenAt(log, n) /\ OpenAt(longer, N) = OpenAt(log, n) \ {t}
    BY <1>1, <1>2, <1>5, <2>1, AfterUndo
  <2>3. \A l \in OpenAt(log, n) : l =< t
    <3>1. NamesSoundly(longer, N)
      BY <1>1 DEF LogSound
    <3> QED  BY <1>1, <1>2, <1>5, <2>1, <3>1 DEF NamesSoundly, IsUndo, IsEdit
  <2>4. order # << >> /\ Len(order) # 0
    <3>1. \E k \in 1 .. Len(order) : t = order[k]
      BY <2>2, ListRange
    <3> QED  BY <3>1
  <2>5. PICK left : left = Front(order)
    OBVIOUS
  <2>6. /\ left \in Seq(1 .. n) /\ Len(left) = Len(order) - 1
        /\ \A k \in 1 .. Len(order) - 1 : left[k] = order[k]
    BY <2>4, <2>5, FrontAndLast, SMTT(30)
  <2>7. left \in Seq(Nat)
    BY <2>6
  <2>8. /\ Lists(left, OpenAt(log, n) \ {order[Len(order)]})
        /\ order[Len(order)] \in OpenAt(log, n)
        /\ \A l \in OpenAt(log, n) : l =< order[Len(order)]
    BY <2>4, <2>6, <2>7, ListShrunk
  <2>9. order[Len(order)] = t
    BY <1>3, <2>2, <2>3, <2>8
  <2>10. next = left
    BY <1>1, <2>2, <2>8, <2>9, OneList
  <2> QED  BY <2>1, <2>4, <2>5, <2>9, <2>10
<1> QED  BY <1>1, <1>4, <1>5

\* The receipt after the first n takes the canvases undo and redo lead to where the
\* history of edits takes them: an edit adds one behind and drops those ahead, undo
\* and redo each hand one over.
WalksOn(r, n, c, d, order, next, redo, left) ==
  /\ IsEdit(r) /\ left = << >> =>
       /\ Behind(d, next) = Append(Behind(c, order), c[n])
       /\ Ahead(d, left) = << >>
  /\ r.action = "undo" /\ left = Append(redo, n + 1) =>
       /\ Behind(c, order) # << >>
       /\ Behind(d, next) = Front(Behind(c, order))
       /\ d[n + 1] = Last(Behind(c, order))
       /\ Ahead(d, left) = <<c[n]>> \o Ahead(c, redo)
  /\ /\ r.action = "redo" /\ redo # << >> /\ left = Front(redo)
     /\ redo[Len(redo)] = r.target
     => /\ Ahead(c, redo) # << >>
        /\ Behind(d, next) = Append(Behind(c, order), c[n])
        /\ d[n + 1] = Head(Ahead(c, redo))
        /\ Ahead(d, left) = Tail(Ahead(c, redo))

LEMMA DocumentsStep ==
  ASSUME NEW n \in Nat, NEW S, NEW c, NEW d, Longer(c, d, n),
         NEW log, NEW longer, Alike(log, longer, n), LogSound(longer, n + 1),
         ~IsEdit(longer[n + 1]) => d[n + 1] = d[longer[n + 1].target - 1],
         NEW order, Marks(order, c, n, S), Lists(order, OpenAt(log, n)),
         NEW next, Lists(next, OpenAt(longer, n + 1)),
         NEW redo, Marks(redo, c, n, S), NEW left
  PROVE  WalksOn(longer[n + 1], n, c, d, order, next, redo, left)
<1>1. PICK N \in Nat \ {0} : N = n + 1 /\ N - 1 = n /\ N \in 1 .. n + 1
  OBVIOUS
<1>2. PICK t : t = longer[N].target
  OBVIOUS
<1>3. ~IsEdit(longer[N]) => t \in 1 .. n /\ t - 1 \in 0 .. n /\ t \in 1 .. n + 1
  <2>1. LogSound(longer, N) /\ N \in Nat /\ N \in 1 .. N /\ 1 .. N - 1 = 1 .. n
    BY <1>1
  <2>2. ~IsEdit(longer[N]) => longer[N].target \in 1 .. N - 1
    BY <2>1, Names DEF IsEdit
  <2> QED  BY <1>2, <2>1, <2>2
<1>4. /\ order \in Seq(1 .. n) /\ redo \in Seq(1 .. n)
      /\ \A k \in 0 .. n : c[k] \in S
  BY DEF Marks
<1>5. ~IsEdit(longer[N]) => d[N] = c[t - 1] /\ c[t - 1] \in S
  BY <1>1, <1>2, <1>3, <1>4 DEF Longer
<1>6. /\ longer[N].action # "undo" => next = Append(order, N)
      /\ longer[N].action = "undo" =>
           order # << >> /\ next = Front(order) /\ order[Len(order)] = t
  <2>1. /\ longer[n + 1].action # "undo" => next = Append(order, n + 1)
        /\ longer[n + 1].action = "undo" =>
             /\ order # << >>
             /\ next = Front(order)
             /\ order[Len(order)] = longer[n + 1].target
    BY <1>4, OrderStep
  <2> QED  BY <1>1, <1>2, <2>1
<1>7. longer[N].action # "undo" => Behind(d, next) = Append(Behind(c, order), c[n])
  <2>1. Behind(d, Append(order, N)) = Append(Behind(c, order), c[N - 1])
    BY <1>1, BehindGrown
  <2> QED  BY <1>1, <1>6, <2>1
<1>8. Longer(c, c, n)
  BY DEF Longer
<1>9. CASE longer[N].action = "undo" /\ left = Append(redo, N)
  <2>1. ~IsEdit(longer[N])
    BY <1>9 DEF IsEdit
  <2>2. next \in Seq(1 .. n) /\ order = Append(next, t)
    <3>1. order # << >> /\ next = Front(order) /\ order[Len(order)] = t
      BY <1>6, <1>9
    <3>2. /\ Front(order) \in Seq(1 .. n)
          /\ order = Append(Front(order), order[Len(order)])
      BY <1>4, <3>1, FrontAndLast, Zenon
    <3> QED  BY <3>1, <3>2, Zenon
  <2>3. Marks(next, c, n, S)
    BY <2>2 DEF Marks
  <2>4. Behind(c, order) = Append(Behind(c, next), c[t - 1])
    <3>1. Longer(c, c, n) /\ Marks(next, c, n, S) /\ t \in 1 .. n + 1
      BY <1>3, <1>8, <2>1, <2>3, Zenon
    <3>2. Behind(c, Append(next, t)) = Append(Behind(c, next), c[t - 1])
      BY <3>1, BehindGrown
    <3> QED  BY <2>2, <3>2, Zenon
  <2>5. Behind(d, next) = Behind(c, next) /\ Behind(c, next) \in Seq(S)
    BY <2>3, DocumentsKept, DocumentsType
  <2>6. /\ Behind(c, order) # << >>
        /\ Behind(d, next) = Front(Behind(c, order))
        /\ d[N] = Last(Behind(c, order))
    <3>1. PICK b, e : b = Behind(c, next) /\ e = c[t - 1]
      OBVIOUS
    <3>2. b \in Seq(S) /\ e \in S
      BY <1>5, <2>1, <2>5, <3>1
    <3>3. Append(b, e) # << >> /\ Front(Append(b, e)) = b /\ Last(Append(b, e)) = e
      BY <3>2, EndsOf, Zenon
    <3>4. d[N] = e /\ Behind(c, order) = Append(b, e) /\ Behind(d, next) = b
      BY <1>5, <2>1, <2>4, <2>5, <3>1
    <3> QED  BY <3>3, <3>4, Zenon
  <2>7. Ahead(d, left) = <<c[n]>> \o Ahead(c, redo)
    <3>1. Ahead(d, Append(redo, N)) = <<c[N - 1]>> \o Ahead(c, redo)
      BY <1>1, AheadGrown
    <3> QED  BY <1>1, <1>9, <3>1
  <2> QED  BY <1>1, <1>9, <2>1, <2>6, <2>7 DEF WalksOn, IsEdit
<1>10. CASE /\ longer[N].action = "redo" /\ redo # << >> /\ left = Front(redo)
            /\ redo[Len(redo)] = t
  <2>1. ~IsEdit(longer[N])
    BY <1>10 DEF IsEdit
  <2>2. left \in Seq(1 .. n) /\ redo = Append(left, t)
    <3>1. /\ Front(redo) \in Seq(1 .. n)
          /\ redo = Append(Front(redo), redo[Len(redo)])
      BY <1>4, <1>10, FrontAndLast, Zenon
    <3> QED  BY <1>10, <3>1, Zenon
  <2>3. Marks(left, c, n, S)
    BY <2>2 DEF Marks
  <2>4. Ahead(c, redo) = <<c[t - 1]>> \o Ahead(c, left)
    <3>1. Longer(c, c, n) /\ Marks(left, c, n, S) /\ t \in 1 .. n + 1
      BY <1>3, <1>8, <2>1, <2>3, Zenon
    <3>2. Ahead(c, Append(left, t)) = <<c[t - 1]>> \o Ahead(c, left)
      BY <3>1, AheadGrown
    <3> QED  BY <2>2, <3>2, Zenon
  <2>5. Ahead(d, left) = Ahead(c, left) /\ Ahead(c, left) \in Seq(S)
    BY <2>3, DocumentsKept, DocumentsType
  <2>6. /\ Ahead(c, redo) # << >>
        /\ Ahead(d, left) = Tail(Ahead(c, redo))
        /\ d[N] = Head(Ahead(c, redo))
    <3>1. PICK b, e : b = Ahead(c, left) /\ e = c[t - 1]
      OBVIOUS
    <3>2. b \in Seq(S) /\ e \in S
      BY <1>5, <2>1, <2>5, <3>1
    <3>3. <<e>> \o b # << >> /\ Head(<<e>> \o b) = e /\ Tail(<<e>> \o b) = b
      BY <3>2, EndsOf, Zenon
    <3>4. d[N] = e /\ Ahead(c, redo) = <<e>> \o b /\ Ahead(d, left) = b
      BY <1>5, <2>1, <2>4, <2>5, <3>1
    <3> QED  BY <3>3, <3>4, Zenon
  <2> QED  BY <1>1, <1>7, <1>10, <2>1, <2>6 DEF WalksOn, IsEdit
<1>11. CASE IsEdit(longer[N]) /\ left = << >>
  <2>1. Ahead(d, << >>) = << >>
    BY DEF Ahead
  <2> QED  BY <1>1, <1>7, <1>11, <2>1 DEF IsEdit, WalksOn
<1>12. longer[N] = longer[n + 1] /\ Append(redo, N) = Append(redo, n + 1) /\ d[N] = d[n + 1]
  BY <1>1
<1> QED  BY <1>2, <1>9, <1>10, <1>11, <1>12 DEF IsEdit, WalksOn

LEMMA OneStack ==
  ASSUME NEW log, NEW n \in Nat, NEW s, RedoSound(log, n, s), NEW t, RedoSound(log, n, t)
  PROVE  s = t
<1> DEFINE waiting == { u \in OpenUndosAt(log, n) : ~Edited(log, u, n) }
<1>1. Lists(s, waiting) /\ Lists(t, waiting)
  BY DEF RedoSound, Lists
<1> QED  BY <1>1, OneList

\* What redo will name after one more receipt.
LEMMA StackStep ==
  ASSUME NEW n \in Nat, NEW log, NEW longer, Alike(log, longer, n), LogSound(longer, n + 1),
         NEW redo, RedoSound(log, n, redo), NEW left, RedoSound(longer, n + 1, left)
  PROVE  /\ IsEdit(longer[n + 1]) => left = << >>
         /\ longer[n + 1].action = "undo" => left = Append(redo, n + 1)
         /\ longer[n + 1].action = "redo" =>
              /\ redo # << >>
              /\ left = Front(redo)
              /\ redo[Len(redo)] = longer[n + 1].target
<1>1. PICK N \in Nat \ {0} : N = n + 1 /\ N - 1 = n /\ N \in 1 .. N
  OBVIOUS
<1>2. RedoSound(longer, N - 1, redo) /\ LogSound(longer, N) /\ RedoSound(longer, N, left)
  BY <1>1, RedoAlike
<1>3. CASE IsEdit(longer[N])
  <2>1. RedoSound(longer, N, << >>)
    BY <1>2, <1>3, RedoAfterEdit
  <2>2. left = << >>
    BY <1>2, <2>1, OneStack
  <2> QED  BY <1>1, <1>3, <2>2 DEF IsEdit
<1>4. CASE longer[N].action = "undo"
  <2>1. RedoSound(longer, N, Append(redo, N))
    BY <1>2, <1>4, RedoAfterUndo
  <2>2. left = Append(redo, N)
    BY <1>2, <2>1, OneStack
  <2> QED  BY <1>1, <1>4, <2>2 DEF IsEdit
<1>5. CASE longer[N].action = "redo"
  <2>1. PICK u : u = longer[N].target
    OBVIOUS
  <2>2. IsRedo(longer, n, u)
    <3>1. NamesSoundly(longer, N)
      BY <1>1, <1>2 DEF LogSound
    <3> QED  BY <1>1, <1>5, <2>1, <3>1 DEF NamesSoundly, IsEdit
  <2> DEFINE waiting == { v \in OpenUndosAt(longer, n) : ~Edited(longer, v, n) }
  <2>3. redo \in Seq(1 .. n) /\ Lists(redo, waiting)
    BY <1>1, <1>2 DEF RedoSound, Lists
  <2>4. u \in waiting /\ \A v \in waiting : v =< u /\ v \in Nat
    BY <2>2 DEF IsRedo, OpenUndosAt
  <2> HIDE DEF waiting
  <2>5. redo # << >> /\ Len(redo) # 0
    <3>1. \E k \in 1 .. Len(redo) : u = redo[k]
      BY <2>3, <2>4, ListRange
    <3> QED  BY <3>1
  <2>6. PICK rest : rest = Front(redo)
    OBVIOUS
  <2>7. /\ rest \in Seq(1 .. n) /\ Len(rest) = Len(redo) - 1
        /\ \A k \in 1 .. Len(redo) - 1 : rest[k] = redo[k]
    BY <2>3, <2>5, <2>6, FrontAndLast, SMTT(30)
  <2>8. rest \in Seq(Nat)
    BY <2>7
  <2>9. /\ Lists(rest, waiting \ {redo[Len(redo)]})
        /\ redo[Len(redo)] \in waiting
        /\ \A v \in waiting : v =< redo[Len(redo)]
    BY <2>3, <2>5, <2>7, <2>8, ListShrunk
  <2>10. redo[Len(redo)] = u
    BY <2>4, <2>9
  <2>11. RedoSound(longer, N, rest)
    <3>1. /\ rest \in Seq(1 .. N - 1)
          /\ \A k, l \in 1 .. Len(rest) : k < l => rest[k] < rest[l]
          /\ { rest[k] : k \in 1 .. Len(rest) } = waiting \ {u}
      BY <1>1, <2>7, <2>9, <2>10 DEF Lists
    <3>2. waiting = { redo[k] : k \in 1 .. Len(redo) }
      BY <2>3 DEF Lists
    <3>3. { rest[k] : k \in 1 .. Len(rest) }
            = { redo[k] : k \in 1 .. Len(redo) } \ {longer[N].target}
      BY <2>1, <3>1, <3>2
    <3>4. Stacked(rest, N - 1, Elements(redo) \ {longer[N].target})
      BY <3>1, <3>3, Zenon DEF Stacked, Elements
    <3> QED  BY <1>2, <1>5, <3>4, RedoAfterRedo, Zenon
  <2>12. left = rest
    BY <1>2, <2>11, OneStack
  <2> QED  BY <1>1, <1>5, <2>1, <2>5, <2>6, <2>10, <2>12 DEF IsEdit
<1>6. longer[N] = longer[n + 1]
  BY <1>1
<1> QED  BY <1>3, <1>4, <1>5, <1>6 DEF IsEdit

\* A step of the history of edits: what lies behind, the present and what lies ahead.
GoesOn(p, x, f, behind, now, ahead) ==
  \/ /\ behind = Append(p, x)
     /\ ahead = << >>
  \/ /\ p # << >>
     /\ behind = Front(p)
     /\ now = Last(p)
     /\ ahead = <<x>> \o f
  \/ /\ f # << >>
     /\ behind = Append(p, x)
     /\ now = Head(f)
     /\ ahead = Tail(f)

\* Every receipt takes a step of it.
LEMMA DocumentsGoOn ==
  ASSUME NEW n \in Nat, NEW S, NEW c \in [0 .. n -> S], NEW d, Longer(c, d, n),
         NEW log, LogSound(log, n), NEW longer, Alike(log, longer, n),
         LogSound(longer, n + 1),
         ~IsEdit(longer[n + 1]) => d[n + 1] = d[longer[n + 1].target - 1],
         NEW order, Lists(order, OpenAt(log, n)),
         NEW next, Lists(next, OpenAt(longer, n + 1)),
         NEW redo, RedoSound(log, n, redo), NEW left, RedoSound(longer, n + 1, left)
  PROVE  GoesOn(Behind(c, order), c[n], Ahead(c, redo), Behind(d, next), d[n + 1], Ahead(d, left))
<1>1. Marks(order, c, n, S)
  <2>1. order \in Seq(Nat) /\ \A k \in 1 .. Len(order) : order[k] \in 1 .. n
    <3>1. OpenAt(log, n) \subseteq 1 .. n
      BY DEF OpenAt
    <3> QED  BY <3>1, ListRange DEF Lists
  <2>2. PICK p \in Nat : p = Len(order)
    BY <2>1
  <2>3. order = [k \in 1 .. p |-> order[k]]
    BY <2>1, <2>2
  <2>4. order \in [1 .. p -> 1 .. n]
    BY <2>1, <2>2, <2>3, Zenon
  <2>5. order \in Seq(1 .. n)
    BY <2>2, <2>4, SeqDef, ZenonT(40)
  <2> QED  BY <2>5 DEF Marks
<1>2. Marks(redo, c, n, S)
  BY DEF RedoSound, Marks
<1>3. WalksOn(longer[n + 1], n, c, d, order, next, redo, left)
  BY <1>1, <1>2, DocumentsStep
<1>4. /\ IsEdit(longer[n + 1]) => left = << >>
      /\ longer[n + 1].action = "undo" => left = Append(redo, n + 1)
      /\ longer[n + 1].action = "redo" =>
           /\ redo # << >>
           /\ left = Front(redo)
           /\ redo[Len(redo)] = longer[n + 1].target
  BY StackStep
<1>5. PICK r : r = longer[n + 1]
  OBVIOUS
<1>6. r.action = "undo" \/ r.action = "redo" \/ IsEdit(r)
  BY DEF IsEdit
<1> QED  BY <1>3, <1>4, <1>5, <1>6, Zenon DEF WalksOn, GoesOn

-----------------------------------------------------------------------------
(* The hierarchy of frames and what the commands do to it.                 *)

Hierarchy(objs) ==
  /\ \A i \in ActiveIn(objs) : objs[i].parent # None =>
       /\ objs[i].parent \in ActiveIn(objs)
       /\ objs[objs[i].parent].type = "frame"
  /\ \A i \in ActiveIn(objs) : i \notin Descendants(objs, i)

ClosedFrom(objs, j, S) ==
  /\ Children(objs, j) \subseteq S
  /\ \A g \in S : objs[g].type = "frame" => Children(objs, g) \subseteq S

LEMMA DescendantsWithin ==
  ASSUME NEW objs, NEW j, NEW S \in SUBSET ActiveIn(objs), ClosedFrom(objs, j, S)
  PROVE  Descendants(objs, j) \subseteq S
  BY DEF Descendants, ClosedFrom

LEMMA DescendantsClosed ==
  ASSUME NEW objs, NEW j
  PROVE  /\ Descendants(objs, j) \subseteq ActiveIn(objs)
         /\ ClosedFrom(objs, j, Descendants(objs, j))
<1> DEFINE D == Descendants(objs, j)
<1>1. D = { i \in ActiveIn(objs) : \A S \in SUBSET ActiveIn(objs) : ClosedFrom(objs, j, S) => i \in S }
  BY DEF Descendants, ClosedFrom
<1> HIDE DEF D
<1>2. \A f : Children(objs, f) \subseteq ActiveIn(objs)
  BY DEF Children
<1>3. Children(objs, j) \subseteq D
  BY <1>1, <1>2 DEF ClosedFrom
<1>4. ASSUME NEW g \in D, objs[g].type = "frame", NEW i \in Children(objs, g)  PROVE i \in D
  <2>1. ASSUME NEW S \in SUBSET ActiveIn(objs), ClosedFrom(objs, j, S)  PROVE i \in S
    <3>1. g \in S
      BY <1>1, <2>1
    <3> QED  BY <1>4, <2>1, <3>1 DEF ClosedFrom
  <2>2. i \in ActiveIn(objs)
    BY <1>2, <1>4
  <2> QED  BY <1>1, <2>1, <2>2
<1>5. ClosedFrom(objs, j, D)
  BY <1>3, <1>4 DEF ClosedFrom
<1>6. D \subseteq ActiveIn(objs)
  BY <1>1
<1> QED  BY <1>5, <1>6 DEF D

\* What a frame inside contains is inside as well.
LEMMA DescendantsNested ==
  ASSUME NEW objs, NEW j, NEW g \in Descendants(objs, j), objs[g].type = "frame"
  PROVE  Descendants(objs, g) \subseteq Descendants(objs, j)
<1>1. ClosedFrom(objs, j, Descendants(objs, j)) /\ Descendants(objs, j) \in SUBSET ActiveIn(objs)
  BY DescendantsClosed
<1>2. ClosedFrom(objs, g, Descendants(objs, j))
  BY <1>1 DEF ClosedFrom
<1> QED  BY <1>1, <1>2, DescendantsWithin

\* Objects come and go as they like in a canvas of the same shape.
SameShape(a, b) ==
  /\ ActiveIn(a) = ActiveIn(b)
  /\ \A i \in ActiveIn(a) : a[i].parent = b[i].parent /\ a[i].type = b[i].type

LEMMA SameShapeSound ==
  ASSUME NEW a, NEW b, SameShape(a, b), Hierarchy(a)
  PROVE  Hierarchy(b)
<1>1. ActiveIn(a) = ActiveIn(b) /\ \A i \in ActiveIn(a) : a[i].parent = b[i].parent /\ a[i].type = b[i].type
  BY DEF SameShape
<1>2. \A f : Children(a, f) = Children(b, f)
  BY <1>1 DEF Children
<1>3. \A i \in ActiveIn(b) : b[i].parent # None =>
         b[i].parent \in ActiveIn(b) /\ b[b[i].parent].type = "frame"
  BY <1>1 DEF Hierarchy
<1>4. ASSUME NEW i \in ActiveIn(b), i \in Descendants(b, i)  PROVE FALSE
  <2>1. Descendants(a, i) \in SUBSET ActiveIn(a) /\ ClosedFrom(a, i, Descendants(a, i))
    BY DescendantsClosed
  <2>2. ClosedFrom(b, i, Descendants(a, i)) /\ Descendants(a, i) \in SUBSET ActiveIn(b)
    BY <1>1, <1>2, <2>1 DEF ClosedFrom
  <2>3. Descendants(b, i) \subseteq Descendants(a, i)
    BY <2>2, DescendantsWithin
  <2> QED  BY <1>1, <1>4, <2>3 DEF Hierarchy
<1> QED  BY <1>3, <1>4 DEF Hierarchy

\* No circle appears while every object's children were among its descendants.
LEMMA FlatterSound ==
  ASSUME NEW a, NEW b, Hierarchy(a), ActiveIn(b) \subseteq ActiveIn(a),
         \A i \in ActiveIn(b) : b[i].type = a[i].type /\ Children(b, i) \subseteq Descendants(a, i),
         \A i \in ActiveIn(b) : b[i].parent # None =>
            b[i].parent \in ActiveIn(b) /\ b[b[i].parent].type = "frame"
  PROVE  Hierarchy(b)
<1> SUFFICES ASSUME NEW i \in ActiveIn(b), i \in Descendants(b, i)  PROVE FALSE
  BY DEF Hierarchy
<1> DEFINE S == Descendants(a, i) \cap ActiveIn(b)
<1>1. \A f : Children(b, f) \subseteq ActiveIn(b)
  BY DEF Children
<1>2. Children(b, i) \subseteq S
  BY <1>1
<1>3. ASSUME NEW g \in S, b[g].type = "frame"  PROVE Children(b, g) \subseteq S
  <2>1. Descendants(a, g) \subseteq Descendants(a, i)
    BY <1>3, DescendantsNested
  <2> QED  BY <1>1, <2>1
<1>4. Descendants(b, i) \subseteq S
  <2>1. S \in SUBSET ActiveIn(b)
    OBVIOUS
  <2>2. ClosedFrom(b, i, S)
    BY <1>2, <1>3 DEF ClosedFrom
  <2> QED  BY <2>1, <2>2, DescendantsWithin
<1> QED  BY <1>4 DEF Hierarchy

\* Nor when a new frame takes in objects that had no parent; a new object alone is
\* the frame that takes in none.
GrownBy(a, b, f, S) ==
  /\ f # None /\ f \notin ActiveIn(a) /\ None \notin ActiveIn(a)
  /\ ActiveIn(b) = ActiveIn(a) \union {f}
  /\ b[f].parent = None
  /\ S \subseteq ActiveIn(a)
  /\ S # {} => b[f].type = "frame"
  /\ \A i \in S : a[i].parent = None /\ b[i].parent = f
  /\ \A i \in ActiveIn(a) \ S : b[i].parent = a[i].parent
  /\ \A i \in ActiveIn(a) : b[i].type = a[i].type

LEMMA NewFrameSound ==
  ASSUME NEW a, NEW b, Hierarchy(a), NEW f, NEW S, GrownBy(a, b, f, S)
  PROVE  Hierarchy(b)
<1> USE DEF GrownBy
<1>1. \A i \in ActiveIn(a) : a[i].parent # f
  BY DEF Hierarchy
<1>2. Children(b, f) = S
  BY <1>1 DEF Children
<1>3. \A g \in ActiveIn(a) : Children(b, g) \subseteq Children(a, g)
  BY <1>1 DEF Children
<1>4. \A i \in ActiveIn(b) : b[i].parent # None =>
         b[i].parent \in ActiveIn(b) /\ b[b[i].parent].type = "frame"
  BY DEF Hierarchy
<1>5. f \notin Descendants(b, f)
  <2>1. ClosedFrom(b, f, ActiveIn(a)) /\ ActiveIn(a) \in SUBSET ActiveIn(b)
    BY <1>2, <1>3 DEF ClosedFrom, Children
  <2>2. Descendants(b, f) \subseteq ActiveIn(a)
    BY <2>1, DescendantsWithin
  <2> QED  BY <2>2
<1>6. ASSUME NEW i \in ActiveIn(a), i \in Descendants(b, i)  PROVE FALSE
  <2>1. Descendants(a, i) \in SUBSET ActiveIn(a) /\ ClosedFrom(a, i, Descendants(a, i))
    BY DescendantsClosed
  <2>2. ClosedFrom(b, i, Descendants(a, i)) /\ Descendants(a, i) \in SUBSET ActiveIn(b)
    BY <1>3, <2>1 DEF ClosedFrom
  <2>3. Descendants(b, i) \subseteq Descendants(a, i)
    BY <2>2, DescendantsWithin
  <2> QED  BY <1>6, <2>3 DEF Hierarchy
<1> QED  BY <1>4, <1>5, <1>6 DEF Hierarchy

-----------------------------------------------------------------------------
(* What the commands change of an object.                                  *)

\* b has what the patch says where it says something, up to versions, and a
\* elsewhere.
Takes(b, a, patch) ==
  \A i \in Ids :
    IF i \in DOMAIN patch
    THEN /\ b[i] # None
         /\ b[i].type = patch[i].type
         /\ b[i].deleted = patch[i].deleted
         /\ b[i].parent = patch[i].parent
    ELSE b[i] = a[i]

\* The patch changes live objects and leaves them live, of their type and in their
\* frame.
KeepsKind(patch, a) ==
  /\ DOMAIN patch \subseteq ActiveIn(a)
  /\ \A i \in DOMAIN patch : /\ patch[i].type = a[i].type
                             /\ patch[i].deleted = a[i].deleted
                             /\ patch[i].parent = a[i].parent

\* The patch leaves an object where it was and as wide.
KeepsPlace(patch, a, i) == patch[i].x = a[i].x /\ patch[i].width = a[i].width

\* The patch makes a new frame f and puts the objects of S inside, where they are.
Frames(patch, a, f, S) ==
  /\ DOMAIN patch = S \union {f}
  /\ patch[f].type = "frame" /\ ~patch[f].deleted /\ patch[f].parent = None
  /\ \A j \in S : /\ patch[j].type = a[j].type
                   /\ patch[j].deleted = a[j].deleted
                   /\ patch[j].parent = f
                   /\ KeepsPlace(patch, a, j)

\* The patch deletes frame f and moves what is inside to the frame around it.
Disbands(patch, a, f) ==
  /\ DOMAIN patch = Children(a, f) \union {f}
  /\ patch[f].type = a[f].type /\ patch[f].deleted /\ patch[f].parent = a[f].parent
  /\ KeepsPlace(patch, a, f)
  /\ \A j \in Children(a, f) \ {f} : /\ patch[j].type = a[j].type
                                      /\ patch[j].deleted = a[j].deleted
                                      /\ patch[j].parent = a[f].parent
                                      /\ KeepsPlace(patch, a, j)

LEMMA TouchedFields ==
  ASSUME NEW o \in Object
  PROVE  /\ Touched(o).type = o.type       /\ Touched(o).x = o.x
         /\ Touched(o).width = o.width     /\ Touched(o).pinned = o.pinned
         /\ Touched(o).deleted = o.deleted /\ Touched(o).parent = o.parent
  BY DEF Touched, Object

LEMMA AppendedFields ==
  ASSUME NEW objs \in Canvas, NEW i \in ActiveIn(objs), NEW line \in Lines
  PROVE  /\ KeepsKind(Appended(objs, i, line), objs)
         /\ DOMAIN Appended(objs, i, line) = {i}
         /\ KeepsPlace(Appended(objs, i, line), objs, i)
<1> DEFINE after == Appended(objs, i, line)
<1>1. objs[i] \in Object
  BY ActiveType
<1> DEFINE o == [objs[i] EXCEPT !.text = Append(@, line)]
<1>2. /\ o.type = objs[i].type       /\ o.x = objs[i].x
      /\ o.width = objs[i].width     /\ o.pinned = objs[i].pinned
      /\ o.deleted = objs[i].deleted /\ o.parent = objs[i].parent
  BY <1>1 DEF Object
<1>3. o \in Object
  <2>1. Append(objs[i].text, line) \in Seq(Lines)
    BY <1>1 DEF Object
  <2> QED  BY <1>1, <2>1 DEF Object
<1>4. DOMAIN after = {i} /\ after[i] = Touched(o)
  BY DEF Appended, Only
<1> HIDE DEF o, after
<1> QED  BY <1>2, <1>3, <1>4, TouchedFields DEF KeepsKind, KeepsPlace, after

LEMMA FlaggedFields ==
  ASSUME NEW objs \in Canvas, NEW i \in ActiveIn(objs), NEW pinned \in BOOLEAN,
         NEW minimized \in BOOLEAN
  PROVE  /\ KeepsKind(Flagged(objs, i, pinned, minimized), objs)
         /\ DOMAIN Flagged(objs, i, pinned, minimized) = {i}
         /\ KeepsPlace(Flagged(objs, i, pinned, minimized), objs, i)
<1> DEFINE after == Flagged(objs, i, pinned, minimized)
<1>1. objs[i] \in Object
  BY ActiveType
<1> DEFINE o == [objs[i] EXCEPT !.pinned = pinned, !.minimized = minimized]
<1>2. /\ o \in Object
      /\ o.type = objs[i].type   /\ o.x = objs[i].x
      /\ o.width = objs[i].width /\ o.deleted = objs[i].deleted
      /\ o.parent = objs[i].parent
  BY <1>1 DEF Object
<1>3. DOMAIN after = {i} /\ after[i] = Touched(o)
  BY DEF Flagged, Only
<1> HIDE DEF o, after
<1> QED  BY <1>2, <1>3, TouchedFields DEF KeepsKind, KeepsPlace, after

LEMMA DiscardedFields ==
  ASSUME NEW objs \in Canvas, NEW i \in ActiveIn(objs),
         NEW after, after = Discarded(objs, i)
  PROVE  /\ DOMAIN after = {i}
         /\ after[i].type = objs[i].type   /\ after[i].x = objs[i].x
         /\ after[i].width = objs[i].width /\ after[i].deleted
         /\ after[i].parent = objs[i].parent
<1>1. objs[i] \in Object
  BY ActiveType
<1> DEFINE o == [objs[i] EXCEPT !.deleted = TRUE]
<1>2. /\ o \in Object
      /\ o.type = objs[i].type   /\ o.x = objs[i].x
      /\ o.width = objs[i].width /\ o.deleted
      /\ o.parent = objs[i].parent
  BY <1>1 DEF Object
<1>3. DOMAIN after = {i} /\ after[i] = Touched(o)
  BY DEF Discarded, Only
<1> HIDE DEF o
<1> QED  BY <1>2, <1>3, TouchedFields

LEMMA TransformedFields ==
  ASSUME NEW objs \in Canvas, NEW i \in ActiveIn(objs), NEW x \in (0 .. MaxX) \union {None},
         NEW width \in Widths \union {None}
  PROVE  /\ KeepsKind(Transformed(objs, i, x, width), objs)
         /\ DOMAIN Transformed(objs, i, x, width) = Carried(objs, i, x) \union {i}
         /\ x # None => Transformed(objs, i, x, width)[i].x = x
<1> DEFINE S == Carried(objs, i, x) \union {i}
           offset == IF x = None THEN 0 ELSE x - objs[i].x
           slid(j) == [objs[j] EXCEPT !.x = @ + offset]
           moved(j) == Touched(slid(j))
           after == Transformed(objs, i, x, width)
<1>1. S \subseteq ActiveIn(objs)
  BY CarriedType
<1>2. offset \in Int /\ (x # None => objs[i].x + offset = x)
  BY ActiveType, SchemaAssumption DEF Object
<1>3. after = [j \in S |-> IF j = i /\ width # None THEN [moved(i) EXCEPT !.width = width]
                                                    ELSE moved(j)]
  BY DEF Transformed
<1> HIDE DEF offset, after
<1>4. ASSUME NEW j \in S
      PROVE  /\ moved(j) \in Object
             /\ moved(j).type = objs[j].type
             /\ moved(j).deleted = objs[j].deleted
             /\ moved(j).parent = objs[j].parent
             /\ moved(j).x = objs[j].x + offset
  <2>1. objs[j] \in Object
    BY <1>1, ActiveType
  <2>2. /\ slid(j) \in Object
        /\ slid(j).type = objs[j].type
        /\ slid(j).deleted = objs[j].deleted
        /\ slid(j).parent = objs[j].parent
        /\ slid(j).x = objs[j].x + offset
    BY <1>2, <2>1 DEF Object
  <2> HIDE DEF slid
  <2> QED  BY <2>2, TouchedFields, TouchedType
<1> HIDE DEF moved
<1>5. ASSUME NEW j \in S
      PROVE  /\ after[j].type = objs[j].type
             /\ after[j].deleted = objs[j].deleted
             /\ after[j].parent = objs[j].parent
             /\ after[j].x = objs[j].x + offset
  <2>1. CASE j = i /\ width # None
    <3>1. after[j] = [moved(i) EXCEPT !.width = width] /\ moved(i) \in Object
      BY <1>3, <1>4, <2>1
    <3>2. /\ after[j].type = moved(i).type
          /\ after[j].deleted = moved(i).deleted
          /\ after[j].parent = moved(i).parent
          /\ after[j].x = moved(i).x
      BY <3>1 DEF Object
    <3> QED  BY <1>4, <2>1, <3>2
  <2>2. CASE ~(j = i /\ width # None)
    <3>1. after[j] = moved(j)
      BY <1>3, <2>2
    <3> QED  BY <1>4, <3>1
  <2> QED  BY <2>1, <2>2
<1>6. DOMAIN after = S /\ i \in S
  BY <1>3
<1>7. x # None => after[i].x = x
  BY <1>2, <1>5, <1>6
<1>8. KeepsKind(after, objs)
  BY <1>1, <1>5, <1>6 DEF KeepsKind
<1> QED  BY <1>6, <1>7, <1>8 DEF after

LEMMA GroupedFields ==
  ASSUME NEW objs \in Canvas, NEW f, NEW selected, selected \subseteq ActiveIn(objs),
         f \notin selected, f \in Ids, NEW x, NEW width
  PROVE  Frames(Grouped(objs, f, selected, x, width), objs, f, selected)
<1> DEFINE after == Grouped(objs, f, selected, x, width)
<1>1. DOMAIN after = selected \union {f}
  BY DEF Grouped
<1>2. after[f].type = "frame" /\ ~after[f].deleted /\ after[f].parent = None
  BY DEF Grouped, Fresh
<1>3. ASSUME NEW j \in selected
      PROVE  /\ after[j].type = objs[j].type   /\ after[j].x = objs[j].x
             /\ after[j].width = objs[j].width /\ after[j].deleted = objs[j].deleted
             /\ after[j].parent = f
  <2> DEFINE o == [objs[j] EXCEPT !.parent = f]
  <2>1. objs[j] \in Object
    BY ActiveType
  <2>2. /\ o \in Object
        /\ o.type = objs[j].type   /\ o.x = objs[j].x
        /\ o.width = objs[j].width /\ o.deleted = objs[j].deleted
        /\ o.parent = f
    BY <2>1 DEF Object
  <2>3. after[j] = Touched(o)
    BY DEF Grouped
  <2> HIDE DEF o, after
  <2> QED  BY <2>2, <2>3, TouchedFields
<1> HIDE DEF after
<1>4. Frames(after, objs, f, selected)
  BY <1>1, <1>2, <1>3 DEF Frames, KeepsPlace
<1> QED  BY <1>4 DEF after

LEMMA UngroupedFields ==
  ASSUME NEW objs \in Canvas, NEW f \in ActiveIn(objs)
  PROVE  Disbands(Ungrouped(objs, f), objs, f)
<1> DEFINE after == Ungrouped(objs, f)
<1>1. DOMAIN after = Children(objs, f) \union {f}
  BY DEF Ungrouped
<1>2. objs[f] \in Object
  BY ActiveType
<1>3. /\ after[f].type = objs[f].type   /\ after[f].x = objs[f].x
      /\ after[f].width = objs[f].width /\ after[f].deleted
      /\ after[f].parent = objs[f].parent
  <2> DEFINE o == [objs[f] EXCEPT !.deleted = TRUE]
  <2>1. /\ o \in Object
        /\ o.type = objs[f].type   /\ o.x = objs[f].x
        /\ o.width = objs[f].width /\ o.deleted
        /\ o.parent = objs[f].parent
    BY <1>2 DEF Object
  <2>2. after[f] = Touched(o)
    BY DEF Ungrouped
  <2> HIDE DEF o, after
  <2> QED  BY <2>1, <2>2, TouchedFields
<1>4. ASSUME NEW j \in Children(objs, f) \ {f}
      PROVE  /\ after[j].type = objs[j].type   /\ after[j].x = objs[j].x
             /\ after[j].width = objs[j].width /\ after[j].deleted = objs[j].deleted
             /\ after[j].parent = objs[f].parent
  <2> DEFINE o == [objs[j] EXCEPT !.parent = objs[f].parent]
  <2>1. objs[j] \in Object
    BY ActiveType DEF Children
  <2>2. /\ o \in Object
        /\ o.type = objs[j].type   /\ o.x = objs[j].x
        /\ o.width = objs[j].width /\ o.deleted = objs[j].deleted
        /\ o.parent = objs[f].parent
    BY <1>2, <2>1 DEF Object
  <2>3. after[j] = Touched(o)
    BY DEF Ungrouped
  <2> HIDE DEF o, after
  <2> QED  BY <2>2, <2>3, TouchedFields
<1> HIDE DEF after
<1>5. Disbands(after, objs, f)
  BY <1>1, <1>3, <1>4 DEF Disbands, KeepsPlace
<1> QED  BY <1>5 DEF after

-----------------------------------------------------------------------------
(* No command breaks the hierarchy.                                        *)

LEMMA CreatedSound ==
  ASSUME NEW a \in Canvas, NEW b, Hierarchy(a), NEW i \in Ids, a[i] = None,
         NEW type, NEW x, NEW width, Takes(b, a, Created(i, type, x, width))
  PROVE  Hierarchy(b)
<1>1. DOMAIN Created(i, type, x, width) = {i}
      /\ ~Created(i, type, x, width)[i].deleted /\ Created(i, type, x, width)[i].parent = None
  BY DEF Created, Only, Fresh
<1>2. b[i] # None /\ ~b[i].deleted /\ b[i].parent = None /\ \A j \in Ids \ {i} : b[j] = a[j]
  BY <1>1 DEF Takes
<1>3. ActiveIn(b) = ActiveIn(a) \union {i} /\ i \notin ActiveIn(a)
  BY <1>2 DEF ActiveIn
<1>4. None \notin ActiveIn(a) /\ i # None
  BY SchemaAssumption DEF ActiveIn
<1>5. \A j \in ActiveIn(a) : b[j].parent = a[j].parent /\ b[j].type = a[j].type
  BY <1>2, <1>3 DEF ActiveIn
<1>6. GrownBy(a, b, i, {})
  BY <1>2, <1>3, <1>4, <1>5 DEF GrownBy
<1> QED  BY <1>6, NewFrameSound

\* A patch of live objects that keeps their types and parents.
LEMMA KeptSound ==
  ASSUME NEW a, NEW b, NEW patch, Takes(b, a, patch), Hierarchy(a), KeepsKind(patch, a)
  PROVE  Hierarchy(b)
<1>1. \A i \in Ids : /\ i \in ActiveIn(b) <=> i \in ActiveIn(a)
                     /\ i \in ActiveIn(a) => a[i].parent = b[i].parent /\ a[i].type = b[i].type
  BY DEF Takes, ActiveIn, KeepsKind
<1>2. SameShape(a, b)
  BY <1>1 DEF SameShape, ActiveIn
<1> QED  BY <1>2, SameShapeSound

LEMMA AppendedSound ==
  ASSUME NEW a \in Canvas, NEW b, Hierarchy(a), NEW i \in ActiveIn(a), NEW line \in Lines,
         Takes(b, a, Appended(a, i, line))
  PROVE  Hierarchy(b)
<1>1. KeepsKind(Appended(a, i, line), a)
  BY AppendedFields
<1> QED  BY <1>1, KeptSound

LEMMA FlaggedSound ==
  ASSUME NEW a \in Canvas, NEW b, Hierarchy(a), NEW i \in ActiveIn(a), NEW pinned \in BOOLEAN,
         NEW minimized \in BOOLEAN, Takes(b, a, Flagged(a, i, pinned, minimized))
  PROVE  Hierarchy(b)
<1>1. KeepsKind(Flagged(a, i, pinned, minimized), a)
  BY FlaggedFields, Zenon
<1> QED  BY <1>1, KeptSound

LEMMA TransformedSound ==
  ASSUME NEW a \in Canvas, NEW b, Hierarchy(a), NEW i \in ActiveIn(a),
         NEW x \in (0 .. MaxX) \union {None}, NEW width \in Widths \union {None},
         Takes(b, a, Transformed(a, i, x, width))
  PROVE  Hierarchy(b)
<1>1. KeepsKind(Transformed(a, i, x, width), a)
  BY TransformedFields, Zenon
<1> QED  BY <1>1, KeptSound

LEMMA DiscardedSound ==
  ASSUME NEW a \in Canvas, NEW b, Hierarchy(a), NEW i, MayDiscard(a, i),
         Takes(b, a, Discarded(a, i))
  PROVE  Hierarchy(b)
<1>1. i \in ActiveIn(a) /\ i \in Ids /\ (a[i].type = "frame" => Children(a, i) = {})
  BY DEF MayDiscard, ActiveIn
<1>2. DOMAIN Discarded(a, i) = {i} /\ Discarded(a, i)[i].deleted
  BY <1>1, DiscardedFields
<1>3. b[i].deleted /\ \A j \in Ids \ {i} : b[j] = a[j]
  BY <1>1, <1>2 DEF Takes
<1>4. ActiveIn(b) = ActiveIn(a) \ {i}
  BY <1>3 DEF ActiveIn
<1>5. \A j \in ActiveIn(b) : j \in ActiveIn(a) /\ b[j] = a[j]
  BY <1>3, <1>4 DEF ActiveIn
<1>6. \A j \in ActiveIn(b) : Children(b, j) \subseteq Descendants(a, j)
  <2>1. \A j : Children(b, j) \subseteq Children(a, j)
    BY <1>5 DEF Children
  <2>2. \A j : Children(a, j) \subseteq Descendants(a, j)
    BY DescendantsClosed DEF ClosedFrom
  <2> QED  BY <2>1, <2>2
<1>7. ASSUME NEW j \in ActiveIn(b), b[j].parent # None
      PROVE  b[j].parent \in ActiveIn(b) /\ b[b[j].parent].type = "frame"
  <2>1. a[j].parent \in ActiveIn(a) /\ a[a[j].parent].type = "frame" /\ b[j].parent = a[j].parent
    BY <1>5, <1>7 DEF Hierarchy
  <2>2. a[j].parent # i
    BY <1>1, <1>5, <2>1 DEF Children
  <2> QED  BY <1>4, <1>5, <2>1, <2>2
<1>8. ActiveIn(b) \subseteq ActiveIn(a)
  BY <1>4
<1> QED  BY <1>5, <1>6, <1>7, <1>8, FlatterSound

LEMMA GroupedSound ==
  ASSUME NEW a \in Canvas, NEW b, Hierarchy(a), NEW f \in Ids, NEW selected \in SUBSET Ids,
         NEW x \in 0 .. MaxX, NEW width \in Widths, MayGroup(a, f, selected, x, width),
         Takes(b, a, Grouped(a, f, selected, x, width))
  PROVE  Hierarchy(b)
<1>1. /\ a[f] = None /\ selected \subseteq ActiveIn(a)
      /\ \A j \in selected : a[j].parent = None
  BY DEF MayGroup
<1>2. f \notin ActiveIn(a) /\ f \notin selected
  BY <1>1 DEF ActiveIn
<1>0. PICK patch : patch = Grouped(a, f, selected, x, width)
  OBVIOUS
<1>3. /\ DOMAIN patch = selected \union {f}
      /\ patch[f].type = "frame" /\ ~patch[f].deleted /\ patch[f].parent = None
      /\ \A j \in selected : /\ patch[j].type = a[j].type
                             /\ patch[j].deleted = a[j].deleted
                             /\ patch[j].parent = f
  <2>1. Frames(patch, a, f, selected)
    BY <1>0, <1>1, <1>2, GroupedFields
  <2> QED  BY <2>1 DEF Frames
<1>4. Takes(b, a, patch)
  BY <1>0
<1>5. b[f] # None /\ b[f].type = "frame" /\ ~b[f].deleted /\ b[f].parent = None
  BY <1>3, <1>4 DEF Takes
<1>6. \A j \in selected : /\ b[j] # None /\ b[j].type = a[j].type
                          /\ b[j].deleted = a[j].deleted /\ b[j].parent = f
  BY <1>3, <1>4 DEF Takes
<1>7. \A j \in Ids : j \notin selected /\ j # f => b[j] = a[j]
  BY <1>3, <1>4 DEF Takes
<1>8. ActiveIn(b) = ActiveIn(a) \union {f}
  <2>1. ASSUME NEW j \in Ids  PROVE j \in ActiveIn(b) <=> j \in ActiveIn(a) \/ j = f
    <3>1. CASE j = f
      BY <1>5, <3>1 DEF ActiveIn
    <3>2. CASE j \in selected
      BY <1>1, <1>6, <3>2 DEF ActiveIn
    <3>3. CASE j # f /\ j \notin selected
      BY <1>7, <3>3 DEF ActiveIn
    <3> QED  BY <3>1, <3>2, <3>3
  <2> QED  BY <2>1 DEF ActiveIn
<1>9. None \notin ActiveIn(a) /\ f # None
  BY SchemaAssumption DEF ActiveIn
<1>10. \A j \in ActiveIn(a) \ selected : b[j].parent = a[j].parent
  BY <1>2, <1>7 DEF ActiveIn
<1>11. \A j \in ActiveIn(a) : b[j].type = a[j].type
  BY <1>2, <1>6, <1>7 DEF ActiveIn
<1>12. \A j \in selected : a[j].parent = None /\ b[j].parent = f
  BY <1>1, <1>6
<1>13. GrownBy(a, b, f, selected)
  BY <1>1, <1>2, <1>5, <1>8, <1>9, <1>10, <1>11, <1>12 DEF GrownBy
<1> QED  BY <1>13, NewFrameSound

LEMMA UngroupedSound ==
  ASSUME NEW a \in Canvas, NEW b, Hierarchy(a), NEW f, MayUngroup(a, f),
         Takes(b, a, Ungrouped(a, f))
  PROVE  Hierarchy(b)
<1>1. f \in ActiveIn(a) /\ f \in Ids /\ a[f].type = "frame"
  BY DEF MayUngroup, ActiveIn
<1> DEFINE inside == Children(a, f)
<1>0. PICK patch : patch = Ungrouped(a, f)
  OBVIOUS
<1>2. inside \subseteq Descendants(a, f) /\ inside \subseteq ActiveIn(a)
  BY DescendantsClosed DEF ClosedFrom, Children
<1>3. f \notin inside
  BY <1>1, <1>2 DEF Hierarchy
<1>4. /\ DOMAIN patch = inside \union {f}
      /\ patch[f].deleted
      /\ \A j \in inside : /\ patch[j].type = a[j].type
                           /\ patch[j].deleted = a[j].deleted
                           /\ patch[j].parent = a[f].parent
  <2>1. Disbands(patch, a, f)
    BY <1>0, <1>1, UngroupedFields
  <2> QED  BY <1>3, <2>1 DEF Disbands
<1>5. Takes(b, a, patch)
  BY <1>0
<1>6. \A j \in ActiveIn(a) : j \in inside <=> a[j].parent = f
  BY DEF Children
<1> HIDE DEF inside
<1>7. b[f].deleted
  BY <1>1, <1>4, <1>5 DEF Takes
<1>8. \A j \in inside : /\ b[j] # None /\ b[j].type = a[j].type
                        /\ b[j].deleted = a[j].deleted /\ b[j].parent = a[f].parent
  BY <1>2, <1>4, <1>5 DEF Takes, ActiveIn
<1>9. \A j \in Ids : j \notin inside /\ j # f => b[j] = a[j]
  BY <1>4, <1>5 DEF Takes
<1>10. ActiveIn(b) = ActiveIn(a) \ {f}
  <2>1. ASSUME NEW j \in Ids  PROVE j \in ActiveIn(b) <=> j \in ActiveIn(a) /\ j # f
    <3>1. CASE j = f
      BY <1>7, <3>1 DEF ActiveIn
    <3>2. CASE j \in inside
      BY <1>2, <1>3, <1>8, <3>2 DEF ActiveIn
    <3>3. CASE j # f /\ j \notin inside
      BY <1>9, <3>3 DEF ActiveIn
    <3> QED  BY <3>1, <3>2, <3>3
  <2> QED  BY <2>1 DEF ActiveIn
<1>11. \A j \in ActiveIn(b) : /\ j \in ActiveIn(a)
                              /\ b[j].type = a[j].type
                              /\ b[j].parent = IF j \in inside THEN a[f].parent ELSE a[j].parent
  BY <1>8, <1>9, <1>10 DEF ActiveIn
<1>12. a[f].parent # f
  BY <1>1, <1>3, <1>6
<1>13. ASSUME NEW j \in ActiveIn(b), NEW k \in Children(b, j)
       PROVE  k \in Descendants(a, j)
  <2>1. k \in ActiveIn(b) /\ b[k].parent = j /\ k \in ActiveIn(a) /\ j # f
    BY <1>10, <1>13 DEF Children
  <2>2. Children(a, j) \subseteq Descendants(a, j)
        /\ \A g \in Descendants(a, j) : a[g].type = "frame"
             => Children(a, g) \subseteq Descendants(a, j)
    BY DescendantsClosed DEF ClosedFrom
  <2>3. CASE k \in inside
    <3>1. f \in Children(a, j)
      BY <1>1, <1>11, <2>1, <2>3 DEF Children
    <3> QED  BY <1>1, <2>2, <2>3, <3>1 DEF inside
  <2>4. CASE k \notin inside
    <3>1. k \in Children(a, j)
      BY <1>11, <2>1, <2>4 DEF Children
    <3> QED  BY <2>2, <3>1
  <2> QED  BY <2>3, <2>4
<1>14. ASSUME NEW j \in ActiveIn(b), b[j].parent # None
       PROVE  b[j].parent \in ActiveIn(b) /\ b[b[j].parent].type = "frame"
  <2> DEFINE g == IF j \in inside THEN a[f].parent ELSE a[j].parent
  <2>1. b[j].parent = g /\ g # f
    BY <1>6, <1>11, <1>12
  <2>2. g \in ActiveIn(a) /\ a[g].type = "frame"
    BY <1>1, <1>11, <1>14 DEF Hierarchy
  <2> HIDE DEF g
  <2> QED  BY <1>10, <1>11, <2>1, <2>2
<1>15. ActiveIn(b) \subseteq ActiveIn(a)
  BY <1>10
<1>16. \A j \in ActiveIn(b) : b[j].type = a[j].type /\ Children(b, j) \subseteq Descendants(a, j)
  BY <1>11, <1>13
<1> QED  BY <1>14, <1>15, <1>16, FlatterSound
=============================================================================
