------------------------- MODULE CanvasProofs -------------------------
(***************************************************************************)
(* Proofs about the stored canvas of a room: what is committed loads again,*)
(* and what undo and redo name can always be reversed; and, at the end,    *)
(* about the preview beside it.                                            *)
(*                                                                         *)
(* The argument follows the canvases the room has been through.  Each      *)
(* receipt records the step from one of them to the next, and each         *)
(* reversal returns to the canvas before the receipt it names, but for     *)
(* versions and for created objects, which stay as deleted rows.           *)
(***************************************************************************)
EXTENDS CanvasCommandsProofs, MCCanvas

\* The rows a room can hold: coordinates keep to their bounds.
Placed == { o \in Object : InBounds(o) }

Table == [Ids -> Placed \union {None}]

Reversal == [ expected : { Mutable(o) : o \in Placed },
              restore  : { Mutable(o) : o \in Placed } \union {None} ]

Receipts ==
  [ action  : Action,
    target  : Nat,
    before  : UNION { [S -> Placed \union {None}] : S \in SUBSET Ids },
    after   : UNION { [S -> Placed] : S \in SUBSET Ids },
    inverse : UNION { [S -> Reversal] : S \in SUBSET Ids } ]

\* Later shows what earlier showed: the same objects in the same state, and
\* whatever came since is deleted.
Matches(later, earlier) ==
  \A i \in Ids :
    IF earlier[i] = None THEN later[i] = None \/ later[i].deleted
    ELSE later[i] # None /\ Mutable(later[i]) = Mutable(earlier[i])

\* Receipt r is that of the change of one canvas to the next.
Records(r, from, to) ==
  /\ DOMAIN r.after \subseteq Ids
  /\ DOMAIN r.before = DOMAIN r.after
  /\ DOMAIN r.inverse = DOMAIN r.after
  /\ \A i \in DOMAIN r.after :
       /\ to[i] # None
       /\ r.before[i] = from[i]
       /\ r.after[i] = to[i]
       /\ r.inverse[i].expected = Mutable(to[i])
       /\ r.inverse[i].restore = IF from[i] = None THEN None ELSE Mutable(from[i])
       /\ to[i].version = IF from[i] = None THEN 1 ELSE from[i].version + 1
  /\ \A i \in Ids \ DOMAIN r.after : to[i] = from[i]

\* The canvases the room has been through, the present one last.
Past(c) ==
  /\ c \in [0 .. revision -> Table]
  /\ c[revision] = rows
  /\ \A k \in 0 .. revision : Fits(c[k])
  /\ \A k \in 1 .. revision : Records(receipts[k], c[k - 1], c[k])

\* A reversal leads back to the canvas before the receipt it names, and what undo
\* and redo may name left the canvas as it is.
Returns(log, n, c) ==
  /\ \A k \in 1 .. n : ~IsEdit(log[k]) => Matches(c[k], c[log[k].target - 1])
  /\ \A m \in 0 .. n : \A k \in 1 .. m :
       IsUndo(log, m, k) \/ IsRedo(log, m, k) => Matches(c[m], c[k])

TypeInv ==
  /\ rows \in Table
  /\ revision \in 0 .. RevisionLimit
  /\ receipts \in Seq(Receipts)
  /\ Len(receipts) = revision
  /\ history \in [ undone : SUBSET Nat, redo : Seq(Nat), sound : BOOLEAN ]

LatestInv ==
  \A i \in Ids, k \in 1 .. revision :
    /\ i \in DOMAIN receipts[k].after
    /\ \A l \in k + 1 .. revision : i \notin DOMAIN receipts[l].after
    => rows[i] = receipts[k].after[i]

HistoryInv ==
  /\ LogSound(receipts, revision)
  /\ \E E : /\ IsEffects(E, receipts, revision)
            /\ UndoneSound(receipts, revision, E, history.undone)
  /\ RedoSound(receipts, revision, history.redo)
  /\ history.sound

Inv ==
  /\ TypeInv
  /\ LatestInv
  /\ HistoryInv
  /\ \E c : Past(c) /\ Returns(receipts, revision, c)

-----------------------------------------------------------------------------
(* Rows and canvases.                                                      *)

LEMMA PlacedType ==
  /\ Placed \subseteq Object
  /\ None \notin Placed
  /\ Table \subseteq Canvas
  BY CommandAssumption DEF Placed, Table, Canvas, Snapshot

\* What two objects that differ in their version only have in common.
LEMMA MutableFields ==
  ASSUME NEW o \in Object, NEW p \in Object
  PROVE  Mutable(o) = Mutable(p) <=>
           /\ o.type = p.type       /\ o.x = p.x
           /\ o.width = p.width     /\ o.text = p.text
           /\ o.pinned = p.pinned   /\ o.minimized = p.minimized
           /\ o.deleted = p.deleted /\ o.parent = p.parent
<1>1. /\ Mutable(o) = [ type |-> o.type, x |-> o.x, width |-> o.width, text |-> o.text,
                        pinned |-> o.pinned, minimized |-> o.minimized,
                        deleted |-> o.deleted, parent |-> o.parent, version |-> 0 ]
      /\ Mutable(p) = [ type |-> p.type, x |-> p.x, width |-> p.width, text |-> p.text,
                        pinned |-> p.pinned, minimized |-> p.minimized,
                        deleted |-> p.deleted, parent |-> p.parent, version |-> 0 ]
  BY DEF Mutable, Object
<1> QED  BY <1>1

LEMMA MatchesReflexive ==
  ASSUME NEW c \in Table
  PROVE  Matches(c, c)
  BY PlacedType DEF Matches, Table

LEMMA MatchesTransitive ==
  ASSUME NEW a \in Table, NEW b \in Table, NEW c \in Table, Matches(a, b), Matches(b, c)
  PROVE  Matches(a, c)
<1> SUFFICES ASSUME NEW i \in Ids
             PROVE  IF c[i] = None THEN a[i] = None \/ a[i].deleted
                    ELSE a[i] # None /\ Mutable(a[i]) = Mutable(c[i])
  BY DEF Matches
<1>1. /\ a[i] # None => a[i] \in Object
      /\ b[i] # None => b[i] \in Object
  BY PlacedType DEF Table
<1>2. /\ IF b[i] = None THEN a[i] = None \/ a[i].deleted
         ELSE a[i] # None /\ Mutable(a[i]) = Mutable(b[i])
      /\ IF c[i] = None THEN b[i] = None \/ b[i].deleted
         ELSE b[i] # None /\ Mutable(b[i]) = Mutable(c[i])
  BY DEF Matches
<1>3. b[i] # None /\ b[i].deleted => a[i].deleted
  BY <1>1, <1>2, MutableFields
<1> QED  BY <1>2, <1>3

\* A canvas that matches one that fits, fits.
LEMMA MatchesFits ==
  ASSUME NEW a \in Table, NEW b \in Table, Matches(a, b), Fits(b)
  PROVE  Fits(a)
<1>1. ASSUME NEW i \in Ids
      PROVE  /\ i \in Live(a) <=> i \in Live(b)
             /\ i \in Live(a) => a[i].parent = b[i].parent /\ a[i].type = b[i].type
  <2>1. /\ a[i] # None => a[i] \in Object
        /\ b[i] # None => b[i] \in Object
    BY PlacedType DEF Table
  <2>2. IF b[i] = None THEN a[i] = None \/ a[i].deleted
        ELSE a[i] # None /\ Mutable(a[i]) = Mutable(b[i])
    BY DEF Matches
  <2> QED  BY <2>1, <2>2, MutableFields DEF Live, ActiveIn
<1>2. Live(a) = Live(b) /\ Live(b) \subseteq Ids
  BY <1>1 DEF Live, ActiveIn
<1>3. \A i \in Live(b) : a[i].parent = b[i].parent /\ a[i].type = b[i].type
  BY <1>1, <1>2
<1>4. \A f : Children(a, f) = Children(b, f) /\ Children(b, f) \subseteq Live(b)
  BY <1>2, <1>3 DEF Children, Live
<1>5. \A i : Descendants(a, i) = Descendants(b, i)
  <2> SUFFICES ASSUME NEW i  PROVE Descendants(a, i) = Descendants(b, i)
    OBVIOUS
  <2>1. ASSUME NEW S \in SUBSET Live(b)
        PROVE  (Children(a, i) \subseteq S /\ \A g \in S : a[g].type = "frame" => Children(a, g) \subseteq S)
           <=> (Children(b, i) \subseteq S /\ \A g \in S : b[g].type = "frame" => Children(b, g) \subseteq S)
    BY <1>3, <1>4
  <2> QED  BY <1>2, <2>1, Zenon DEF Descendants, Live
<1>6. ParentGraphSound(a)
  <2>1. ParentGraphSound(b)
    BY DEF Fits
  <2>2. \A i \in Live(a) : a[i].parent # None =>
          a[i].parent \in Live(a) /\ a[a[i].parent].type = "frame"
    BY <1>2, <1>3, <2>1 DEF ParentGraphSound
  <2>3. \A i \in Live(a) : i \notin Descendants(a, i)
    BY <1>2, <1>5, <2>1, Zenon DEF ParentGraphSound
  <2> QED  BY <2>2, <2>3 DEF ParentGraphSound
<1>7. Cardinality(Live(a)) <= ObjectLimit
  BY <1>2, Zenon DEF Fits
<1> QED  BY <1>6, <1>7 DEF Fits

-----------------------------------------------------------------------------
(* What a step writes.                                                     *)

\* An edit plans a patch; the rest reverses.
LEMMA NextCases ==
  ASSUME TypeInv, Next
  PROVE  \/ \E action \in Action \ {"undo", "redo"}, after \in Patches : CommitChange(action, after)
         \/ UndoLatest
         \/ RedoLatest
<1> USE DEF Action
<1>0. rows \in Canvas
  BY PlacedType DEF TypeInv
<1>1. ASSUME NEW i \in Ids, NEW t \in {"note", "frame"}, NEW w \in Widths, CreateObject(i, t, 0, w)
      PROVE  \E after \in Patches : CommitChange("create", after)
  <2>1. 0 \in 0 .. MaxX
    BY SchemaAssumption
  <2> QED  BY <1>1, <2>1, CreatedType DEF CreateObject
<1>2. ASSUME NEW i \in Ids, NEW l \in Lines, AppendNoteText(i, l)
      PROVE  \E after \in Patches : CommitChange("update", after)
  BY <1>0, <1>2, AppendedType DEF AppendNoteText
<1>3. ASSUME NEW i \in Ids, NEW x \in 0 .. MaxX, TransformObject(i, x, None)
      PROVE  \E after \in Patches : CommitChange("transform", after)
  <2>1. i \in ActiveIn(rows)
    BY <1>3 DEF TransformObject, MayTransform
  <2>2. Transformed(rows, i, x, None) \in Patches
    BY <1>0, <2>1, TransformedType
  <2> QED  BY <1>3, <2>2 DEF TransformObject
<1>4. ASSUME NEW i \in Ids, NEW p \in BOOLEAN, PinObject(i, p)
      PROVE  \E after \in Patches : CommitChange("flags", after)
  <2>1. i \in ActiveIn(rows)
    BY <1>4 DEF PinObject, Live
  <2>2. rows[i].minimized \in BOOLEAN
    BY <1>0, <2>1, ActiveType DEF Object
  <2>3. Flagged(rows, i, p, rows[i].minimized) \in Patches
    BY <1>0, <2>1, <2>2, FlaggedType
  <2> QED  BY <1>4, <2>3 DEF PinObject
<1>5. ASSUME NEW i \in Ids, DiscardObject(i)
      PROVE  \E after \in Patches : CommitChange("discard", after)
  BY <1>0, <1>5, DiscardedType DEF DiscardObject, MayDiscard
<1>6. ASSUME NEW f \in Ids, NEW S \in SUBSET Ids, NEW w \in Widths, GroupObjects(f, S, 0, w)
      PROVE  \E after \in Patches : CommitChange("group", after)
  <2>1. 0 \in 0 .. MaxX
    BY SchemaAssumption
  <2>2. S \subseteq ActiveIn(rows)
    BY <1>6 DEF GroupObjects, MayGroup
  <2>3. Grouped(rows, f, S, 0, w) \in Patches
    BY <1>0, <2>1, <2>2, GroupedType
  <2> QED  BY <1>6, <2>3 DEF GroupObjects
<1>7. ASSUME NEW f \in Ids, UngroupObjects(f)
      PROVE  \E after \in Patches : CommitChange("ungroup", after)
  BY <1>0, <1>7, UngroupedType DEF UngroupObjects, MayUngroup
<1> QED  BY <1>1, <1>2, <1>3, <1>4, <1>5, <1>6, <1>7 DEF Next

LEMMA WrittenTable ==
  ASSUME TypeInv, NEW after \in Patches, \A i \in DOMAIN after : ChangeAllowed(i, after[i])
  PROVE  /\ DOMAIN after \subseteq Ids
         /\ Written(after) \in Table
         /\ \A i \in DOMAIN after :
              /\ Written(after)[i] # None
              /\ Written(after)[i].version = IF rows[i] = None THEN 1 ELSE rows[i].version + 1
         /\ \A i \in Ids \ DOMAIN after : Written(after)[i] = rows[i]
<1>1. DOMAIN after \subseteq Ids /\ \A i \in DOMAIN after : after[i] \in Object
  BY DEF Patches
<1>2. rows \in Table /\ \A i \in Ids : rows[i] # None => rows[i].version \in Nat \ {0}
  BY PlacedType DEF TypeInv, Table, Object
<1>3. ASSUME NEW i \in DOMAIN after
      PROVE  /\ Written(after)[i] \in Placed
             /\ Written(after)[i].version = IF rows[i] = None THEN 1 ELSE rows[i].version + 1
  <2> DEFINE v == IF rows[i] = None THEN 1 ELSE rows[i].version + 1
  <2>1. v \in Nat \ {0}
    BY <1>1, <1>2
  <2>2. Written(after)[i] = [after[i] EXCEPT !.version = v]
    BY <1>1 DEF Written
  <2>3. after[i] \in Object /\ InBounds(after[i])
    BY <1>1 DEF ChangeAllowed
  <2> HIDE DEF v
  <2>4. /\ [after[i] EXCEPT !.version = v] \in Object
        /\ [after[i] EXCEPT !.version = v].x = after[i].x
        /\ [after[i] EXCEPT !.version = v].version = v
    BY <2>1, <2>3 DEF Object
  <2> QED  BY <2>2, <2>3, <2>4 DEF Placed, InBounds, v
<1>4. \A i \in Ids \ DOMAIN after : Written(after)[i] = rows[i]
  BY DEF Written
<1>5. \A i \in Ids : Written(after)[i] \in Placed \union {None}
  BY <1>2, <1>3, <1>4 DEF Table
<1>6. Written(after) \in Table
  <2>1. Written(after) = [i \in Ids |-> Written(after)[i]]
    BY DEF Written
  <2> QED  BY <1>5, <2>1 DEF Table
<1> QED  BY <1>1, <1>3, <1>4, <1>6, PlacedType

\* The table is stored with a receipt of its change.
LEMMA StoreStep ==
  ASSUME TypeInv, NEW action \in Action, NEW affected \in SUBSET Ids, NEW table \in Table,
         NEW target \in Nat, Store(action, affected, table, target),
         \A i \in affected :
           /\ table[i] # None
           /\ table[i].version = IF rows[i] = None THEN 1 ELSE rows[i].version + 1,
         \A i \in Ids \ affected : table[i] = rows[i]
  PROVE  /\ rows' = table
         /\ Fits(table)
         /\ revision' = revision + 1
         /\ revision' \in 0 .. RevisionLimit
         /\ receipts' \in Seq(Receipts)
         /\ Len(receipts') = revision'
         /\ \A k \in 1 .. revision : receipts'[k] = receipts[k]
         /\ receipts'[revision'].action = action
         /\ receipts'[revision'].target = target
         /\ DOMAIN receipts'[revision'].after = affected
         /\ Records(receipts'[revision'], rows, table)
         /\ history' = Replay(history, receipts', revision')
<1> DEFINE r == Receipt(action, affected, table, target)
<1>1. /\ rows \in Table /\ revision \in Nat /\ RevisionLimit \in Nat
      /\ receipts \in Seq(Receipts) /\ Len(receipts) = revision
  BY DatabaseAssumption DEF TypeInv
<1>2. /\ rows' = table /\ Fits(table) /\ revision' = revision + 1 /\ revision < RevisionLimit
      /\ receipts' = Append(receipts, r)
      /\ history' = Replay(history, receipts', revision')
  BY DEF Store
<1>3. r \in Receipts
  <2>1. [i \in affected |-> rows[i]] \in [affected -> Placed \union {None}]
    BY <1>1 DEF Table
  <2>2. \A i \in affected : table[i] \in Placed
    BY DEF Table
  <2>3. [i \in affected |-> table[i]] \in [affected -> Placed]
    BY <2>2
  <2>4. \A i \in affected :
          [ expected |-> Mutable(table[i]),
            restore  |-> IF rows[i] = None THEN None ELSE Mutable(rows[i]) ] \in Reversal
    BY <1>1, <2>2 DEF Reversal, Table
  <2>5. [i \in affected |-> [ expected |-> Mutable(table[i]),
            restore  |-> IF rows[i] = None THEN None ELSE Mutable(rows[i]) ]]
          \in [affected -> Reversal]
    BY <2>4
  <2> QED  BY <2>1, <2>3, <2>5, Zenon DEF Receipts, Receipt
<1>4. /\ r.action = action /\ r.target = target
      /\ r.before = [i \in affected |-> rows[i]]
      /\ r.after = [i \in affected |-> table[i]]
      /\ r.inverse = [i \in affected |-> [ expected |-> Mutable(table[i]),
            restore  |-> IF rows[i] = None THEN None ELSE Mutable(rows[i]) ]]
  BY DEF Receipt
<1> HIDE DEF r
<1>5. /\ receipts' \in Seq(Receipts) /\ Len(receipts') = revision'
      /\ \A k \in 1 .. revision : receipts'[k] = receipts[k]
      /\ receipts'[revision'] = r
  BY <1>1, <1>2, <1>3
<1>6. Records(r, rows, table)
  BY <1>4 DEF Records
<1>7. revision' \in 0 .. RevisionLimit
  BY <1>1, <1>2
<1> QED  BY <1>2, <1>4, <1>5, <1>6, <1>7

LEMMA LatestStep ==
  ASSUME TypeInv, LatestInv, revision' = revision + 1, NEW table, rows' = table,
         \A k \in 1 .. revision : receipts'[k] = receipts[k],
         Records(receipts'[revision'], rows, table)
  PROVE  LatestInv'
<1> SUFFICES ASSUME NEW i \in Ids, NEW k \in 1 .. revision',
                    i \in DOMAIN receipts'[k].after,
                    \A l \in k + 1 .. revision' : i \notin DOMAIN receipts'[l].after
             PROVE  rows'[i] = receipts'[k].after[i]
  BY DEF LatestInv
<1>1. revision \in Nat
  BY DatabaseAssumption DEF TypeInv
<1>2. CASE k = revision'
  BY <1>2 DEF Records
<1>3. CASE k # revision'
  <2>1. k \in 1 .. revision /\ revision' \in k + 1 .. revision'
    BY <1>1, <1>3
  <2>2. \A l \in k + 1 .. revision : l \in 1 .. revision /\ l \in k + 1 .. revision'
    BY <1>1, <2>1
  <2>3. rows[i] = receipts[k].after[i]
    BY <2>1, <2>2 DEF LatestInv
  <2>4. rows'[i] = rows[i]
    BY <2>1 DEF Records
  <2> QED  BY <2>1, <2>3, <2>4
<1> QED  BY <1>2, <1>3

\* The present canvas joins the past ones.
LEMMA PastStep ==
  ASSUME TypeInv, NEW c, Past(c), revision' = revision + 1, NEW table \in Table, rows' = table,
         Fits(table),
         \A k \in 1 .. revision : receipts'[k] = receipts[k],
         Records(receipts'[revision'], rows, table),
         NEW d, d = [k \in 0 .. revision + 1 |-> IF k = revision + 1 THEN table ELSE c[k]]
  PROVE  Past(d)'
<1>1. revision \in Nat
  BY DatabaseAssumption DEF TypeInv
<1>2. /\ c \in [0 .. revision -> Table] /\ c[revision] = rows
      /\ \A k \in 0 .. revision : Fits(c[k])
      /\ \A k \in 1 .. revision : Records(receipts[k], c[k - 1], c[k])
  BY DEF Past
<1>3. d[revision'] = table /\ \A k \in 0 .. revision : d[k] = c[k]
  BY <1>1
<1>4. d \in [0 .. revision' -> Table]
  BY <1>1, <1>2
<1>5. \A k \in 0 .. revision' : k = revision' \/ k \in 0 .. revision
  BY <1>1
<1>6. \A k \in 0 .. revision' : Fits(d[k])
  BY <1>2, <1>3, <1>5
<1>7. ASSUME NEW k \in 1 .. revision'  PROVE Records(receipts'[k], d[k - 1], d[k])
  <2>1. CASE k = revision'
    <3>1. d[k - 1] = rows
      BY <1>1, <1>2, <1>3, <2>1
    <3> QED  BY <1>3, <2>1, <3>1
  <2>2. CASE k # revision'
    <3>1. k \in 1 .. revision /\ k - 1 \in 0 .. revision /\ k \in 0 .. revision
      BY <1>1, <2>2
    <3> QED  BY <1>2, <1>3, <3>1
  <2> QED  BY <2>1, <2>2
<1> QED  BY <1>3, <1>4, <1>6, <1>7 DEF Past

-----------------------------------------------------------------------------
(* Reversals.                                                              *)

\* What undo or redo may name can be reversed: the canvas still is as that receipt
\* left it, and its reversal is the canvas before it.
LEMMA ReversalFits ==
  ASSUME TypeInv, NEW c, Past(c), Returns(receipts, revision, c), NEW k \in 1 .. revision,
         IsUndo(receipts, revision, k) \/ IsRedo(receipts, revision, k)
  PROVE  /\ DOMAIN receipts[k].inverse \subseteq Ids
         /\ Unchanged(k)
         /\ Restored(k) \in Table
         /\ \A i \in DOMAIN receipts[k].inverse :
              /\ Restored(k)[i] # None
              /\ Restored(k)[i].version = IF rows[i] = None THEN 1 ELSE rows[i].version + 1
         /\ \A i \in Ids \ DOMAIN receipts[k].inverse : Restored(k)[i] = rows[i]
         /\ Matches(Restored(k), c[k - 1])
         /\ Fits(Restored(k))
<1> DEFINE r == receipts[k]
           to == c[k]
           from == c[k - 1]
<1>1. /\ revision \in Nat /\ revision \in 0 .. revision
      /\ k \in 0 .. revision /\ k - 1 \in 0 .. revision
  BY DatabaseAssumption DEF TypeInv
<1>2. /\ rows \in Table /\ to \in Table /\ from \in Table /\ Fits(from)
      /\ Records(r, from, to) /\ Matches(rows, to)
  BY <1>1 DEF Past, Returns
<1> HIDE DEF r, to, from
<1> DEFINE inverse == r.inverse
<1>3. /\ DOMAIN inverse = DOMAIN r.after /\ DOMAIN inverse \subseteq Ids
      /\ \A i \in DOMAIN inverse :
           /\ to[i] # None
           /\ inverse[i].expected = Mutable(to[i])
           /\ inverse[i].restore = IF from[i] = None THEN None ELSE Mutable(from[i])
      /\ \A i \in Ids \ DOMAIN inverse : to[i] = from[i]
  BY <1>2 DEF Records
<1> HIDE DEF inverse
<1>4. \A i \in Ids :
        /\ rows[i] # None => /\ rows[i] \in Object
                             /\ InBounds(rows[i])
                             /\ rows[i].version \in Nat \ {0}
        /\ from[i] # None => from[i] \in Object /\ InBounds(from[i])
  BY <1>2 DEF Table, Placed, Object
<1>5. \A i \in DOMAIN inverse : rows[i] # None /\ Mutable(rows[i]) = Mutable(to[i])
  BY <1>2, <1>3 DEF Matches
<1>6. \A o \in Object : Mutable(o) # None
  <2>1. \A o \in Object : Mutable(o) \in MutableObject
    BY DEF Mutable, Object, MutableObject
  <2> QED  BY <2>1, DatabaseAssumption
<1>7. ASSUME NEW i \in DOMAIN inverse
      PROVE  /\ Restored(k)[i] \in Placed
             /\ Restored(k)[i].version = rows[i].version + 1
             /\ IF from[i] = None THEN Restored(k)[i].deleted
                ELSE Mutable(Restored(k)[i]) = Mutable(from[i])
  <2> DEFINE v == rows[i].version + 1
             o == IF from[i] = None THEN [rows[i] EXCEPT !.deleted = TRUE] ELSE Mutable(from[i])
  <2>1. rows[i] \in Object /\ InBounds(rows[i]) /\ v \in Nat \ {0} /\ i \in Ids
    <3>1. i \in Ids /\ rows[i] # None
      BY <1>3, <1>5, Zenon
    <3>2. rows[i] \in Object /\ InBounds(rows[i]) /\ rows[i].version \in Nat \ {0}
      BY <1>4, <3>1, Zenon
    <3> QED  BY <3>1, <3>2
  <2>5. from[i] # None => from[i] \in Object /\ InBounds(from[i])
    BY <1>4, <2>1, Zenon
  <2>2. Restored(k)[i] = [o EXCEPT !.version = v]
    <3>1. inverse = receipts[k].inverse
      BY DEF inverse, r
    <3>2. inverse[i].restore = None <=> from[i] = None
      <4>1. inverse[i].restore = IF from[i] = None THEN None ELSE Mutable(from[i])
        BY <1>3, Zenon
      <4>2. from[i] # None => Mutable(from[i]) # None
        BY <1>6, <2>5, Zenon
      <4> QED  BY <4>1, <4>2, Zenon
    <3>3. Restored(k)[i] = [ (IF inverse[i].restore = None THEN [rows[i] EXCEPT !.deleted = TRUE]
                                                          ELSE inverse[i].restore)
                             EXCEPT !.version = rows[i].version + 1 ]
      BY <2>1, <3>1 DEF Restored
    <3>4. (IF inverse[i].restore = None THEN [rows[i] EXCEPT !.deleted = TRUE]
                                        ELSE inverse[i].restore) = o
      BY <1>3, <3>2
    <3> HIDE DEF o
    <3> QED  BY <3>3, <3>4, Zenon DEF v
  <2> HIDE DEF v
  <2>3. CASE from[i] = None
    <3>1. o = [rows[i] EXCEPT !.deleted = TRUE]
      BY <2>3
    <3> HIDE DEF o
    <3>2. /\ [o EXCEPT !.version = v] \in Object
          /\ [o EXCEPT !.version = v].x = rows[i].x
          /\ [o EXCEPT !.version = v].version = v
          /\ [o EXCEPT !.version = v].deleted
      BY <2>1, <3>1 DEF Object
    <3> QED  BY <2>1, <2>2, <2>3, <3>2 DEF Placed, InBounds, v
  <2>4. CASE from[i] # None
    <3>1. o = Mutable(from[i]) /\ from[i] \in Object /\ InBounds(from[i])
      BY <2>4, <2>5, Zenon
    <3> HIDE DEF o
    <3>2. /\ [o EXCEPT !.version = v] \in Object
          /\ [o EXCEPT !.version = v].x = from[i].x
          /\ [o EXCEPT !.version = v].version = v
          /\ Mutable([o EXCEPT !.version = v]) = Mutable(from[i])
      BY <2>1, <3>1 DEF Object, Mutable
    <3> QED  BY <2>2, <2>4, <3>1, <3>2 DEF Placed, InBounds, v
  <2> QED  BY <2>3, <2>4
<1>8. \A i \in Ids \ DOMAIN inverse : Restored(k)[i] = rows[i]
  BY DEF Restored, inverse, r
<1>9. Restored(k) \in Table
  <2>1. \A i \in Ids : Restored(k)[i] \in Placed \union {None}
    BY <1>2, <1>7, <1>8 DEF Table
  <2>2. Restored(k) = [i \in Ids |-> Restored(k)[i]]
    BY DEF Restored
  <2> QED  BY <2>1, <2>2 DEF Table
<1>10. Matches(Restored(k), from)
  <2>1. ASSUME NEW i \in Ids
        PROVE  IF from[i] = None THEN Restored(k)[i] = None \/ Restored(k)[i].deleted
               ELSE Restored(k)[i] # None /\ Mutable(Restored(k)[i]) = Mutable(from[i])
    <3>1. CASE i \in DOMAIN inverse
      BY <1>7, <3>1, PlacedType
    <3>2. CASE i \notin DOMAIN inverse
      <4>1. Restored(k)[i] = rows[i] /\ to[i] = from[i]
        BY <1>3, <1>8, <3>2
      <4> QED  BY <1>2, <4>1 DEF Matches
    <3> QED  BY <3>1, <3>2
  <2> QED  BY <2>1, Zenon DEF Matches
<1>11. Fits(Restored(k))
  BY <1>2, <1>9, <1>10, MatchesFits
<1>12. Unchanged(k)
  BY <1>3, <1>5 DEF Unchanged, inverse, r
<1>13. \A i \in DOMAIN inverse :
         /\ Restored(k)[i] # None
         /\ Restored(k)[i].version = IF rows[i] = None THEN 1 ELSE rows[i].version + 1
  BY <1>5, <1>7, PlacedType
<1> QED  BY <1>3, <1>8, <1>9, <1>10, <1>11, <1>12, <1>13 DEF inverse, r, from

\* The canvases keep returning when one more joins them.
LEMMA ReturnsStep ==
  ASSUME NEW n \in Nat, NEW log, NEW longer, Alike(log, longer, n),
         LogSound(log, n), LogSound(longer, n + 1),
         NEW c \in [0 .. n -> Table], Returns(log, n, c), NEW table \in Table,
         ~IsEdit(longer[n + 1]) => Matches(table, c[longer[n + 1].target - 1]),
         NEW d, d = [k \in 0 .. n + 1 |-> IF k = n + 1 THEN table ELSE c[k]]
  PROVE  Returns(longer, n + 1, d)
<1> DEFINE N == n + 1
           t == longer[N].target
<1>1. /\ N \in Nat \ {0} /\ N \in 1 .. N /\ N - 1 = n
      /\ d[N] = table /\ \A k \in 0 .. n : d[k] = c[k] /\ c[k] \in Table
  OBVIOUS
<1>2. \A m \in 0 .. n : \A k \in Nat : /\ IsUndo(log, m, k) = IsUndo(longer, m, k)
                                     /\ IsRedo(log, m, k) = IsRedo(longer, m, k)
  BY AlikeHistories
<1>3. /\ \A k \in 0 .. N : k = N \/ k \in 0 .. n
      /\ \A k \in 1 .. N : k = N \/ k \in 1 .. n
  OBVIOUS
<1>4. ~IsEdit(longer[N]) => t \in 1 .. n
  BY <1>1, Names DEF IsEdit
<1>5. ASSUME NEW k \in 1 .. N, ~IsEdit(longer[k])
      PROVE  Matches(d[k], d[longer[k].target - 1])
  <2>1. CASE k = N
    <3>1. t - 1 \in 0 .. n
      BY <1>4, <1>5, <2>1
    <3> QED  BY <1>1, <1>5, <2>1, <3>1
  <2>2. CASE k # N
    <3>1. k \in 1 .. n /\ k \in 0 .. n
      BY <1>3, <2>2
    <3>2. longer[k].action = log[k].action /\ longer[k].target = log[k].target
      BY <3>1 DEF Alike
    <3>3. log[k].target - 1 \in 0 .. n
      <4>1. log[k].target \in 1 .. k - 1
        BY <1>5, <3>1, <3>2, Names DEF IsEdit
      <4> QED  BY <3>1, <4>1
    <3>4. Matches(c[k], c[log[k].target - 1])
      BY <1>5, <3>1, <3>2 DEF Returns, IsEdit
    <3> QED  BY <1>1, <3>1, <3>2, <3>3, <3>4
  <2> QED  BY <2>1, <2>2
<1>6. ASSUME NEW m \in 0 .. N, NEW k \in 1 .. m, IsUndo(longer, m, k) \/ IsRedo(longer, m, k)
      PROVE  Matches(d[m], d[k])
  <2>1. CASE m # N
    <3>1. m \in 0 .. n /\ k \in 0 .. n /\ k \in Nat
      BY <1>3, <2>1
    <3>2. IsUndo(log, m, k) \/ IsRedo(log, m, k)
      BY <1>2, <1>6, <3>1
    <3>3. Matches(c[m], c[k])
      BY <3>1, <3>2 DEF Returns
    <3> QED  BY <1>1, <3>1, <3>3
  <2>2. CASE m = N
    <3>1. CASE k = N
      BY <1>1, <2>2, <3>1, MatchesReflexive
    <3>2. CASE k # N
      <4>1. ~IsEdit(longer[N]) /\ k \in 1 .. n
        BY <1>1, <1>3, <1>6, <2>2, <3>2, AfterEdit
      <4>2. t \in 1 .. n /\ t - 1 \in 0 .. n
        BY <1>4, <4>1
      <4>3. IsUndo(longer, t - 1, k) \/ IsRedo(longer, t - 1, k)
        <5>1. CASE longer[N].action = "undo"
          BY <1>1, <1>6, <2>2, <3>2, <5>1, AfterUndo
        <5>2. CASE longer[N].action = "redo"
          BY <1>1, <1>6, <2>2, <3>2, <5>2, AfterRedo
        <5> QED  BY <4>1, <5>1, <5>2 DEF IsEdit
      <4>4. k \in 1 .. t - 1
        BY <4>1, <4>3 DEF IsUndo, IsRedo, OpenAt, OpenUndosAt
      <4>5. IsUndo(log, t - 1, k) \/ IsRedo(log, t - 1, k)
        BY <1>2, <4>1, <4>2, <4>3, SMTT(30)
      <4>6. Matches(c[t - 1], c[k])
        BY <4>2, <4>4, <4>5 DEF Returns
      <4>7. Matches(table, c[t - 1])
        BY <4>1
      <4>8. c[t - 1] \in Table /\ c[k] \in Table /\ d[k] = c[k]
        BY <1>1, <4>1, <4>2
      <4> HIDE DEF t
      <4> QED  BY <1>1, <2>2, <4>6, <4>7, <4>8, MatchesTransitive
    <3> QED  BY <3>1, <3>2
  <2> QED  BY <2>1, <2>2
<1> QED  BY <1>5, <1>6 DEF Returns

-----------------------------------------------------------------------------
(* The loaded history.                                                     *)

LEMMA EffectsOfIs ==
  ASSUME NEW log, NEW n \in Nat, Len(log) = n, LogSound(log, n), NEW E, IsEffects(E, log, n),
         NEW k \in 1 .. n
  PROVE  EffectsOf(log, k) = E[k]
<1> DEFINE F == CHOOSE F : IsEffects(F, log, n)
<1>1. IsEffects(F, log, n)
  BY EffectsExist
<1>2. EffectsOf(log, k) = F[k]
  BY DEF EffectsOf, IsEffects
<1> HIDE DEF F
<1>3. Alike(log, log, n)
  BY DEF Alike
<1>4. n =< n
  OBVIOUS
<1>5. \A j \in 1 .. n : E[j] = F[j]
  BY <1>1, <1>3, <1>4, EffectsAgree
<1> QED  BY <1>2, <1>5

\* An undo that has been redone leaves the stack, wherever it stood.
LEMMA WithoutIs ==
  ASSUME NEW n \in Nat, NEW s, Stacked(s, n, Elements(s)), NEW u
  PROVE  Stacked(Without(s, u), n, Elements(s) \ {u})
<1>0. s \in Seq(1 .. n) /\ \A k, l \in 1 .. Len(s) : k < l => s[k] < s[l]
  BY DEF Stacked
<1> DEFINE places == { m \in 1 .. Len(s) : s[m] # u }
           r == Without(s, u)
<1>1. /\ r \in Seq(1 .. n)
      /\ \E g : Picks(g, r, s, places)
  BY <1>0, SelectedIs DEF Without
<1>2. PICK g : Picks(g, r, s, places)
  BY <1>1
<1> HIDE DEF r
<1>3. /\ g \in [1 .. Len(r) -> Nat]
      /\ \A k, l \in 1 .. Len(r) : k < l => g[k] < g[l]
      /\ { g[k] : k \in 1 .. Len(r) } = places
      /\ \A k \in 1 .. Len(r) : r[k] = s[g[k]]
  <2>1. places \cap (1 .. Len(s)) = places
    OBVIOUS
  <2> QED  BY <1>2, <2>1 DEF Picks
<1>4. \A k \in 1 .. Len(r) : g[k] \in places
  BY <1>3
<1>5. \A k, l \in 1 .. Len(r) : k < l => r[k] < r[l]
  BY <1>0, <1>3, <1>4
<1>6. ASSUME NEW m \in places  PROVE \E k \in 1 .. Len(r) : s[m] = r[k]
  BY <1>3
<1>7. { r[k] : k \in 1 .. Len(r) } = { s[k] : k \in 1 .. Len(s) } \ {u}
  <2>1. ASSUME NEW x \in { r[k] : k \in 1 .. Len(r) }
        PROVE  x \in { s[k] : k \in 1 .. Len(s) } \ {u}
    <3>1. PICK k \in 1 .. Len(r) : x = r[k]
      OBVIOUS
    <3>2. x = s[g[k]] /\ g[k] \in 1 .. Len(s) /\ s[g[k]] # u
      BY <1>3, <1>4, <3>1
    <3> QED  BY <3>2
  <2>2. ASSUME NEW x \in { s[k] : k \in 1 .. Len(s) } \ {u}
        PROVE  x \in { r[k] : k \in 1 .. Len(r) }
    <3>1. PICK m \in places : x = s[m]
      OBVIOUS
    <3> QED  BY <1>6, <3>1
  <2> QED  BY <2>1, <2>2
<1>8. Stacked(r, n, Elements(s) \ {u})
  BY <1>1, <1>5, <1>7, Zenon DEF Stacked, Elements
<1> QED  BY <1>8 DEF r

LEMMA LoadedType ==
  ASSUME NEW undone \in SUBSET Nat, NEW redo \in Seq(Nat),
         NEW g, g = [ undone |-> undone, redo |-> redo, sound |-> TRUE ]
  PROVE  /\ g \in [ undone : SUBSET Nat, redo : Seq(Nat), sound : BOOLEAN ]
         /\ g.undone = undone /\ g.redo = redo /\ g.sound
  OBVIOUS

\* One more receipt replays.
LEMMA HistoryStep ==
  ASSUME NEW n \in Nat, NEW log, NEW longer, Len(longer) = n + 1, Alike(log, longer, n),
         NEW h \in [ undone : SUBSET Nat, redo : Seq(Nat), sound : BOOLEAN ],
         LogSound(log, n), NEW E, IsEffects(E, log, n), UndoneSound(log, n, E, h.undone),
         RedoSound(log, n, h.redo), h.sound,
         NamesSoundly(longer, n + 1),
         NEW g, g = Replay(h, longer, n + 1)
  PROVE  /\ g \in [ undone : SUBSET Nat, redo : Seq(Nat), sound : BOOLEAN ]
         /\ LogSound(longer, n + 1)
         /\ \E F : IsEffects(F, longer, n + 1) /\ UndoneSound(longer, n + 1, F, g.undone)
         /\ RedoSound(longer, n + 1, g.redo)
         /\ g.sound
<1> DEFINE N == n + 1
           r == longer[N]
<1>1. /\ LogSound(longer, N) /\ RedoSound(longer, n, h.redo)
      /\ \E F : IsEffects(F, longer, N) /\ UndoneSound(longer, n, F, h.undone)
  BY PlannerStep
<1>2. PICK F : IsEffects(F, longer, N) /\ UndoneSound(longer, n, F, h.undone)
  BY <1>1
<1>3. N \in Nat \ {0} /\ N \in 1 .. N /\ N - 1 = n /\ Len(longer) = N
  OBVIOUS
<1>4. /\ h.undone \in SUBSET Nat /\ h.redo \in Seq(Nat) /\ h.sound \in BOOLEAN
      /\ h = [undone |-> h.undone, redo |-> h.redo, sound |-> h.sound]
  OBVIOUS
<1>5. CASE IsEdit(r)
  <2>1. g = [h EXCEPT !.redo = << >>]
    BY <1>5 DEF Replay, IsEdit
  <2>2. /\ g \in [ undone : SUBSET Nat, redo : Seq(Nat), sound : BOOLEAN ]
        /\ g.undone = h.undone /\ g.redo = << >> /\ g.sound = h.sound
    <3>1. << >> \in Seq(Nat)
      OBVIOUS
    <3> QED  BY <2>1, <3>1
  <2>3. UndoneSound(longer, N, F, h.undone)
    BY <1>1, <1>2, <1>3, <1>5, UndoneAfterEdit
  <2>4. RedoSound(longer, N, << >>)
    BY <1>1, <1>3, <1>5, RedoAfterEdit
  <2> QED  BY <1>1, <1>2, <2>2, <2>3, <2>4
<1>6. CASE r.action = "undo"
  <2> DEFINE t == r.target
  <2>1. t \in 1 .. N - 1 /\ longer[t].action # "undo"
    BY <1>1, <1>3, <1>6, Names
  <2>2. EffectsOf(longer, t) = F[t]
    BY <1>1, <1>2, <1>3, <2>1, EffectsOfIs
  <2>3. g = [ undone |-> h.undone \union F[t], redo |-> Append(h.redo, N), sound |-> TRUE ]
    BY <1>6, <2>1, <2>2 DEF Replay
  <2>4. UndoneSound(longer, N, F, h.undone \union F[t])
    BY <1>1, <1>2, <1>3, <1>6, UndoneAfterUndo
  <2>5. RedoSound(longer, N, Append(h.redo, N))
    BY <1>1, <1>3, <1>6, RedoAfterUndo
  <2>6. F[t] \subseteq Nat
    BY <1>1, <1>2, <1>3, <2>1, EffectsRange
  <2>7. /\ g \in [ undone : SUBSET Nat, redo : Seq(Nat), sound : BOOLEAN ]
        /\ g.undone = h.undone \union F[t] /\ g.redo = Append(h.redo, N) /\ g.sound
    <3>1. h.undone \union F[t] \in SUBSET Nat /\ Append(h.redo, N) \in Seq(Nat)
      BY <1>3, <1>4, <2>6
    <3> DEFINE A == h.undone \union F[t]
               B == Append(h.redo, N)
    <3>2. A \in SUBSET Nat /\ B \in Seq(Nat)
      BY <3>1
    <3>3. g = [ undone |-> A, redo |-> B, sound |-> TRUE ]
      BY <2>3
    <3> HIDE DEF A, B
    <3>4. /\ g \in [ undone : SUBSET Nat, redo : Seq(Nat), sound : BOOLEAN ]
          /\ g.undone = A /\ g.redo = B /\ g.sound
      BY <3>2, <3>3, LoadedType, Zenon
    <3> QED  BY <3>4 DEF A, B
  <2> QED  BY <1>1, <1>2, <2>4, <2>5, <2>7
<1>7. CASE r.action = "redo"
  <2> DEFINE u == r.target
             v == longer[u].target
  <2>1. u \in 1 .. N - 1 /\ longer[u].action = "undo"
    BY <1>1, <1>3, <1>7, Names
  <2>2. u \in 1 .. N /\ v \in 1 .. N
    <3>1. u \in 1 .. N
      BY <2>1
    <3>2. v \in 1 .. u - 1
      BY <1>1, <2>1, <3>1, Names
    <3> QED  BY <3>1, <3>2
  <2>3. EffectsOf(longer, v) = F[v]
    BY <1>1, <1>2, <1>3, <2>2, EffectsOfIs
  <2>4. IsRedo(longer, n, u)
    BY <1>1, <1>3, <1>7 DEF LogSound, NamesSoundly, IsEdit
  <2>5. u \in Range(h.redo)
    <3>1. u \in { h.redo[k] : k \in 1 .. Len(h.redo) }
      BY <1>1, <2>4 DEF RedoSound, IsRedo
    <3>2. DOMAIN h.redo = 1 .. Len(h.redo)
      BY <1>4
    <3> QED  BY <3>1, <3>2 DEF Range
  <2>6. g = [ undone |-> h.undone \ F[v], redo |-> Without(h.redo, u), sound |-> TRUE ]
    BY <1>7, <2>1, <2>3, <2>5 DEF Replay
  <2>7. UndoneSound(longer, N, F, h.undone \ F[v])
    BY <1>1, <1>2, <1>3, <1>7, UndoneAfterRedo
  <2>8. Stacked(h.redo, n, Elements(h.redo))
    BY <1>1 DEF RedoSound, Stacked
  <2> DEFINE left == Without(h.redo, u)
  <2>9. Stacked(left, n, Elements(h.redo) \ {u})
    BY <2>8, WithoutIs
  <2> HIDE DEF left
  <2>10. RedoSound(longer, N, left)
    <3>1. RedoSound(longer, N - 1, h.redo) /\ Stacked(left, N - 1, Elements(h.redo) \ {u})
      BY <1>1, <1>3, <2>9
    <3> HIDE DEF N, u
    <3>2. N \in Nat \ {0} /\ LogSound(longer, N) /\ longer[N].action = "redo"
      BY <1>1, <1>3, <1>7
    <3>3. u = longer[N].target
      BY DEF u
    <3> QED  BY <3>1, <3>2, <3>3, RedoAfterRedo, Zenon
  <2>11. left \in Seq(Nat)
    BY <2>9 DEF Stacked
  <2>12. /\ g \in [ undone : SUBSET Nat, redo : Seq(Nat), sound : BOOLEAN ]
         /\ g.undone = h.undone \ F[v] /\ g.redo = left /\ g.sound
    <3>1. h.undone \ F[v] \in SUBSET Nat
      BY <1>4
    <3>2. g = [ undone |-> h.undone \ F[v], redo |-> left, sound |-> TRUE ]
      BY <2>6 DEF left
    <3> QED  BY <2>11, <3>1, <3>2, LoadedType, Zenon
  <2> QED  BY <1>1, <1>2, <2>7, <2>10, <2>12
<1> QED  BY <1>5, <1>6, <1>7 DEF IsEdit

-----------------------------------------------------------------------------
(* The invariant.                                                          *)

\* One more receipt lengthens the past by the canvas it led to.
Extends(c, d) ==
  /\ revision' = revision + 1
  /\ Longer(c, d, revision)
  /\ Alike(receipts, receipts', revision)
  /\ Past(d)'
  /\ Returns(receipts', revision', d)

Lengthens == \E c, d : Past(c) /\ Returns(receipts, revision, c) /\ Extends(c, d)

\* A stored change keeps the invariant when its receipt names what it may and, if it
\* is a reversal, it leads back to where it should.
LEMMA StoredStep ==
  ASSUME Inv, NEW action \in Action, NEW affected \in SUBSET Ids, NEW table \in Table,
         NEW target \in Nat, Store(action, affected, table, target),
         \A i \in affected :
           /\ table[i] # None
           /\ table[i].version = IF rows[i] = None THEN 1 ELSE rows[i].version + 1,
         \A i \in Ids \ affected : table[i] = rows[i],
         \/ action \notin {"undo", "redo"} /\ target = 0
         \/ action = "undo" /\ IsUndo(receipts, revision, target)
         \/ action = "redo" /\ IsRedo(receipts, revision, target),
         NEW c, Past(c), Returns(receipts, revision, c),
         action \in {"undo", "redo"} => Matches(table, c[target - 1])
  PROVE  Inv' /\ Lengthens
<1> DEFINE r == receipts'[revision']
<1>1. /\ rows' = table /\ Fits(table)
      /\ revision' = revision + 1 /\ revision' \in 0 .. RevisionLimit
      /\ receipts' \in Seq(Receipts) /\ Len(receipts') = revision'
      /\ \A k \in 1 .. revision : receipts'[k] = receipts[k]
      /\ r.action = action /\ r.target = target
      /\ Records(r, rows, table)
      /\ history' = Replay(history, receipts', revision')
  BY StoreStep DEF Inv
<1> HIDE DEF r
<1>2. /\ revision \in Nat /\ Len(receipts) = revision
      /\ history \in [ undone : SUBSET Nat, redo : Seq(Nat), sound : BOOLEAN ]
  BY DatabaseAssumption DEF Inv, TypeInv
<1>3. Alike(receipts, receipts', revision)
  BY <1>1 DEF Alike
<1>4. NamesSoundly(receipts', revision + 1)
  <2>1. receipts'[revision + 1].action = action /\ receipts'[revision + 1].target = target
    BY <1>1 DEF r
  <2>2. revision \in 0 .. revision /\ (revision + 1) - 1 = revision
    BY <1>2
  <2>3. /\ IsUndo(receipts, revision, target) = IsUndo(receipts', revision, target)
        /\ IsRedo(receipts, revision, target) = IsRedo(receipts', revision, target)
    BY <1>2, <1>3, <2>2, AlikeHistories
  <2> QED  BY <2>1, <2>2, <2>3 DEF NamesSoundly, IsEdit
<1>5. PICK E : /\ IsEffects(E, receipts, revision)
               /\ UndoneSound(receipts, revision, E, history.undone)
  BY DEF Inv, HistoryInv
<1>6. LogSound(receipts, revision) /\ RedoSound(receipts, revision, history.redo) /\ history.sound
  BY DEF Inv, HistoryInv
<1>7. PICK g : g = history'
  OBVIOUS
<1>8. PICK longer : longer = receipts'
  OBVIOUS
<1>9. /\ g \in [ undone : SUBSET Nat, redo : Seq(Nat), sound : BOOLEAN ]
      /\ LogSound(longer, revision + 1)
      /\ \E F : IsEffects(F, longer, revision + 1) /\ UndoneSound(longer, revision + 1, F, g.undone)
      /\ RedoSound(longer, revision + 1, g.redo)
      /\ g.sound
  <2>1. Len(longer) = revision + 1 /\ g = Replay(history, longer, revision + 1)
    BY <1>1, <1>7, <1>8
  <2>2. Alike(receipts, longer, revision) /\ NamesSoundly(longer, revision + 1)
    BY <1>3, <1>4, <1>8
  <2> QED  BY <1>2, <1>5, <1>6, <2>1, <2>2, HistoryStep
<1>10. HistoryInv'
  BY <1>1, <1>7, <1>8, <1>9 DEF HistoryInv
<1>11. TypeInv'
  BY <1>1, <1>7, <1>9 DEF TypeInv
<1>12. LatestInv'
  BY <1>1, LatestStep DEF Inv, r
<1>13. PICK d : d = [k \in 0 .. revision + 1 |-> IF k = revision + 1 THEN table ELSE c[k]]
  OBVIOUS
<1>14. Past(d)'
  BY <1>1, <1>13, PastStep DEF Inv, r
<1>15. Returns(longer, revision + 1, d)
  <2>1. Alike(receipts, longer, revision)
    BY <1>3, <1>8
  <2>2. c \in [0 .. revision -> Table]
    BY DEF Past
  <2>3. ~IsEdit(longer[revision + 1]) => Matches(table, c[longer[revision + 1].target - 1])
    <3>1. longer[revision + 1].action = action /\ longer[revision + 1].target = target
      BY <1>1, <1>8 DEF r
    <3> QED  BY <3>1 DEF IsEdit
  <2>4. LogSound(receipts, revision) /\ LogSound(longer, revision + 1) /\ revision \in Nat
    BY <1>2, <1>6, <1>9
  <2> QED  BY <1>13, <2>1, <2>2, <2>3, <2>4, ReturnsStep
<1>16. Returns(receipts', revision', d)
  BY <1>1, <1>8, <1>15
<1>17. Extends(c, d)
  <2>1. Longer(c, d, revision)
    BY <1>2, <1>13 DEF Longer
  <2> QED  BY <1>1, <1>3, <1>14, <1>16, <2>1 DEF Extends
<1>18. Inv'
  BY <1>10, <1>11, <1>12, <1>14, <1>16 DEF Inv
<1> QED  BY <1>17, <1>18 DEF Lengthens

LEMMA InvInit ==
  ASSUME Init
  PROVE  Inv
<1>1. /\ rows = [i \in Ids |-> None] /\ revision = 0 /\ receipts = << >>
      /\ history = [undone |-> {}, redo |-> << >>, sound |-> TRUE]
  BY DEF Init
<1>2. rows \in Table
  BY <1>1 DEF Table
<1>3. TypeInv
  <2>1. /\ history \in [ undone : SUBSET Nat, redo : Seq(Nat), sound : BOOLEAN ]
        /\ history.undone = {} /\ history.redo = << >> /\ history.sound
    BY <1>1, LoadedType
  <2> QED  BY <1>1, <1>2, <2>1, DatabaseAssumption DEF TypeInv
<1>4. LatestInv
  BY <1>1 DEF LatestInv
<1>5. HistoryInv
  <2>1. LogSound(receipts, 0)
    BY DEF LogSound
  <2>2. PICK E : IsEffects(E, receipts, 0)
    BY <2>1, EffectsExist
  <2>3. OpenAt(receipts, 0) = {} /\ OpenUndosAt(receipts, 0) = {}
    BY DEF OpenAt, OpenUndosAt
  <2>4. UndoneSound(receipts, 0, E, {})
    BY <2>3 DEF UndoneSound, Heads
  <2>5. RedoSound(receipts, 0, << >>)
    BY <2>3 DEF RedoSound
  <2>6. history.undone = {} /\ history.redo = << >> /\ history.sound
    BY <1>1
  <2> QED  BY <1>1, <2>1, <2>2, <2>4, <2>5, <2>6 DEF HistoryInv
<1>6. Fits(rows)
  <2>1. Live(rows) = {}
    BY <1>1 DEF Live, ActiveIn
  <2>2. Cardinality({}) = 0
    BY FS_EmptySet
  <2> QED  BY <2>1, <2>2, DatabaseAssumption DEF Fits, ParentGraphSound
<1>7. Past([k \in 0 .. 0 |-> rows])
  BY <1>1, <1>2, <1>6 DEF Past
<1>8. Returns(receipts, revision, [k \in 0 .. 0 |-> rows])
  <2>1. \A m \in 0 .. 0 : 1 .. m = {}
    OBVIOUS
  <2> QED  BY <1>1, <2>1 DEF Returns
<1> QED  BY <1>3, <1>4, <1>5, <1>7, <1>8 DEF Inv

\* What the database lets undo and redo name, in the terms of a log.
LEMMA UndoTargetsAre ==
  ASSUME TypeInv
  PROVE  /\ \A k : k \in UndoTargets <=> IsUndo(receipts, revision, k)
         /\ UndoTargets = {} <=> OpenAt(receipts, revision) = {}
<1> DEFINE open == OpenAt(receipts, revision)
<1>1. UndoTargets = IF open = {} THEN {} ELSE {Max(open)}
  BY DEF UndoTargets, Named, OpenAt, TypeInv
<1>2. open \subseteq 0 .. revision /\ open \subseteq Nat /\ revision \in Nat
  BY DatabaseAssumption DEF OpenAt, TypeInv
<1>3. open # {} => Max(open) \in open /\ \A l \in open : l =< Max(open)
  BY <1>2, MaxIs
<1> HIDE DEF open
<1>4. ASSUME NEW k \in open, \A l \in open : l =< k  PROVE k = Max(open)
  <2>1. PICK m : m = Max(open)
    OBVIOUS
  <2>2. m \in open /\ k =< m /\ m =< k /\ m \in Nat /\ k \in Nat
    BY <1>2, <1>3, <1>4, <2>1
  <2> QED  BY <2>1, <2>2
<1>5. \A k : k \in UndoTargets <=> k \in open /\ \A l \in open : l =< k
  BY <1>1, <1>3, <1>4
<1> QED  BY <1>1, <1>5 DEF IsUndo, open

LEMMA RedoTargetsAre ==
  ASSUME TypeInv
  PROVE  /\ \A k : k \in RedoTargets <=> IsRedo(receipts, revision, k)
         /\ RedoTargets = {} \/ \E k : RedoTargets = {k}
<1> DEFINE open == OpenUndosAt(receipts, revision)
<1>1. RedoTargets = IF open = {} \/ Edited(receipts, Max(open), revision) THEN {}
                    ELSE {Max(open)}
  <2>1. Len(receipts) = revision
    BY DEF TypeInv
  <2>2. { n \in 1 .. Len(receipts) : receipts[n].action = "undo" /\ ~Named(n) } = open
    BY <2>1 DEF Named, OpenUndosAt
  <2>3. \A n : (\E m \in n + 1 .. Len(receipts) : receipts[m].action \notin {"undo", "redo"})
                <=> Edited(receipts, n, revision)
    BY <2>1 DEF Edited, IsEdit
  <2> HIDE DEF open
  <2> QED  BY <2>2, <2>3, Zenon DEF RedoTargets
<1>2. open \subseteq 0 .. revision /\ open \subseteq Nat /\ revision \in Nat
  BY DatabaseAssumption DEF OpenUndosAt, TypeInv
<1>3. open # {} => Max(open) \in open /\ \A l \in open : l =< Max(open)
  BY <1>2, MaxIs
<1> HIDE DEF open
<1>4. ASSUME NEW k \in open, \A l \in open : l =< k  PROVE k = Max(open)
  <2>1. PICK m : m = Max(open)
    OBVIOUS
  <2>2. m \in open /\ k =< m /\ m =< k /\ m \in Nat /\ k \in Nat
    BY <1>2, <1>3, <1>4, <2>1
  <2> QED  BY <2>1, <2>2
<1>5. \A k : k \in RedoTargets <=> /\ k \in open
                                 /\ \A l \in open : l =< k
                                 /\ ~Edited(receipts, k, revision)
  BY <1>1, <1>3, <1>4
<1> QED  BY <1>1, <1>5 DEF IsRedo, open

LEMMA InvNext ==
  ASSUME Inv, [Next]_vars
  PROVE  Inv' /\ (Lengthens \/ UNCHANGED vars)
<1>1. PICK c : Past(c) /\ Returns(receipts, revision, c)
  BY DEF Inv
<1>2. TypeInv /\ revision \in Nat /\ revision \in 0 .. revision
  BY DatabaseAssumption DEF Inv, TypeInv
<1>3. ASSUME NEW action \in Action \ {"undo", "redo"}, NEW after \in Patches,
             CommitChange(action, after)
      PROVE  Inv' /\ Lengthens
  <2> DEFINE table == Written(after)
  <2>1. /\ \A i \in DOMAIN after : ChangeAllowed(i, after[i])
        /\ Store(action, DOMAIN after, table, 0)
    BY <1>3 DEF CommitChange
  <2>2. /\ DOMAIN after \in SUBSET Ids
        /\ table \in Table
        /\ \A i \in DOMAIN after :
             /\ table[i] # None
             /\ table[i].version = IF rows[i] = None THEN 1 ELSE rows[i].version + 1
        /\ \A i \in Ids \ DOMAIN after : table[i] = rows[i]
    BY <1>2, <2>1, WrittenTable
  <2> HIDE DEF table
  <2>3. action \in Action /\ action \notin {"undo", "redo"} /\ 0 \in Nat
    OBVIOUS
  <2> QED  BY <1>1, <2>1, <2>2, <2>3, StoredStep
<1>4. ASSUME NEW action \in {"undo", "redo"}, NEW k, CommitReversal(action, k),
             action = "undo" => IsUndo(receipts, revision, k),
             action = "redo" => IsRedo(receipts, revision, k)
      PROVE  Inv' /\ Lengthens
  <2> DEFINE affected == DOMAIN receipts[k].inverse
             table == Restored(k)
  <2>1. k \in 1 .. revision /\ k \in Nat
    BY <1>4 DEF IsUndo, IsRedo, OpenAt, OpenUndosAt
  <2>2. /\ affected \in SUBSET Ids
        /\ table \in Table
        /\ \A i \in affected :
             /\ table[i] # None
             /\ table[i].version = IF rows[i] = None THEN 1 ELSE rows[i].version + 1
        /\ \A i \in Ids \ affected : table[i] = rows[i]
        /\ Matches(table, c[k - 1])
    BY <1>1, <1>2, <1>4, <2>1, ReversalFits
  <2>3. Store(action, affected, table, k)
    BY <1>4 DEF CommitReversal
  <2>4. action \in Action
    BY DEF Action
  <2> HIDE DEF affected, table
  <2> QED  BY <1>1, <1>4, <2>1, <2>2, <2>3, <2>4, StoredStep
<1>5. CASE UndoLatest
  <2>1. PICK k : k \in UndoTargets /\ CommitReversal("undo", k)
    BY <1>5 DEF UndoLatest
  <2>2. IsUndo(receipts, revision, k)
    BY <1>2, <2>1, UndoTargetsAre
  <2> QED  BY <1>4, <2>1, <2>2
<1>6. CASE RedoLatest
  <2>1. PICK k : k \in RedoTargets /\ CommitReversal("redo", k)
    BY <1>6 DEF RedoLatest
  <2>2. IsRedo(receipts, revision, k)
    BY <1>2, <2>1, RedoTargetsAre
  <2> QED  BY <1>4, <2>1, <2>2
<1>7. CASE UNCHANGED vars
  <2>1. rows' = rows /\ revision' = revision /\ receipts' = receipts /\ history' = history
    BY <1>7 DEF vars
  <2>2. TypeInv'
    BY <1>2, <2>1 DEF TypeInv
  <2>3. LatestInv'
    BY <2>1 DEF Inv, LatestInv
  <2>4. HistoryInv'
    BY <2>1 DEF Inv, HistoryInv
  <2>5. Past(c)' /\ Returns(receipts', revision', c)
    BY <1>1, <2>1 DEF Past
  <2> QED  BY <1>7, <2>2, <2>3, <2>4, <2>5 DEF Inv
<1> QED  BY <1>2, <1>3, <1>5, <1>6, <1>7, NextCases

\* Through every mix of commands, undos and redos the invariant holds.
THEOREM RoomInvariant == Spec => []Inv
<1>1. Init => Inv
  BY InvInit
<1>2. Inv /\ [Next]_vars => Inv'
  BY InvNext
<1> QED  BY <1>1, <1>2, PTL DEF Spec

-----------------------------------------------------------------------------
(* What it gives.                                                          *)

LEMMA InvTyped ==
  ASSUME Inv
  PROVE  TypeOK
<1>1. PICK c : Past(c) /\ Returns(receipts, revision, c)
  BY DEF Inv
<1>2. TypeInv /\ LogSound(receipts, revision) /\ revision \in Nat
  BY DatabaseAssumption DEF Inv, TypeInv, HistoryInv
<1>3. rows \in Canvas /\ revision \in 0 .. RevisionLimit /\ Len(receipts) = revision
  BY <1>2, PlacedType DEF TypeInv
<1>4. history.undone \subseteq 1 .. revision /\ history.redo \in Seq(1 .. revision)
  BY DEF Inv, HistoryInv, UndoneSound, RedoSound
<1>5. ASSUME NEW k \in 1 .. revision
      PROVE  /\ receipts[k].action \in Action
             /\ receipts[k].target \in 0 .. k - 1
             /\ DOMAIN receipts[k].inverse = DOMAIN receipts[k].after
             /\ DOMAIN receipts[k].before = DOMAIN receipts[k].after
  <2>1. receipts[k] \in Receipts
    BY <1>2 DEF TypeInv
  <2>2. receipts[k].action \in Action
    BY <2>1 DEF Receipts
  <2>3. receipts[k].target \in 0 .. k - 1
    BY <1>2, Names DEF IsEdit
  <2>4. Records(receipts[k], c[k - 1], c[k])
    BY <1>1 DEF Past
  <2> QED  BY <2>2, <2>3, <2>4 DEF Records
<1> QED  BY <1>3, <1>4, <1>5 DEF TypeOK

\* Whatever the database has committed loads again: types, consecutive versions,
\* rows that are the after state of their latest receipt, undo and redo receipts
\* that replay, and a sound hierarchy (parseCanvasPersistenceRows,
\* reconstructHistory, validateHierarchy).
THEOREM EverythingCommittedLoads == Spec => []CommittedLoads
<1>1. ASSUME Inv  PROVE CommittedLoads
  <2>1. PICK c : Past(c) /\ Returns(receipts, revision, c)
    BY <1>1 DEF Inv
  <2>2. /\ TypeInv /\ LatestInv /\ history.sound
        /\ revision \in Nat /\ Len(receipts) = revision /\ revision \in 0 .. revision
    BY <1>1, DatabaseAssumption DEF Inv, TypeInv, HistoryInv
  <2>3. ASSUME NEW k \in 1 .. Len(receipts), NEW i \in DOMAIN receipts[k].after
        PROVE  /\ receipts[k].after[i] # None
               /\ receipts[k].after[i].version =
                    IF receipts[k].before[i] = None THEN 1
                    ELSE receipts[k].before[i].version + 1
    <3>1. Records(receipts[k], c[k - 1], c[k])
      BY <2>1, <2>2 DEF Past
    <3> QED  BY <3>1 DEF Records
  <2>4. ASSUME NEW i \in Ids, { k \in 1 .. Len(receipts) : i \in DOMAIN receipts[k].after } # {}
        PROVE  rows[i] =
                 receipts[Max({ k \in 1 .. Len(receipts) : i \in DOMAIN receipts[k].after })].after[i]
    <3> DEFINE touching == { k \in 1 .. Len(receipts) : i \in DOMAIN receipts[k].after }
    <3>1. touching \subseteq 0 .. revision /\ touching # {}
      BY <2>2, <2>4
    <3>2. Max(touching) \in touching /\ \A k \in touching : k =< Max(touching)
      BY <2>2, <3>1, MaxIs
    <3>3. PICK m : m = Max(touching)
      OBVIOUS
    <3>4. m \in 1 .. revision /\ i \in DOMAIN receipts[m].after
      BY <2>2, <3>2, <3>3
    <3>5. \A l \in m + 1 .. revision : i \notin DOMAIN receipts[l].after
      <4>1. \A l \in m + 1 .. revision : l \in 1 .. Len(receipts) /\ ~ (l =< m)
        BY <2>2, <3>4
      <4> QED  BY <3>2, <3>3, <4>1
    <3> QED  BY <2>2, <3>3, <3>4, <3>5 DEF LatestInv
  <2>5. Engine!HierarchySound
    <3>1. ParentGraphSound(rows)
      BY <2>1, <2>2 DEF Past, Fits
    <3> QED  BY <3>1 DEF ParentGraphSound, Live, ActiveIn, Children, Descendants,
               Engine!HierarchySound, Engine!Active, Engine!ActiveIn, Engine!Children,
               Engine!Descendants
  <2> QED  BY <1>1, <2>2, <2>3, <2>4, <2>5, InvTyped DEF CommittedLoads
<1> QED  BY <1>1, RoomInvariant, PTL

\* Undo and redo are never stuck between the planner's idea of the history and the
\* database's: both name the same receipts, and what they name can be reversed: its
\* objects still are as its inverse expects, and the canvas before it is a sound one
\* within the object limit (buildCanvasMutationPlan,
\* commit_canvas_mutation_at_revision).
THEOREM EveryReversalAgrees == Spec => []ReversalsAgree
<1>1. ASSUME Inv  PROVE ReversalsAgree
  <2>1. PICK c : Past(c) /\ Returns(receipts, revision, c)
    BY <1>1 DEF Inv
  <2>2. /\ TypeInv /\ revision \in Nat /\ Len(receipts) = revision
        /\ LogSound(receipts, revision) /\ RedoSound(receipts, revision, history.redo)
    BY <1>1, DatabaseAssumption DEF Inv, TypeInv, HistoryInv
  <2>3. PICK E : /\ IsEffects(E, receipts, revision)
                 /\ UndoneSound(receipts, revision, E, history.undone)
    BY <1>1 DEF Inv, HistoryInv
  <2>10. PICK undoable :
           undoable = { k \in 1 .. revision : receipts[k].action # "undo" /\ k \notin history.undone }
    OBVIOUS
  <2>4. /\ OpenAt(receipts, revision) \subseteq undoable
        /\ undoable # {} => IsUndo(receipts, revision, Max(undoable))
    BY <2>2, <2>3, <2>10, PlannerUndo
  <2>11. /\ history.redo = << >> => \A u : ~IsRedo(receipts, revision, u)
         /\ history.redo # << >> => IsRedo(receipts, revision, history.redo[Len(history.redo)])
    BY <2>2, PlannerRedo
  <2>5. Engine!Undoable = undoable
    BY <2>2, <2>10 DEF Engine!Undoable
  <2>6. UndoTargets = IF undoable = {} THEN {} ELSE {Max(undoable)}
    <3>1. \A j, k \in UndoTargets : j = k
      BY <2>2, UndoTargetsAre DEF IsUndo, OpenAt
    <3> QED  BY <2>2, <2>4, <3>1, UndoTargetsAre
  <2>7. RedoTargets = IF history.redo = << >> THEN {} ELSE {Last(history.redo)}
    BY <2>2, <2>4, <2>11, RedoTargetsAre DEF Last
  <2>8. HistoriesAgree
    BY <2>5, <2>6, <2>7 DEF HistoriesAgree
  <2>9. ReversalsFit
    <3> SUFFICES ASSUME NEW k \in UndoTargets \union RedoTargets
                 PROVE  Unchanged(k) /\ Fits(Restored(k))
      BY DEF ReversalsFit
    <3>1. IsUndo(receipts, revision, k) \/ IsRedo(receipts, revision, k)
      BY <2>2, UndoTargetsAre, RedoTargetsAre
    <3>2. k \in 1 .. revision
      BY <3>1 DEF IsUndo, IsRedo, OpenAt, OpenUndosAt
    <3> QED  BY <2>1, <2>2, <3>1, <3>2, ReversalFits
  <2> QED  BY <2>8, <2>9 DEF ReversalsAgree
<1> QED  BY <1>1, RoomInvariant, PTL

-----------------------------------------------------------------------------
(* What the engine plans, the database commits.                            *)

Accepted(after) ==
  /\ InNumber(after)
  /\ \A i \in DOMAIN after : ChangeAllowed(i, after[i])
  /\ ParentGraphSound(Written(after))

LEMMA HierarchyIs ==
  ASSUME NEW table
  PROVE  ParentGraphSound(table) <=> Hierarchy(table)
  BY DEF ParentGraphSound, Hierarchy, Live

LEMMA WrittenTakes ==
  ASSUME rows \in Canvas, NEW after \in Patches
  PROVE  Takes(Written(after), rows, after)
<1> SUFFICES ASSUME NEW i \in Ids
             PROVE  IF i \in DOMAIN after
                    THEN /\ Written(after)[i] # None
                         /\ Written(after)[i].type = after[i].type
                         /\ Written(after)[i].deleted = after[i].deleted
                         /\ Written(after)[i].parent = after[i].parent
                    ELSE Written(after)[i] = rows[i]
  BY DEF Takes
<1>1. CASE i \in DOMAIN after
  <2> DEFINE v == IF rows[i] = None THEN 1 ELSE rows[i].version + 1
  <2>1. after[i] \in Object
    BY <1>1 DEF Patches
  <2>2. v \in Nat \ {0}
    BY DEF Canvas, Snapshot, Object
  <2>3. Written(after)[i] = [after[i] EXCEPT !.version = v]
    BY <1>1 DEF Written
  <2> HIDE DEF v
  <2>4. /\ Written(after)[i] \in Object
        /\ Written(after)[i].type = after[i].type
        /\ Written(after)[i].deleted = after[i].deleted
        /\ Written(after)[i].parent = after[i].parent
    BY <2>1, <2>2, <2>3 DEF Object
  <2> QED  BY <1>1, <2>4, CommandAssumption
<1>2. CASE i \notin DOMAIN after
  BY <1>2 DEF Written
<1> QED  BY <1>1, <1>2

\* A live row takes a change that leaves it in place.
LEMMA PlaceAllowed ==
  ASSUME rows \in Table, NEW i \in ActiveIn(rows), NEW o,
         o.x = rows[i].x, o.width = rows[i].width, o.parent = rows[i].parent
  PROVE  ChangeAllowed(i, o)
<1>1. rows[i] \in Placed /\ ~rows[i].deleted
  BY DEF ActiveIn, Table
<1> QED  BY <1>1 DEF ChangeAllowed, InBounds, Place, Placed

\* A live row that is not pinned takes any change within bounds.
LEMMA UnpinnedAllowed ==
  ASSUME rows \in Table, NEW i \in ActiveIn(rows), NEW o, InBounds(o), ~rows[i].pinned
  PROVE  ChangeAllowed(i, o)
  BY DEF ActiveIn, ChangeAllowed

\* A plan is as large as what it carries along, and one more.
LEMMA NumberIs ==
  ASSUME NEW S \in SUBSET Ids, NEW i \in Ids, NEW after, DOMAIN after = S \union {i},
         ~(Cardinality(S) >= ChangeLimit)
  PROVE  InNumber(after)
<1>1. IsFiniteSet(S) /\ Cardinality(S) \in Nat
  BY DatabaseAssumption, FS_Subset, FS_CardinalityType
<1>2. Cardinality(S \union {i}) = IF i \in S THEN Cardinality(S) ELSE Cardinality(S) + 1
  BY <1>1, FS_AddElement
<1>3. i \in S => Cardinality(S) # 0
  BY <1>1, FS_EmptySet
<1> QED  BY <1>1, <1>2, <1>3, DatabaseAssumption DEF InNumber

LEMMA OneInNumber ==
  ASSUME NEW i \in Ids, NEW after, DOMAIN after = {i}
  PROVE  InNumber(after)
<1>1. Cardinality({i}) = 1
  BY FS_Singleton
<1> QED  BY <1>1, DatabaseAssumption DEF InNumber

LEMMA FlagsAccepted ==
  ASSUME rows \in Table, Hierarchy(rows), NEW i \in Live(rows), NEW p \in BOOLEAN
  PROVE  Accepted(Flagged(rows, i, p, rows[i].minimized))
<1>1. i \in ActiveIn(rows) /\ rows \in Canvas
  BY PlacedType DEF Live
<1>2. rows[i].minimized \in BOOLEAN
  BY <1>1, ActiveType DEF Object
<1>3. PICK m \in BOOLEAN : m = rows[i].minimized
  BY <1>2, Zenon
<1> DEFINE after == Flagged(rows, i, p, m)
<1>4. /\ KeepsKind(after, rows)
      /\ DOMAIN after = {i}
      /\ KeepsPlace(after, rows, i)
  BY <1>1, FlaggedFields, Zenon
<1>5. after \in Patches
  BY <1>1, FlaggedType, Zenon
<1> HIDE DEF after
<1>6. ChangeAllowed(i, after[i])
  <2>1. /\ after[i].x = rows[i].x /\ after[i].width = rows[i].width
        /\ after[i].parent = rows[i].parent
    BY <1>4 DEF KeepsKind, KeepsPlace
  <2> QED  BY <1>1, <2>1, PlaceAllowed
<1>7. Hierarchy(Written(after))
  <2>1. Takes(Written(after), rows, after)
    BY <1>1, <1>5, WrittenTakes
  <2> QED  BY <1>4, <2>1, KeptSound
<1>8. InNumber(after)
  BY <1>1, <1>4, OneInNumber DEF ActiveIn
<1>9. Accepted(after)
  BY <1>4, <1>6, <1>7, <1>8, HierarchyIs DEF Accepted
<1> QED  BY <1>3, <1>9, Zenon DEF after

LEMMA DiscardAccepted ==
  ASSUME rows \in Table, Hierarchy(rows), NEW i \in Ids, MayDiscard(rows, i)
  PROVE  Accepted(Discarded(rows, i))
<1>1. i \in ActiveIn(rows) /\ rows \in Canvas
  BY PlacedType DEF MayDiscard
<1>2. PICK after : after = Discarded(rows, i)
  OBVIOUS
<1>3. /\ DOMAIN after = {i}
      /\ after[i].x = rows[i].x /\ after[i].width = rows[i].width
      /\ after[i].parent = rows[i].parent
  BY <1>1, <1>2, DiscardedFields
<1>4. after \in Patches
  BY <1>1, <1>2, DiscardedType
<1>5. ChangeAllowed(i, after[i])
  BY <1>1, <1>3, PlaceAllowed
<1>6. Hierarchy(Written(after))
  <2>1. Takes(Written(after), rows, Discarded(rows, i))
    BY <1>1, <1>2, <1>4, WrittenTakes
  <2> QED  BY <1>1, <2>1, DiscardedSound
<1>7. InNumber(after)
  BY <1>3, OneInNumber
<1> QED  BY <1>2, <1>3, <1>5, <1>6, <1>7, HierarchyIs DEF Accepted

LEMMA UngroupAccepted ==
  ASSUME rows \in Table, Hierarchy(rows), NEW f \in Ids, MayUngroup(rows, f),
         \A j \in Children(rows, f) : ~rows[j].pinned,
         ~(Cardinality(Children(rows, f)) >= ChangeLimit)
  PROVE  Accepted(Ungrouped(rows, f))
<1>1. f \in ActiveIn(rows) /\ rows \in Canvas
  BY PlacedType DEF MayUngroup
<1>2. PICK after : after = Ungrouped(rows, f)
  OBVIOUS
<1>3. /\ DOMAIN after = Children(rows, f) \union {f}
      /\ after[f].x = rows[f].x /\ after[f].width = rows[f].width
      /\ after[f].parent = rows[f].parent
      /\ \A j \in Children(rows, f) \ {f} : after[j].x = rows[j].x
  <2>1. Disbands(after, rows, f)
    BY <1>1, <1>2, UngroupedFields
  <2> QED  BY <2>1 DEF Disbands, KeepsPlace
<1>4. after \in Patches
  BY <1>1, <1>2, UngroupedType
<1>5. ASSUME NEW j \in DOMAIN after  PROVE ChangeAllowed(j, after[j])
  <2>1. CASE j = f
    BY <1>1, <1>3, <2>1, PlaceAllowed
  <2>2. CASE j # f
    <3>1. j \in Children(rows, f) /\ j \in ActiveIn(rows) /\ after[j].x = rows[j].x
      BY <1>3, <1>5, <2>2 DEF Children
    <3>2. InBounds(after[j])
      BY <3>1 DEF ActiveIn, Table, Placed, InBounds
    <3> QED  BY <3>1, <3>2, UnpinnedAllowed
  <2> QED  BY <2>1, <2>2
<1>6. Hierarchy(Written(after))
  <2>1. Takes(Written(after), rows, Ungrouped(rows, f))
    BY <1>1, <1>2, <1>4, WrittenTakes
  <2> QED  BY <1>1, <2>1, UngroupedSound
<1>7. InNumber(after)
  <2>1. Children(rows, f) \in SUBSET Ids
    BY DEF Children, ActiveIn
  <2> QED  BY <1>3, <2>1, NumberIs
<1> QED  BY <1>2, <1>5, <1>6, <1>7, HierarchyIs DEF Accepted

LEMMA TransformAccepted ==
  ASSUME rows \in Table, Hierarchy(rows), NEW i \in Ids, NEW x \in 0 .. MaxX,
         MayTransform(rows, i, x, None),
         \A j \in Carried(rows, i, x) : InBounds(Transformed(rows, i, x, None)[j]),
         ~(Cardinality(Carried(rows, i, x)) >= ChangeLimit)
  PROVE  Accepted(Transformed(rows, i, x, None))
<1>1. /\ i \in ActiveIn(rows) /\ rows \in Canvas
      /\ \A j \in Carried(rows, i, x) \union {i} : ~rows[j].pinned
  BY PlacedType DEF MayTransform
<1> DEFINE after == Transformed(rows, i, x, None)
<1>2. x \in (0 .. MaxX) \union {None} /\ None \in Widths \union {None}
  OBVIOUS
<1>3. /\ KeepsKind(after, rows)
      /\ DOMAIN after = Carried(rows, i, x) \union {i}
      /\ x # None => after[i].x = x
  BY <1>1, <1>2, TransformedFields, ZenonT(40) DEF after
<1>4. after \in Patches
  BY <1>1, <1>2, TransformedType, Zenon
<1>5. x # None
  BY CommandAssumption
<1>6. \A j \in Carried(rows, i, x) : InBounds(after[j])
  OBVIOUS
<1> HIDE DEF after
<1>7. ASSUME NEW j \in DOMAIN after  PROVE ChangeAllowed(j, after[j])
  <2>1. InBounds(after[j])
    BY <1>3, <1>5, <1>6 DEF InBounds
  <2>2. j \in ActiveIn(rows) /\ ~rows[j].pinned
    BY <1>1, <1>3 DEF KeepsKind
  <2> QED  BY <2>1, <2>2, UnpinnedAllowed
<1>8. Hierarchy(Written(after))
  <2>1. Takes(Written(after), rows, after)
    BY <1>1, <1>4, WrittenTakes
  <2> QED  BY <1>3, <2>1, KeptSound
<1>9. InNumber(after)
  <2>1. Carried(rows, i, x) \in SUBSET Ids
    BY DEF Carried, Descendants, ActiveIn
  <2> QED  BY <1>3, <2>1, NumberIs
<1>10. Accepted(after)
  BY <1>7, <1>8, <1>9, HierarchyIs DEF Accepted
<1> QED  BY <1>10 DEF after

\* A plan of the engine that moves, ungroups, discards or flags objects is refused by
\* the database for three reasons only: a frame carries an object out of the coordinate
\* bounds, a moved or ungrouped frame holds more objects than one command may change, or
\* an ungrouped frame has pinned contents (buildCanvasMutationPlan,
\* commit_canvas_mutation_at_revision).
THEOREM EveryPlanIsCommitted == Spec => []PlansAreCommitted
<1>1. ASSUME Inv  PROVE PlansAreCommitted
  <2>1. rows \in Table /\ Hierarchy(rows)
    <3>1. PICK c : Past(c) /\ Returns(receipts, revision, c)
      BY <1>1 DEF Inv
    <3>2. rows \in Table /\ revision \in 0 .. revision
      BY <1>1, DatabaseAssumption DEF Inv, TypeInv
    <3>3. ParentGraphSound(rows)
      BY <3>1, <3>2 DEF Past, Fits
    <3> QED  BY <3>2, <3>3, HierarchyIs
  <2>2. ASSUME NEW i \in Ids, NEW x \in 0 .. MaxX, MayTransform(rows, i, x, None)
        PROVE  \/ Accepted(Transformed(rows, i, x, None))
               \/ \E j \in Carried(rows, i, x) :
                    ~InBounds(Transformed(rows, i, x, None)[j])
               \/ Cardinality(Carried(rows, i, x)) >= ChangeLimit
    BY <2>1, <2>2, TransformAccepted, Zenon
  <2>3. ASSUME NEW f \in Ids, MayUngroup(rows, f)
        PROVE  \/ Accepted(Ungrouped(rows, f))
               \/ \E j \in Children(rows, f) : rows[j].pinned
               \/ Cardinality(Children(rows, f)) >= ChangeLimit
    BY <2>1, <2>3, UngroupAccepted, Zenon
  <2>4. ASSUME NEW i \in Ids, MayDiscard(rows, i)
        PROVE  Accepted(Discarded(rows, i))
    BY <2>1, <2>4, DiscardAccepted, Zenon
  <2>5. ASSUME NEW i \in Live(rows), NEW p \in BOOLEAN
        PROVE  Accepted(Flagged(rows, i, p, rows[i].minimized))
    BY <2>1, FlagsAccepted, Zenon
  <2> QED  BY <2>2, <2>3, <2>4, <2>5, Zenon DEF PlansAreCommitted, Accepted
<1> QED  BY <1>1, RoomInvariant, PTL

-----------------------------------------------------------------------------
(* The canvases people see, and the history they form.                     *)

\* The planner that reads the stored receipts, with what is proved about it.
Planner == INSTANCE CommandEngineProofs WITH
             objects <- rows, MaxRevision <- RevisionLimit,
             undone <- history.undone, redo <- history.redo

LEMMA PlannerAssumptions == Planner!SchemaAssumption /\ Planner!CommandAssumption
  BY SchemaAssumption, CommandAssumption
     DEF SchemaAssumption, CommandAssumption, Planner!SchemaAssumption,
         Planner!CommandAssumption, Object, Planner!Object

\* What people see: no version, and nothing of a deleted row.
Views == [Ids -> VisibleObject \union {None}]

Seen(c, n) == [k \in 0 .. n |-> Shown(c[k])]

LEMMA ShownType ==
  ASSUME NEW a \in Table
  PROVE  Shown(a) \in Views
<1>1. ASSUME NEW i \in Ids  PROVE Visible(a[i]) \in VisibleObject \union {None}
  <2>1. a[i] = None \/ a[i] \in Object
    BY PlacedType DEF Table
  <2>2. CASE a[i] \in Object /\ a[i] # None /\ ~a[i].deleted
    <3>1. PICK o \in Object : o = a[i]
      BY <2>2
    <3>2. Mutable(o) \in MutableObject /\ Mutable(o).deleted = o.deleted
      BY DEF Mutable, MutableObject, Object
    <3> QED  BY <2>2, <3>1, <3>2 DEF Visible, VisibleObject
  <2> QED  BY <2>1, <2>2 DEF Visible
<1> QED  BY <1>1 DEF Shown, Views

\* Canvases that match look the same.
LEMMA MatchesShown ==
  ASSUME NEW a \in Table, NEW b \in Table, Matches(a, b)
  PROVE  Shown(a) = Shown(b)
<1>1. ASSUME NEW i \in Ids  PROVE Visible(a[i]) = Visible(b[i])
  <2>1. /\ a[i] # None => a[i] \in Object
        /\ b[i] # None => b[i] \in Object
    BY PlacedType DEF Table
  <2>2. IF b[i] = None THEN a[i] = None \/ a[i].deleted
        ELSE a[i] # None /\ Mutable(a[i]) = Mutable(b[i])
    BY DEF Matches
  <2>3. b[i] # None => a[i].deleted = b[i].deleted
    BY <2>1, <2>2, MutableFields
  <2> QED  BY <2>2, <2>3 DEF Visible
<1> QED  BY <1>1 DEF Shown

LEMMA SeenRetraces ==
  ASSUME NEW n \in Nat, NEW log, LogSound(log, n), NEW c \in [0 .. n -> Table],
         Returns(log, n, c)
  PROVE  Retraces(log, n, Seen(c, n))
<1>1. \A k, l \in 0 .. n : Matches(c[k], c[l]) => Seen(c, n)[k] = Seen(c, n)[l]
  BY MatchesShown DEF Seen
<1>2. ASSUME NEW k \in 1 .. n, ~IsEdit(log[k])
      PROVE  Seen(c, n)[k] = Seen(c, n)[log[k].target - 1]
  <2>1. log[k].target \in 1 .. k - 1
    BY <1>2, Names DEF IsEdit
  <2>2. k \in 0 .. n /\ log[k].target - 1 \in 0 .. n
    BY <2>1
  <2> QED  BY <1>1, <1>2, <2>2 DEF Returns
<1>3. ASSUME NEW m \in 0 .. n, NEW k \in 1 .. m, IsUndo(log, m, k) \/ IsRedo(log, m, k)
      PROVE  Seen(c, n)[m] = Seen(c, n)[k]
  <2>1. k \in 0 .. n
    OBVIOUS
  <2> QED  BY <1>1, <1>3, <2>1 DEF Returns
<1> QED  BY <1>2, <1>3 DEF Retraces

LEMMA PlannerUndoOrder == Engine!UndoOrder = Planner!UndoOrder
<1>1. /\ Engine!Undoable = Planner!Undoable
      /\ \A k : Engine!Effects(k) = Planner!Effects(k)
      /\ \A t, places : Engine!Selected(t, places) = Planner!Selected(t, places)
  BY DEF Engine!Undoable, Planner!Undoable, Engine!Effects, Planner!Effects,
         Engine!Selected, Planner!Selected
<1> QED  BY <1>1 DEF Engine!UndoOrder, Planner!UndoOrder

LEMMA OrderIs ==
  ASSUME Inv
  PROVE  Lists(Engine!UndoOrder, OpenAt(receipts, revision))
<1>1. revision \in Nat /\ Len(receipts) = revision
  BY DatabaseAssumption DEF Inv, TypeInv
<1>2. Planner!HistoryOf(receipts, revision, history.undone, history.redo)
  <2>1. /\ Planner!LogSound(receipts, revision)
        /\ Planner!RedoSound(receipts, revision, history.redo)
    BY DEF Inv, HistoryInv, LogSound, NamesSoundly, IsUndo, IsRedo, IsEdit, Edited, OpenAt,
           OpenUndosAt, RedoSound, Planner!LogSound, Planner!NamesSoundly, Planner!IsUndo,
           Planner!IsRedo, Planner!IsEdit, Planner!Edited, Planner!OpenAt, Planner!OpenUndosAt,
           Planner!RedoSound
  <2>2. \E E : /\ Planner!IsEffects(E, receipts, revision)
               /\ Planner!UndoneSound(receipts, revision, E, history.undone)
    BY DEF Inv, HistoryInv, IsEffects, UndoneSound, Heads, OpenAt, OpenUndosAt, Planner!IsEffects,
           Planner!UndoneSound, Planner!Heads, Planner!OpenAt, Planner!OpenUndosAt
  <2> QED  BY <2>1, <2>2 DEF Planner!HistoryOf
<1>3. Planner!Lists(Planner!UndoOrder, Planner!OpenAt(receipts, revision))
  BY <1>1, <1>2, PlannerAssumptions, Planner!OrderIs
<1> QED  BY <1>3, PlannerUndoOrder DEF Lists, Planner!Lists, OpenAt, Planner!OpenAt

\* The receipts among those order names, from its k-th on, that changed object i.
Touching(order, k, i) == { m \in k .. Len(order) : i \in DOMAIN receipts[order[m]].before }

LEMMA ReversedAt ==
  ASSUME NEW order, NEW k, NEW i \in Ids
  PROVE  Engine!Reversed(order, k)[i] =
           IF Touching(order, k, i) = {} THEN rows[i]
           ELSE receipts[order[Min(Touching(order, k, i))]].before[i]
  BY DEF Engine!Reversed, Touching, Min, Engine!Min

\* Reversing receipts of which each left people the canvas they saw before the next
\* leads through what they saw before them.
LEMMA ReversedIs ==
  ASSUME TypeInv, NEW c, Past(c), NEW order, Chained(order, revision, Seen(c, revision))
  PROVE  \A k \in 1 .. Len(order) :
           Shown(Engine!Reversed(order, k)) = Seen(c, revision)[order[k] - 1]
<1>0. PICK s : s = Seen(c, revision)
  OBVIOUS
<1> DEFINE p == Len(order)
           T == { m \in 0 .. p - 1 : Shown(Engine!Reversed(order, p - m)) # s[order[p - m] - 1] }
<1>1. /\ p \in Nat /\ order \in Seq(1 .. revision) /\ revision \in Nat
      /\ order # << >> => s[revision] = s[order[p]]
      /\ \A k \in 1 .. p - 1 : s[order[k + 1] - 1] = s[order[k]]
  BY <1>0, DatabaseAssumption DEF Chained, TypeInv
<1>2. SUFFICES ASSUME T # {}  PROVE FALSE
  <2> SUFFICES ASSUME NEW k \in 1 .. p  PROVE Shown(Engine!Reversed(order, k)) = s[order[k] - 1]
    BY <1>0
  <2>1. p - k \in 0 .. p - 1 /\ p - (p - k) = k
    BY <1>1
  <2>2. p - k \notin T
    BY <1>2
  <2> QED  BY <2>1, <2>2
<1>3. T \subseteq Nat
  OBVIOUS
<1>4. PICK m \in T : \A l \in T : m =< l
  BY <1>2, <1>3, LeastNat
<1>5. PICK k : k = p - m
  OBVIOUS
<1>6. k \in 1 .. p /\ Shown(Engine!Reversed(order, k)) # s[order[k] - 1] /\ m \in 0 .. p - 1
  BY <1>1, <1>5
<1>7. k # p => Shown(Engine!Reversed(order, k + 1)) = s[order[k + 1] - 1]
  <2> SUFFICES ASSUME k # p  PROVE Shown(Engine!Reversed(order, k + 1)) = s[order[k + 1] - 1]
    OBVIOUS
  <2>1. m - 1 \in 0 .. p - 1 /\ p - (m - 1) = k + 1 /\ m - 1 < m
    BY <1>1, <1>5, <1>6
  <2> HIDE DEF T
  <2>2. m - 1 \notin T
    BY <1>4, <1>6, <2>1
  <2> QED  BY <2>1, <2>2 DEF T
<1> HIDE DEF T
<1>8. PICK o : o = order[k]
  OBVIOUS
<1>9. o \in 1 .. revision /\ o - 1 \in 0 .. revision /\ o \in 0 .. revision
  BY <1>1, <1>6, <1>8
<1>10. Records(receipts[o], c[o - 1], c[o])
  BY <1>9 DEF Past
<1>11. /\ s[o] = Shown(c[o]) /\ s[o - 1] = Shown(c[o - 1])
       /\ s[revision] = Shown(rows)
  BY <1>0, <1>1, <1>9 DEF Past, Seen
<1>12. /\ k = p => Shown(rows) = s[o]
       /\ k # p => s[order[k + 1] - 1] = s[o] /\ k + 1 \in 1 .. p
  BY <1>1, <1>6, <1>8, <1>11
<1> HIDE DEF p
<1>13. p = Len(order)
  BY DEF p
<1>14. ASSUME NEW i \in Ids
       PROVE  Shown(Engine!Reversed(order, k))[i] = s[o - 1][i]
  <2> DEFINE S == Touching(order, k, i)
  <2>0. \A a : Shown(a)[i] = Visible(a[i])
    BY DEF Shown
  <2>1. S \subseteq k .. p
    BY <1>13 DEF Touching
  <2>2. CASE i \in DOMAIN receipts[o].before
    <3>1. k \in S
      BY <1>1, <1>6, <1>8, <1>13, <2>2 DEF Touching
    <3>2. \A l \in S : k =< l
      BY <1>1, <1>6, <2>1
    <3>3. Min(S) = k
      <4> HIDE DEF S
      <4>1. \A l \in S : l \in Nat
        BY <1>1, <1>6, <2>1
      <4>2. Min(S) \in S /\ \A l \in S : Min(S) =< l
        BY <3>1, <3>2, Zenon DEF Min
      <4> QED  BY <3>1, <3>2, <4>1, <4>2
    <3>4. Engine!Reversed(order, k)[i] = receipts[o].before[i]
      BY <1>8, <3>1, <3>3, ReversedAt
    <3>5. receipts[o].before[i] = c[o - 1][i]
      BY <1>10, <2>2 DEF Records
    <3> QED  BY <1>11, <2>0, <3>4, <3>5
  <2>3. CASE i \notin DOMAIN receipts[o].before
    <3>1. c[o][i] = c[o - 1][i]
      BY <1>10, <2>3 DEF Records
    <3>2. s[o][i] = s[o - 1][i]
      BY <1>11, <2>0, <3>1
    <3>3. CASE k = p
      <4>1. S = {}
        BY <1>1, <1>6, <1>8, <2>1, <2>3, <3>3 DEF Touching
      <4>2. Engine!Reversed(order, k)[i] = rows[i]
        BY <4>1, ReversedAt
      <4> QED  BY <1>12, <2>0, <3>2, <3>3, <4>2
    <3>4. CASE k # p
      <4>1. \A l \in k .. p : l = k \/ l \in k + 1 .. p
        BY <1>1, <1>6
      <4>2. \A l \in k + 1 .. p : l \in k .. p
        BY <1>1, <1>6
      <4>3. S = Touching(order, k + 1, i)
        BY <1>8, <1>13, <2>3, <4>1, <4>2 DEF Touching
      <4>4. Engine!Reversed(order, k)[i] = Engine!Reversed(order, k + 1)[i]
        BY <4>3, ReversedAt
      <4> QED  BY <1>7, <1>12, <2>0, <3>2, <3>4, <4>4
    <3> QED  BY <3>3, <3>4
  <2> QED  BY <2>2, <2>3
<1>15. Shown(Engine!Reversed(order, k)) = s[o - 1]
  <2>1. s[o - 1] = [i \in Ids |-> s[o - 1][i]]
    BY <1>11 DEF Shown
  <2>2. Shown(Engine!Reversed(order, k)) = [i \in Ids |-> Shown(Engine!Reversed(order, k))[i]]
    BY DEF Shown
  <2> QED  BY <1>14, <2>1, <2>2
<1> QED  BY <1>6, <1>8, <1>15

LEMMA AllShownAre ==
  ASSUME NEW canvases
  PROVE  AllShown(canvases) = [n \in 1 .. Len(canvases) |-> Shown(canvases[n])]
  BY DEF AllShown

\* The documents of the history are what people saw of the room.
Recounts(c) ==
  /\ AllShown(Engine!PastDocuments) = Behind(Seen(c, revision), Engine!UndoOrder)
  /\ AllShown(Engine!FutureDocuments) = Ahead(Seen(c, revision), history.redo)
  /\ Lists(Engine!UndoOrder, OpenAt(receipts, revision))
  /\ Seen(c, revision) \in [0 .. revision -> Views]
  /\ Seen(c, revision)[revision] = Shown(rows)
  /\ Retraces(receipts, revision, Seen(c, revision))

Recounted == \A c : Past(c) /\ Returns(receipts, revision, c) => Recounts(c)

LEMMA InvRecounted == Inv => Recounted
<1> SUFFICES ASSUME Inv, NEW c, Past(c), Returns(receipts, revision, c)
             PROVE  Recounts(c)
  BY DEF Recounted
<1>1. /\ TypeInv /\ revision \in Nat /\ LogSound(receipts, revision)
      /\ c \in [0 .. revision -> Table] /\ c[revision] = rows
      /\ RedoSound(receipts, revision, history.redo)
  BY DatabaseAssumption DEF Inv, TypeInv, HistoryInv, Past
<1>2. PICK s : s = Seen(c, revision)
  OBVIOUS
<1>3. Retraces(receipts, revision, s)
  BY <1>1, <1>2, SeenRetraces
<1>4. s \in [0 .. revision -> Views] /\ s[revision] = Shown(rows)
  BY <1>1, <1>2, ShownType DEF Seen
<1>5. PICK order : order = Engine!UndoOrder
  OBVIOUS
<1>6. Lists(order, OpenAt(receipts, revision))
  BY <1>5, OrderIs
<1>7. Chained(order, revision, s) /\ Chained(history.redo, revision, s)
  BY <1>1, <1>3, <1>6, UndoChained, RedoChained
<1>8. /\ \A k \in 1 .. Len(order) : Shown(Engine!Reversed(order, k)) = s[order[k] - 1]
      /\ \A k \in 1 .. Len(history.redo) :
           Shown(Engine!Reversed(history.redo, k)) = s[history.redo[k] - 1]
  BY <1>1, <1>2, <1>7, ReversedIs
<1>9. AllShown(Engine!PastDocuments) = Behind(s, order)
  <2>1. Engine!PastDocuments = [k \in 1 .. Len(order) |-> Engine!Reversed(order, k)]
    BY <1>5 DEF Engine!PastDocuments
  <2>2. Len(order) \in Nat
    BY <1>6 DEF Lists
  <2>3. PICK docs : docs = Engine!PastDocuments
    OBVIOUS
  <2>4. Len(docs) = Len(order) /\ \A k \in 1 .. Len(order) : docs[k] = Engine!Reversed(order, k)
    BY <2>1, <2>2, <2>3
  <2> QED  BY <1>8, <2>3, <2>4, AllShownAre DEF Behind
<1>10. AllShown(Engine!FutureDocuments) = Ahead(s, history.redo)
  <2>1. PICK redo : redo = history.redo
    OBVIOUS
  <2>2. Engine!FutureDocuments = [k \in 1 .. Len(redo) |-> Engine!Reversed(redo, Len(redo) - k + 1)]
    BY <2>1 DEF Engine!FutureDocuments
  <2>3. Len(redo) \in Nat
    BY <1>1, <2>1 DEF RedoSound
  <2>4. PICK docs : docs = Engine!FutureDocuments
    OBVIOUS
  <2>5. /\ Len(docs) = Len(redo)
        /\ \A k \in 1 .. Len(redo) : docs[k] = Engine!Reversed(redo, Len(redo) - k + 1)
    BY <2>2, <2>3, <2>4
  <2>6. \A k \in 1 .. Len(redo) : Len(redo) - k + 1 \in 1 .. Len(redo)
    BY <2>3
  <2>7. \A k \in 1 .. Len(redo) : Shown(docs[k]) = s[redo[Len(redo) - k + 1] - 1]
    BY <1>8, <2>1, <2>5, <2>6
  <2> QED  BY <2>1, <2>4, <2>5, <2>7, AllShownAre DEF Ahead
<1> QED  BY <1>2, <1>3, <1>4, <1>5, <1>6, <1>9, <1>10 DEF Recounts

\* A step with a receipt is a step of the history, and no other changes what the
\* history shows.
LEMMA SeenStep ==
  ASSUME Inv, Inv', Recounted, Recounted', [Next]_vars
  PROVE  [History!HistoryNext]_(History!historyVars)
<1>1. CASE Lengthens
  <2>1. PICK c, d : Past(c) /\ Returns(receipts, revision, c) /\ Extends(c, d)
    BY <1>1 DEF Lengthens
  <2>2. PICK n \in Nat : n = revision
    BY DatabaseAssumption DEF Inv, TypeInv
  <2>3. PICK longer : longer = receipts'
    OBVIOUS
  <2>4. PICK redo, left : redo = history.redo /\ left = history'.redo
    OBVIOUS
  <2>5. PICK order : order = Engine!UndoOrder
    OBVIOUS
  <2>6. PICK next : next = Engine!UndoOrder'
    OBVIOUS
  <2>7. PICK s, t : s = Seen(c, n) /\ t = Seen(d, n + 1)
    OBVIOUS
  <2>8. /\ AllShown(Engine!PastDocuments) = Behind(s, order)
        /\ AllShown(Engine!FutureDocuments) = Ahead(s, redo)
        /\ Lists(order, OpenAt(receipts, n))
        /\ s \in [0 .. n -> Views] /\ s[n] = Shown(rows)
    <3>1. Recounts(c)
      BY <2>1 DEF Recounted
    <3> QED  BY <2>2, <2>4, <2>5, <2>7, <3>1 DEF Recounts
  <2>9. /\ AllShown(Engine!PastDocuments)' = Behind(t, next)
        /\ AllShown(Engine!FutureDocuments)' = Ahead(t, left)
        /\ Lists(next, OpenAt(longer, n + 1))
        /\ t \in [0 .. n + 1 -> Views] /\ t[n + 1] = Shown(rows)'
        /\ Retraces(longer, n + 1, t)
    <3>1. Past(d)' /\ Returns(receipts', revision', d) /\ revision' = n + 1
      BY <2>1, <2>2 DEF Extends
    <3>2. Recounts(d)'
      BY <3>1 DEF Recounted
    <3> QED  BY <2>3, <2>4, <2>6, <2>7, <3>1, <3>2 DEF Recounts
  <2>10. Longer(s, t, n) /\ Alike(receipts, longer, n)
    <3>1. Longer(c, d, n) /\ Alike(receipts, longer, n)
      BY <2>1, <2>2, <2>3 DEF Extends
    <3> QED  BY <2>7, <3>1 DEF Longer, Seen
  <2>11. /\ LogSound(receipts, n) /\ RedoSound(receipts, n, redo)
         /\ LogSound(longer, n + 1) /\ RedoSound(longer, n + 1, left)
    BY <2>1, <2>2, <2>3, <2>4 DEF Inv, HistoryInv, Extends
  <2>12. ~IsEdit(longer[n + 1]) => t[n + 1] = t[longer[n + 1].target - 1]
    <3>1. n + 1 \in 1 .. n + 1
      OBVIOUS
    <3> QED  BY <2>9, <3>1 DEF Retraces
  <2>13. GoesOn(Behind(s, order), s[n], Ahead(s, redo), Behind(t, next), t[n + 1], Ahead(t, left))
    BY <2>8, <2>9, <2>10, <2>11, <2>12, DocumentsGoOn
  <2>14. GoesOn(AllShown(Engine!PastDocuments), Shown(rows), AllShown(Engine!FutureDocuments),
                AllShown(Engine!PastDocuments)', Shown(rows)', AllShown(Engine!FutureDocuments)')
    BY <2>8, <2>9, <2>13
  <2>15. Shown(rows)' \in Views
    BY <2>9
  <2> QED  BY <2>14, <2>15, Zenon
           DEF GoesOn, Views, History!HistoryNext, History!Edit, History!StepBack,
               History!StepForward, Front, Last, History!Front, History!Last
<1>2. CASE UNCHANGED vars
  <2>1. rows' = rows /\ revision' = revision /\ receipts' = receipts /\ history' = history
    BY <1>2 DEF vars
  <2>2. /\ Engine!Undoable' = Engine!Undoable
        /\ \A k : Engine!Effects(k)' = Engine!Effects(k)
    BY <2>1 DEF Engine!Undoable, Engine!Effects
  <2>3. Engine!UndoOrder' = Engine!UndoOrder
    BY <2>1, <2>2 DEF Engine!UndoOrder
  <2>4. \A order, k : Engine!Reversed(order, k)' = Engine!Reversed(order, k)
    BY <2>1 DEF Engine!Reversed
  <2>5. /\ Engine!PastDocuments' = Engine!PastDocuments
        /\ Engine!FutureDocuments' = Engine!FutureDocuments
    BY <2>1, <2>3, <2>4 DEF Engine!PastDocuments, Engine!FutureDocuments
  <2>6. /\ AllShown(Engine!PastDocuments)' = AllShown(Engine!PastDocuments)
        /\ AllShown(Engine!FutureDocuments)' = AllShown(Engine!FutureDocuments)
    BY <2>5 DEF AllShown
  <2>7. Shown(rows)' = Shown(rows)
    BY <2>1
  <2> QED  BY <2>6, <2>7 DEF History!historyVars
<1> QED  BY <1>1, <1>2, InvNext

LEMMA SeenStart ==
  ASSUME Init
  PROVE  History!HistoryInit
<1>1. rows = [i \in Ids |-> None] /\ history.redo = << >> /\ revision = 0
  BY DEF Init
<1>2. Shown(rows) \in Views
  BY <1>1, ShownType DEF Table
<1>3. Inv
  BY InvInit
<1>4. PICK c : Past(c) /\ Returns(receipts, revision, c)
  BY <1>3 DEF Inv
<1>5. /\ AllShown(Engine!PastDocuments) = Behind(Seen(c, revision), Engine!UndoOrder)
      /\ AllShown(Engine!FutureDocuments) = Ahead(Seen(c, revision), << >>)
      /\ Lists(Engine!UndoOrder, OpenAt(receipts, 0))
  BY <1>1, <1>3, <1>4, InvRecounted DEF Recounted, Recounts
<1>6. PICK order : order = Engine!UndoOrder
  OBVIOUS
<1>7. Len(order) = 0
  <2>1. OpenAt(receipts, 0) = {}
    BY DEF OpenAt
  <2>2. order \in Seq(Nat) /\ \A k \in 1 .. Len(order) : order[k] \in {}
    BY <1>5, <1>6, <2>1, ListRange DEF Lists
  <2> QED  BY <2>2
<1>8. Behind(Seen(c, revision), order) = << >> /\ Ahead(Seen(c, revision), << >>) = << >>
  BY <1>7 DEF Behind, Ahead
<1> QED  BY <1>2, <1>5, <1>6, <1>8 DEF History!HistoryInit, Views

\* In a stored room too undo returns to the canvas people saw before the command it
\* reverses and redo to the one undo left, to any depth and between any new commands
\* of any members (commit_canvas_mutation_at_revision, reconstructHistory).
THEOREM RoomWalksOneHistory == Spec => ImplementsHistory
<1>1. Init => History!HistoryInit
  BY SeenStart
<1>2. Inv => Recounted
  BY InvRecounted
<1>3. Inv /\ Inv' /\ Recounted /\ Recounted' /\ [Next]_vars
        => [History!HistoryNext]_(History!historyVars)
  BY SeenStep
<1> QED  BY <1>1, <1>2, <1>3, RoomInvariant, PTL DEF Spec, ImplementsHistory, History!HistorySpec

-----------------------------------------------------------------------------
(* The preview beside the room: what CommandEngineProofs shows of an       *)
(* engine holds of the one in the preview.                                 *)

LEMMA PreviewAssumptions == Local!SchemaAssumption /\ Local!CommandAssumption
  BY SchemaAssumption, CommandAssumption
     DEF SchemaAssumption, CommandAssumption, Local!SchemaAssumption,
         Local!CommandAssumption, Object, Local!Object

LEMMA PreviewSteps == [PartNext]_<<subject, vars, localVars>> => [Local!Next]_(Local!vars)
  BY DEF PartNext, localVars, Local!vars

LEMMA PreviewInvariant == PartSpec => []Local!Inv
<1>1. PartInit => Local!Inv
  <2>1. Local!Init => Local!Inv
    BY PreviewAssumptions, Local!InvInit
  <2> QED  BY <2>1 DEF PartInit
<1>2. Local!Inv /\ [PartNext]_<<subject, vars, localVars>> => Local!Inv'
  <2>1. Local!Inv /\ [Local!Next]_(Local!vars) => Local!Inv'
    BY PreviewAssumptions, Local!InvNext
  <2> QED  BY <2>1, PreviewSteps
<1> QED  BY <1>1, <1>2, PTL DEF PartSpec

\* The canvas of a preview always passes the checks of a load, and its undo and redo
\* stacks name receipts they may name (commitMutation, undoLatest, redoLatest,
\* validateHierarchy).
THEOREM PreviewStaysSound == PartSpec => []PreviewIsSound
<1>1. Local!Inv => PreviewIsSound
  <2>1. Local!Inv => Local!TypeOK /\ Local!HistoryWellFormed /\ Local!HierarchySound
    BY PreviewAssumptions, Local!InvIsSound
  <2> QED  BY <2>1 DEF PreviewIsSound
<1> QED  BY <1>1, PreviewInvariant, PTL

\* No command moves, resizes or re-parents a pinned object of a preview, except the
\* ungrouping of its frame (transformObject, groupObjects, ungroupObjects).
THEOREM PreviewKeepsPinned == PartSpec => PreviewPinnedStaysPut
<1> DEFINE Kept ==
      \A i \in Local!Active :
        localObjects[i].pinned
        /\ localReceipts'[Len(localReceipts')].action \notin {"undo", "redo"}
          => /\ localObjects'[i].x = localObjects[i].x
             /\ localObjects'[i].width = localObjects[i].width
             /\ \/ localObjects'[i].parent = localObjects[i].parent
                \/ localReceipts'[Len(localReceipts')].action = "ungroup"
<1>1. Local!Inv /\ [Local!Next]_(Local!vars) => [Kept]_(Local!vars)
  BY PreviewAssumptions, Local!PinnedStep
<1>2. Local!Inv /\ [PartNext]_<<subject, vars, localVars>> => [Kept]_(Local!vars)
  BY <1>1, PreviewSteps
<1> QED  BY <1>2, PreviewInvariant, PTL
            DEF PartSpec, PreviewPinnedStaysPut, Local!PinnedStaysPut

\* Undo in a preview returns to the canvas before the command it reverses and redo to
\* the one undo left, to any depth and between any new commands (undoLatest,
\* redoLatest).
THEOREM PreviewWalksOneHistory == PartSpec => PreviewImplementsHistory
<1>1. PartInit => Local!History!HistoryInit
  <2>1. Local!Init => Local!History!HistoryInit
    BY PreviewAssumptions, Local!HistoryStart
  <2> QED  BY <2>1 DEF PartInit
<1>2. Local!Inv => Local!Recounted
  BY PreviewAssumptions, Local!InvRecounted
<1>3. Local!Inv /\ Local!Inv' /\ Local!Recounted /\ Local!Recounted' /\ [Local!Next]_(Local!vars)
        => [Local!History!HistoryNext]_(Local!History!historyVars)
  BY PreviewAssumptions, Local!HistoryStep
<1>4. Local!Inv /\ Local!Inv' /\ Local!Recounted /\ Local!Recounted'
        /\ [PartNext]_<<subject, vars, localVars>>
        => [Local!History!HistoryNext]_(Local!History!historyVars)
  BY <1>3, PreviewSteps
<1> QED  BY <1>1, <1>2, <1>4, PreviewInvariant, PTL
            DEF PartSpec, PreviewImplementsHistory, Local!ImplementsHistory,
                Local!History!HistorySpec
=============================================================================
