--------------------------- MODULE CanvasCommands ---------------------------
(***************************************************************************)
(* The nine canvas commands on any canvas: when each is accepted and which *)
(* objects it leaves behind (lib/canvas/command-engine.ts).  The engine    *)
(* applies them to its own state, the room service plans with them on the  *)
(* rows it has just loaded.                                                *)
(*                                                                         *)
(* Abstracted data: an object keeps the fields some guard reads.  Geometry *)
(* is one-dimensional (x and width); the type is a note or a frame, the    *)
(* only two a guard tells apart; a note's text is the sequence of appended *)
(* lines.  An accepted command names the version its object is at, so the  *)
(* expected version is left out; ReviewedDiscard models a caller that      *)
(* holds one.                                                              *)
(***************************************************************************)
EXTENDS CanvasSchema, Sequences

Object == [ type      : {"note", "frame"},
            x         : Int,
            width     : Nat,
            text      : Seq(Lines),
            pinned    : BOOLEAN,
            minimized : BOOLEAN,
            deleted   : BOOLEAN,
            parent    : Ids \union {None},
            version   : Nat \ {0} ]

\* null is no object, and no coordinate.
ASSUME CommandAssumption == None \notin Object /\ None \notin Int

Snapshot == Object \union {None}
Canvas   == [Ids -> Snapshot]

Action == { "create", "update", "transform", "flags", "discard",
            "group", "ungroup", "undo", "redo" }

-----------------------------------------------------------------------------
(* Reading the canvas.                                                     *)

ActiveIn(objs) == { i \in Ids : objs[i] # None /\ ~objs[i].deleted }

Children(objs, f) == { i \in ActiveIn(objs) : objs[i].parent = f }

(* The objects frameDescendants collects, breadth first, descending        *)
(* through frames only: the least set closed under Children.               *)
Descendants(objs, f) ==
  LET Closed(S) == /\ Children(objs, f) \subseteq S
                   /\ \A g \in S : objs[g].type = "frame"
                                     => Children(objs, g) \subseteq S
  IN  { i \in ActiveIn(objs) :
          \A S \in SUBSET ActiveIn(objs) : Closed(S) => i \in S }

Encloses(frame, o) ==
  /\ o.x >= frame.x
  /\ o.x + o.width <= frame.x + frame.width

Fresh(type, x, width, text) ==
  [ type |-> type, x |-> x, width |-> width, text |-> text,
    pinned |-> FALSE, minimized |-> FALSE, deleted |-> FALSE,
    parent |-> None, version |-> 1 ]

Touched(o) == [o EXCEPT !.version = @ + 1]

Overwrite(objs, patch) ==
  [i \in DOMAIN objs |-> IF i \in DOMAIN patch THEN patch[i] ELSE objs[i]]

-----------------------------------------------------------------------------
(* The commands: when each is accepted on a canvas objs, and the objects   *)
(* its receipt will hold as the after state.                               *)

Only(i, o) == [j \in {i} |-> o]

Created(i, type, x, width) == Only(i, Fresh(type, x, width, << >>))

MayAppend(objs, i) ==
  /\ i \in ActiveIn(objs)
  /\ objs[i].type = "note"
  /\ Len(objs[i].text) < NoteLimit

Appended(objs, i, line) == Only(i, Touched([objs[i] EXCEPT !.text = Append(@, line)]))

(* A transform names x, width or both.  Naming x of a frame carries its    *)
(* descendants along by the same offset and is refused while one of them   *)
(* is pinned; naming width alone leaves the contents where they are        *)
(* (movesFrameContents).                                                   *)
Carried(objs, i, x) ==
  IF objs[i].type = "frame" /\ x # None THEN Descendants(objs, i) ELSE {}

(* Faulty variant: only the frame's own pin is looked at.                  *)
MayTransformIgnoringContents(objs, i, x, width) ==
  /\ i \in ActiveIn(objs)
  /\ x # None \/ width # None
  /\ ~objs[i].pinned

MayTransform(objs, i, x, width) ==
  /\ i \in ActiveIn(objs)
  /\ x # None \/ width # None
  /\ \A j \in Carried(objs, i, x) \union {i} : ~objs[j].pinned

Transformed(objs, i, x, width) ==
  LET offset   == IF x = None THEN 0 ELSE x - objs[i].x
      moved(j) == Touched([objs[j] EXCEPT !.x = @ + offset])
  IN  [j \in Carried(objs, i, x) \union {i} |->
         IF j = i /\ width # None THEN [moved(i) EXCEPT !.width = width]
                                 ELSE moved(j)]

Flagged(objs, i, pinned, minimized) ==
  Only(i, Touched([objs[i] EXCEPT !.pinned = pinned, !.minimized = minimized]))

(* Faulty variant: a frame goes to the trash with objects still inside.    *)
MayDiscardWithContents(objs, i) == i \in ActiveIn(objs)

MayDiscard(objs, i) ==
  /\ i \in ActiveIn(objs)
  /\ objs[i].type = "frame" => Children(objs, i) = {}

Discarded(objs, i) == Only(i, Touched([objs[i] EXCEPT !.deleted = TRUE]))

MayGroup(objs, f, selected, x, width) ==
  /\ objs[f] = None
  /\ selected # {}
  /\ selected \subseteq ActiveIn(objs)
  /\ \A j \in selected : /\ ~objs[j].pinned
                         /\ objs[j].parent = None
                         /\ Encloses([x |-> x, width |-> width], objs[j])

Grouped(objs, f, selected, x, width) ==
  [j \in selected \union {f} |->
     IF j = f THEN Fresh("frame", x, width, << >>)
              ELSE Touched([objs[j] EXCEPT !.parent = f])]

MayUngroup(objs, f) == f \in ActiveIn(objs) /\ objs[f].type = "frame"

Ungrouped(objs, f) ==
  [j \in Children(objs, f) \union {f} |->
     IF j = f THEN Touched([objs[f] EXCEPT !.deleted = TRUE])
              ELSE Touched([objs[j] EXCEPT !.parent = objs[f].parent])]
=============================================================================
