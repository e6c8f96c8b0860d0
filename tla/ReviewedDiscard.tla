--------------------------- MODULE ReviewedDiscard ---------------------------
(***************************************************************************)
(* The two-step discard of command-canvas-room.tsx in the local preview,   *)
(* where CanvasStore.dispatch is the only authority: a person reviews an   *)
(* object, other actors (WebMCP tools, voice) keep issuing commands, and   *)
(* the confirmation goes through if the object is still live and carries   *)
(* the reviewed version.  Titles never change, so they are left out.       *)
(***************************************************************************)
EXTENDS CommandEngine

VARIABLE target      \* the object under review, as it was shown; None if none

reviewVars == <<vars, target>>

Shown == [id : Ids, object : Object] \union {None}

ReviewTypeOK == TypeOK /\ target \in Shown

(* createLocalPreviewState: the prepared objects are there from the start, *)
(* at version 1 and with no receipt behind them.                           *)
ReviewInit ==
  /\ objects \in [Ids -> { Fresh("note", 0, w, << >>) : w \in Widths }]
  /\ revision = 0
  /\ receipts = << >>
  /\ undone = {}
  /\ redo = << >>
  /\ target = None

Review(i) ==
  /\ i \in Active
  /\ target' = [id |-> i, object |-> objects[i]]
  /\ UNCHANGED vars

Confirmable ==
  /\ target # None
  /\ target.id \in Active
  /\ objects[target.id].version = target.object.version

ConfirmDiscard ==
  /\ Confirmable
  /\ DiscardObject(target.id)
  /\ target' = None

(* The cancel button, or the refusal of a confirmation.                    *)
CancelDiscard ==
  /\ target # None
  /\ target' = None
  /\ UNCHANGED vars

ReviewNext ==
  \/ Next /\ UNCHANGED target
  \/ \E i \in Ids : Review(i)
  \/ ConfirmDiscard
  \/ CancelDiscard

ReviewSpec == ReviewInit /\ [][ReviewNext]_reviewVars

(* A confirmation never discards an object whose content differs from the  *)
(* one that was reviewed ("A changed or deleted target is refused",        *)
(* docs/verification-ledger.md).  The version guard does not ensure it:    *)
(* undoLatest puts the earlier object back with its earlier version, and   *)
(* the next edit reaches the reviewed version with other content.          *)
ChangedTargetRefused == Confirmable => objects[target.id] = target.object
==============================================================================
