------------------------------ MODULE MCCanvas ------------------------------
(* The command engine of a local preview, beside the stored canvas of a     *)
(* room: a behaviour is that of one of them, and the other stays as it was. *)
EXTENDS RoomDatabase, TLC

VARIABLES localObjects, localRevision, localReceipts, localUndone, localRedo, subject

localVars == <<localObjects, localRevision, localReceipts, localUndone, localRedo>>

\* The engine of the preview, with what is proved about it.
Local == INSTANCE CommandEngineProofs WITH
           Widths <- {2}, MaxRevision <- RevisionLimit,
           objects <- localObjects, revision <- localRevision,
           receipts <- localReceipts, undone <- localUndone, redo <- localRedo

Symmetry == Permutations(Ids)

PartInit ==
  /\ subject \in {"preview", "room"}
  /\ Init /\ Local!Init

(* Both parts stop at the same revision, so no command is planned there.   *)
PartNext ==
  \/ subject = "room" /\ revision < RevisionLimit
     /\ Next /\ UNCHANGED <<subject, localVars>>
  \/ subject = "preview" /\ localRevision < RevisionLimit
     /\ Local!Next /\ UNCHANGED <<subject, vars>>

PartSpec == PartInit /\ [][PartNext]_<<subject, vars, localVars>>

-----------------------------------------------------------------------------
(* The properties of CommandEngine, of the local preview.                  *)

\* The preview's canvas passes the checks of a load: it has its schema's types, its
\* undo and redo stacks name receipts they may name, and its live objects sit in live
\* frames, in no circle (validateHierarchy).
PreviewIsSound == Local!TypeOK /\ Local!HistoryWellFormed /\ Local!HierarchySound

\* Its pinned objects keep their place.
PreviewPinnedStaysPut == Local!PinnedStaysPut

\* Its undo and redo walk one linear history.
PreviewImplementsHistory == Local!ImplementsHistory
=============================================================================
