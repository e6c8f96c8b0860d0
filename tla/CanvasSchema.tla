---------------------------- MODULE CanvasSchema ----------------------------
(* What a canvas command may name and how large it may be (the command      *)
(* schema of lib/canvas/object-model.ts), for the engine and the database.  *)
EXTENDS Integers

CONSTANTS
  Ids,          \* object identifiers a command may name
  None,         \* JavaScript's undefined / null: no object, no parent
  MaxX,         \* largest coordinate the command schema accepts
  Widths,       \* widths the command schema accepts
  Lines,        \* lines of text a command may append
  NoteLimit     \* NOTE_TEXT_MAX_LENGTH, in lines

ASSUME SchemaAssumption ==
  /\ None \notin Ids
  /\ MaxX \in Nat
  /\ Widths \subseteq Nat
  /\ NoteLimit \in Nat
=============================================================================
