---------------------------- MODULE LinearHistory ----------------------------
(***************************************************************************)
(* What a history of edits promises its user, with no receipts at all: a   *)
(* present document, the documents undo walks back through and the ones    *)
(* redo walks forward through.  A new edit forgets the forward documents.  *)
(* CommandEngine and RoomDatabase are each shown to implement it.          *)
(***************************************************************************)
EXTENDS Sequences, SequencesExt

CONSTANT Documents      \* every document the present can be

VARIABLES past,         \* documents undo returns to, oldest first
          present,
          future        \* documents redo returns to, next one first

historyVars == <<past, present, future>>

HistoryInit ==
  /\ past = << >>
  /\ present \in Documents
  /\ future = << >>

Edit ==
  /\ past' = Append(past, present)
  /\ present' \in Documents
  /\ future' = << >>

StepBack ==
  /\ past # << >>
  /\ past' = Front(past)
  /\ present' = Last(past)
  /\ future' = <<present>> \o future

StepForward ==
  /\ future # << >>
  /\ past' = Append(past, present)
  /\ present' = Head(future)
  /\ future' = Tail(future)

HistoryNext == Edit \/ StepBack \/ StepForward

HistorySpec == HistoryInit /\ [][HistoryNext]_historyVars
==============================================================================
