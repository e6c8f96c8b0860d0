-------------------------- MODULE MCReviewedDiscard --------------------------
(* Model-checking instance of ReviewedDiscard. *)
EXTENDS ReviewedDiscard, TLC
==============================================================================
