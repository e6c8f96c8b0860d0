------------------------------ MODULE Selection ------------------------------
(* Array.prototype.filter: the elements of s at some of its places, in their *)
(* order.  It is SelectSeq with the test given as the set of places that     *)
(* pass, so that one lemma holds for every test.                             *)
EXTENDS Naturals, Sequences

Selected(s, places) ==
  LET upTo[n \in 0..Len(s)] ==
        IF n = 0 THEN << >>
        ELSE IF n \in places THEN Append(upTo[n - 1], s[n])
        ELSE upTo[n - 1]
  IN  upTo[Len(s)]
=============================================================================
