----------------------------- MODULE Selection ------------------------------
(***************************************************************************)
(* The selection of SelectSeq with a set in place of the test, so that     *)
(* what it computes can be reasoned about: for all x, the test is x \in T. *)
(***************************************************************************)
EXTENDS Integers, Sequences

\* The elements of s that are in T, in their order.
Selected(s, T) ==
  LET kept[n \in 0..Len(s)] ==
        IF n = 0 THEN <<>>
        ELSE IF s[n] \in T THEN Append(kept[n - 1], s[n]) ELSE kept[n - 1]
  IN kept[Len(s)]
=============================================================================
