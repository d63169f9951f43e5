-------------------------------- MODULE Lists --------------------------------
(***************************************************************************)
(* Two loops over a list, as recursive functions of how far the loop has   *)
(* come.  SelectSeq and the folds of the community modules would say the   *)
(* same, but take an operator as argument, which the provers cannot reason *)
(* about; the facts the proofs need of these two are in ListsProofs.       *)
(***************************************************************************)
EXTENDS Integers, Sequences

(* The elements of s that are in S, in the order they have in s, after n   *)
(* turns of the loop and at its end.                                       *)
Kept(s, S) ==
  LET kept[n \in 0..Len(s)] ==
        IF n = 0 THEN <<>>
        ELSE IF s[n] \in S THEN Append(kept[n - 1], s[n]) ELSE kept[n - 1]
  IN kept

Keep(s, S) == Kept(s, S)[Len(s)]

(* The sum of a list of numbers, likewise. *)
Totals(s) ==
  LET upto[n \in 0..Len(s)] == IF n = 0 THEN 0 ELSE upto[n - 1] + s[n]
  IN upto

Total(s) == Totals(s)[Len(s)]
=============================================================================
