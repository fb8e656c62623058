------------------------------- MODULE Order -------------------------------
(***************************************************************************)
(* What collecting names in the order a directory gives them and sorting   *)
(* them afterwards leaves: `candidates` (dispatch.rs) does so with files,  *)
(* release-metadata with families, and `filter` keeps the order it finds.  *)
(***************************************************************************)
EXTENDS Naturals, Sequences

\* The members of S, in the order in which a sorted list of all names has them.
InOrder(order, S) ==
  LET upTo[i \in 0..Len(order)] ==
        IF i = 0 THEN <<>>
        ELSE IF order[i] \in S THEN Append(upTo[i - 1], order[i]) ELSE upTo[i - 1]
  IN upTo[Len(order)]
=============================================================================
