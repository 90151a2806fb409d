-------------------------------- MODULE Ranks --------------------------------
(***************************************************************************)
(* Numbering the members of a finite set of integers in increasing order:  *)
(* what a loop over an array that skips some entries does.                 *)
(***************************************************************************)
EXTENDS Integers, FiniteSets

\* The position of i in S.
Rank(S, i) == Cardinality({ j \in S : j <= i })

\* The member of S at position k.
AtRank(S, k) == CHOOSE i \in S : Rank(S, i) = k
=============================================================================
