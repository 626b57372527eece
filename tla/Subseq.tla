------------------------------- MODULE Subseq -------------------------------
(***************************************************************************)
(* Subsequences by position, in a form one can both evaluate and reason    *)
(* about.                                                                  *)
(***************************************************************************)
EXTENDS Naturals, Sequences, FiniteSets

(* The members of the finite set K of numbers, smallest first.             *)
InOrder(K) ==
  [j \in 1..Cardinality(K) |-> CHOOSE k \in K : Cardinality({i \in K : i <= k}) = j]

(* What is left of s when only the positions in K stay.                    *)
Kept(s, K) == [j \in 1..Cardinality(K) |-> s[InOrder(K)[j]]]
=============================================================================
