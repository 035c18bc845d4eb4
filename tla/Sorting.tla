-------------------------------- MODULE Sorting --------------------------------
(***************************************************************************)
(* The lists that sorting a set gives: a member stands where as many others *)
(* precede it.  Only an order that is total and strict has such a list.     *)
(***************************************************************************)
EXTENDS Integers, FiniteSets

(* sort_by, for the pairs of a set of which the first one comes first.      *)
Ranked(S, before) ==
  [i \in 1..Cardinality(S) |->
     CHOOSE x \in S : Cardinality({y \in S : <<y, x>> \in before}) = i - 1]

(* sort, for numbers.                                                       *)
Sorted(S) == Ranked(S, {p \in S \X S : p[1] < p[2]})
=============================================================================
