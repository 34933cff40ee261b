------------------------------ MODULE Ordering ------------------------------
(***************************************************************************)
(* What a loop over addresses or over the entries of a table visits.       *)
(***************************************************************************)
EXTENDS Integers, FiniteSets

\* The members of a finite set of numbers, the least first.
Ordered(S) ==
    [i \in 1..Cardinality(S) |-> CHOOSE x \in S : Cardinality({y \in S : y < x}) = i - 1]
=============================================================================
