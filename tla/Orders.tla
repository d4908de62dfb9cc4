------------------------------- MODULE Orders -------------------------------
(***************************************************************************)
(* The elements of a finite set, or some entries of a sequence, in their   *)
(* order: what Python's sorted, a comprehension with a condition and       *)
(* JavaScript's filter return.  An element stands at the place that is the *)
(* number of those before it, a definition that the proofs can expand,     *)
(* where SortSeq and SelectSeq of the standard modules are closed to them. *)
(***************************************************************************)
EXTENDS Naturals, Sequences, FiniteSets

\* How many come before x; R holds the pairs of an element and a later one.
Rank(S, R, x) == Cardinality({y \in S : <<y, x>> \in R})

InOrder(S, R) ==
    [i \in 1 .. Cardinality(S) |-> CHOOSE x \in S : Rank(S, R, x) = i - 1]

\* A set of numbers.
Less(S) == {e \in S \X S : e[1] < e[2]}

Ascending(S) == InOrder(S, Less(S))

\* The entries of s at the places K.
AtPlaces(s, K) == [i \in 1 .. Cardinality(K) |-> s[Ascending(K)[i]]]

=============================================================================
