------------------------------- MODULE Selection -------------------------------
(***************************************************************************)
(* Loops over a vector that keep some of its elements, in their order.     *)
(* It is SelectSeq by the places that are kept, without recursion, so that *)
(* it can be reasoned about.                                               *)
(***************************************************************************)
EXTENDS Naturals, Sequences, FiniteSets

\* The n-th of a set of places.
Nth(kept, n) == CHOOSE i \in kept : Cardinality({j \in kept : j <= i}) = n

Selected(s, kept) == [n \in 1 .. Cardinality(kept) |-> s[Nth(kept, n)]]
=============================================================================
