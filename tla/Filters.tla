------------------------------ MODULE Filters ------------------------------
(***************************************************************************)
(* Filters of Go slices by position: the loops that build `kalan' from the *)
(* elements they keep.  The same as SelectSeq where the test is about the  *)
(* element alone; the definition is by cardinality so that it can be       *)
(* reasoned about.                                                         *)
(***************************************************************************)
EXTENDS Naturals, FiniteSets, Sequences

Rank(I, i) == Cardinality({j \in I : j <= i})

Nth(I, k) == CHOOSE i \in I : Rank(I, i) = k

\* The elements of s at the positions I, in their order.
AtPositions(s, I) == [k \in 1..Cardinality(I) |-> s[Nth(I, k)]]
=============================================================================
