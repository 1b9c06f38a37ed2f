------------------------------ MODULE Enumeration ------------------------------
(***************************************************************************)
(* The members of a finite set of integers in their order.  SetToSortSeq   *)
(* of the community modules is the same, but is built from an operator the *)
(* provers do not know.                                                    *)
(***************************************************************************)
EXTENDS Integers, FiniteSets

UpTo(S, x) == {y \in S : y <= x}
Nth(S, n) == CHOOSE x \in S : Cardinality(UpTo(S, x)) = n
InOrder(S) == [n \in 1 .. Cardinality(S) |-> Nth(S, n)]
================================================================================
