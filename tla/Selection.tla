------------------------------ MODULE Selection ------------------------------
(***************************************************************************)
(* A loop that walks over a list and takes some of its elements: the       *)
(* positions it takes, in their order, and the elements there.  By rank,   *)
(* not by SelectSeq of the library, whose recursion no proof can expand.   *)
(***************************************************************************)
EXTENDS Naturals, FiniteSets

Below(S, n) == {m \in S : m < n}

\* The numbers of a finite set, lowest first.
InOrder(S) == [k \in 1 .. Cardinality(S) |->
                 CHOOSE n \in S : Cardinality(Below(S, n)) = k - 1]

\* The elements of s at the positions in S.
Picked(s, S) == [k \in 1 .. Cardinality(S) |-> s[InOrder(S)[k]]]
=============================================================================
