---------------------------- MODULE SortedSeqs ----------------------------
(***************************************************************************)
(* Sorting numbers and filtering arrays, without recursion: a place is     *)
(* given by how many are not behind it.                                    *)
(***************************************************************************)
EXTENDS Integers, FiniteSets

\* The members of a finite set of numbers, in order.
SortedSeq(S) ==
    [k \in 1..Cardinality(S) |-> CHOOSE x \in S : Cardinality({y \in S : y <= x}) = k]

\* The elements of the sequence s that are in T, in their order.
Subsequence(s, T) ==
    LET at == SortedSeq({i \in DOMAIN s : s[i] \in T})
    IN  [k \in DOMAIN at |-> s[at[k]]]
=============================================================================
