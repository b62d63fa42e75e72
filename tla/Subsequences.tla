---------------------------- MODULE Subsequences ----------------------------
(***************************************************************************)
(* What Vec::retain leaves of a sequence, by the positions that stay.      *)
(***************************************************************************)
EXTENDS Integers, Sequences, FiniteSets

Rank(i, I) == Cardinality({k \in I : k <= i})

(* The elements of s at the positions I, in their order.                   *)
Keep(s, I) == [j \in 1..Cardinality(I) |-> s[CHOOSE i \in I : Rank(i, I) = j]]

=============================================================================
