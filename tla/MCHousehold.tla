----------------------------- MODULE MCHousehold -----------------------------
(* Instances of Household for TLC. *)
EXTENDS Household, TLC

CONSTANTS i1, u1, u2, n1, n2

\* Chores differ in their rules.
NamesByKind == [k \in Kinds |-> IF k = "chore" THEN {n1} ELSE {n1, n2}]

Interchangeable == Permutations({u1, u2})
=============================================================================
