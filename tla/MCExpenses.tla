------------------------------ MODULE MCExpenses ------------------------------
(* Instances of Expenses for TLC, and the settlements its balances end in. *)
EXTENDS Balances, TLC

CONSTANTS u1, u2, e1, e2, r1, r2, p1, p2, p3, p4, p5

Symmetry == Permutations({r1, r2})
===============================================================================
