---------------------------- MODULE MCIdempotency ----------------------------
(* An instance of Idempotency for TLC. *)
EXTENDS Idempotency, TLC

CONSTANTS c1, c2, c3, k1, k2, o1, o2

Symmetry == Permutations({c1, c2, c3}) \cup Permutations({k1, k2})
              \cup Permutations({o1, o2})
=============================================================================
