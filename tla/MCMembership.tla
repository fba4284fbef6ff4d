----------------------------- MODULE MCMembership -----------------------------
(* An instance of Membership for TLC. *)
EXTENDS Membership, TLC

CONSTANTS u1, u2, i1, i2, r1, r2

\* Requests are interchangeable, and so are the identifiers of invitations.
Symmetry == Permutations({i1, i2}) \cup Permutations({r1, r2})
=============================================================================
