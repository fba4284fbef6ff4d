------------------------------ MODULE MCAccounts ------------------------------
(* Instances of Accounts for TLC. *)
EXTENDS Accounts, TLC

CONSTANTS u1, u2, u3, i1, i2, e1, e2, e3, a1, a2

Sym == Permutations(Users) \cup Permutations(Identities) \cup Permutations(Addresses)
         \cup Permutations(Attempts)
=============================================================================
