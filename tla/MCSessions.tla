----------------------------- MODULE MCSessions -----------------------------
(* Instances of Sessions and of the limiter for TLC. *)
EXTENDS SignIns

CONSTANTS t1, t2, r1, r2, r3, k1, k2
=============================================================================
