------------------------------- MODULE MCChat -------------------------------
(* Instances of Chat for TLC. *)
EXTENDS Chat

CONSTANTS m1, m2, m3, w1, w2
=============================================================================
