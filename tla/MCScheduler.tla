----------------------------- MODULE MCScheduler -----------------------------
(* Instances of Scheduler for TLC. *)
EXTENDS Scheduler

CONSTANTS e1, e2, s1, s2, s3, w1, w2
=============================================================================
