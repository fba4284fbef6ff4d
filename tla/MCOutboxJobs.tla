---------------------------- MODULE MCOutboxJobs ----------------------------
(* Instances of OutboxJobs for TLC. *)
EXTENDS OutboxJobs, TLC

CONSTANTS w1, w2, m1, m2, o1, o2

\* Two processes under one owner name.
SharedOwner == [w \in Workers |-> o1]

LinkAndPush == m1 :> "link" @@ m2 :> "push"
=============================================================================
