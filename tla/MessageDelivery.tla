--------------------------- MODULE MessageDelivery ---------------------------
(***************************************************************************)
(* What the outbox promises to the code that enqueues a message: it is     *)
(* delivered at least once or given up, it is settled once and for all,    *)
(* and it is reported as dispatched only if a provider acknowledged it or  *)
(* there was nobody left to tell.  Leases, retries, clocks and workers do  *)
(* not appear.  OutboxJobs implements this specification.                  *)
(***************************************************************************)
CONSTANTS Messages,
          Invites,   \* messages about an invitation that may be withdrawn
          Pushes     \* messages whose audience may turn out to be empty

VARIABLES status,     \* what the outbox reports about each message
          reached,    \* messages a provider acknowledged, perhaps repeatedly
          withdrawn   \* invitations that can no longer be accepted

vars == <<status, reached, withdrawn>>

Init ==
  /\ status = [m \in Messages |-> "absent"]
  /\ reached = {}
  /\ withdrawn = {}

Announce(m) ==
  /\ status[m] = "absent"
  /\ status' = [status EXCEPT ![m] = "pending"]
  /\ UNCHANGED <<reached, withdrawn>>

WithdrawInvite(m) ==
  /\ status[m] # "absent"
  /\ m \in Invites \ withdrawn
  /\ withdrawn' = withdrawn \cup {m}
  /\ UNCHANGED <<status, reached>>

\* A stalled sender may reach its recipient again, even after the verdict.
Reach(m) ==
  /\ status[m] # "absent"
  /\ reached' = reached \cup {m}
  /\ UNCHANGED <<status, withdrawn>>

Dispatch(m) ==
  /\ status[m] = "pending"
  /\ m \in reached \cup withdrawn \cup Pushes
  /\ status' = [status EXCEPT ![m] = "dispatched"]
  /\ UNCHANGED <<reached, withdrawn>>

GiveUp(m) ==
  /\ status[m] = "pending"
  /\ status' = [status EXCEPT ![m] = "dead_lettered"]
  /\ UNCHANGED <<reached, withdrawn>>

Next == \E m \in Messages :
  Announce(m) \/ WithdrawInvite(m) \/ Reach(m) \/ Dispatch(m) \/ GiveUp(m)

Spec == Init /\ [][Next]_vars
=============================================================================
