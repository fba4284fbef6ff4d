------------------------------- MODULE Balances -------------------------------
(***************************************************************************)
(* The answer to a balance request (GetBalances, handlers/balances.go):    *)
(* nets that Expenses reads and counts while expenses change, with the     *)
(* payments that Settlements works out from them.                          *)
(***************************************************************************)
EXTENDS Expenses, Settlements

\* Whatever the people of a house will spend on each other, its payments will settle
\* it in full.  As this depends on no state, TLC looks at one: the founder alone,
\* before the first expense.
FutureSettles ==
  /\ Members = {Founder} /\ changes = 0
  /\ \A i \in Ids : expense[i].state = "absent"
  /\ \A r \in Requests : req[r] = IdleRequest
  => EverybodyEven

\* A balance request is answered with payments that settle what it answers, although
\* amounts and splits were read at different times while expenses changed.
BalancesSettle ==
  /\ \A r \in Requests : req[r].answered =>
       \A payments \in calculateSettlements(req[r].net) : Settles(req[r].net, payments)
  /\ FutureSettles
===============================================================================
