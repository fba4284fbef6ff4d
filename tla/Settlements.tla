------------------------------ MODULE Settlements ------------------------------
(***************************************************************************)
(* calculateSettlements (handlers/balances.go): the payments that even out *)
(* the balances of a house.  A balance gives each participant the cents    *)
(* they are owed, negative when they owe.                                  *)
(***************************************************************************)
EXTENDS Integers, FiniteSets, Sequences, Functions

CONSTANTS People,   \* participants of the balances to check
          MaxNet    \* bound: cents a participant is owed or owes

ASSUME SettlementsAssumption == IsFiniteSet(People) /\ MaxNet \in Nat

Creditors(net) == {c \in DOMAIN net : net[c] > 0}
Debtors(net) == {d \in DOMAIN net : net[d] < 0}

\* sort.Slice by the net, largest first; it leaves equal ones in any order.
Sorted(S, net) ==
  {s \in Bijection(1..Cardinality(S), S) : \A i \in 1..Cardinality(S) - 1 :
     net[s[i]] * net[s[i]] >= net[s[i + 1]] * net[s[i + 1]]}

\* Mutant of Amount: the debtor pays the creditor off.
AmountOwed(net, c, d) == net[c]

\* The smaller of what one is owed and the other one owes.
Amount(net, c, d) == IF -net[d] < net[c] THEN -net[d] ELSE net[c]

\* The loop before its first turn: what is `left' to settle, and the places `i' and
\* `j' it has reached in the two lists.
Start(net) == [left |-> net, i |-> 1, j |-> 1, payments |-> <<>>]

\* A turn of the loop for each payment, until either list is used up.
Turn(t, creditors, debtors) ==
  IF t.i \notin DOMAIN creditors \/ t.j \notin DOMAIN debtors THEN t
  ELSE LET c == creditors[t.i]  d == debtors[t.j]  amount == Amount(t.left, c, d)
           left == [t.left EXCEPT ![c] = @ - amount, ![d] = @ + amount]
       IN [left |-> left,
           i |-> IF left[c] = 0 THEN t.i + 1 ELSE t.i,
           j |-> IF left[d] = 0 THEN t.j + 1 ELSE t.j,
           payments |-> Append(t.payments, [from |-> d, to |-> c, amount |-> amount])]

\* As many turns as there are participants: it is over by then.
Turns(net, creditors, debtors) ==
  LET turn[n \in 0..Cardinality(DOMAIN net)] ==
        IF n = 0 THEN Start(net) ELSE Turn(turn[n - 1], creditors, debtors)
  IN turn

Payments(net, creditors, debtors) ==
  Turns(net, creditors, debtors)[Cardinality(DOMAIN net)].payments

calculateSettlements(net) ==
  {Payments(net, creditors, debtors) : creditors \in Sorted(Creditors(net), net),
                                       debtors \in Sorted(Debtors(net), net)}

-----------------------------------------------------------------------------
(* Correctness *)

\* What a participant gains by a payment, and by all of them.
Gain(payment, p) == (IF payment.to = p THEN payment.amount ELSE 0)
                    - (IF payment.from = p THEN payment.amount ELSE 0)
Paid(payments, p) == SumFunction([i \in DOMAIN payments |-> Gain(payments[i], p)])

\* Debtors pay creditors, nothing negative, in the end nobody owes or is owed, and
\* it takes fewer payments than people.
Settles(net, payments) ==
  /\ \A i \in 1..Len(payments) : /\ payments[i].amount > 0
                                 /\ net[payments[i].from] < 0 /\ net[payments[i].to] > 0
  /\ \A p \in DOMAIN net : Paid(payments, p) = net[p]
  /\ payments # <<>> => Len(payments) < Cardinality({p \in DOMAIN net : net[p] # 0})

Balanced == {net \in [People -> -MaxNet..MaxNet] : SumFunction(net) = 0}

\* The payments settle every debt in full, however equal nets are sorted.
EverybodyEven ==
  \A net \in Balanced : \A payments \in calculateSettlements(net) : Settles(net, payments)
================================================================================
