------------------------------- MODULE Expenses -------------------------------
(***************************************************************************)
(* The expenses of a house, their splits and who may see them              *)
(* (repository/expenses.go, handlers/expenses.go), and the balances        *)
(* computed from them (handlers/balances.go).                              *)
(*                                                                         *)
(* Like the requests of Membership, one here is its handler's reads and    *)
(* checks, then a transaction that uses what they found.  Amounts are      *)
(* cents, as moneyToCents leaves them.  A house holds no other house's     *)
(* expenses: every statement names the house.                              *)
(***************************************************************************)
EXTENDS Integers, FiniteSets, Functions

CONSTANTS
  Users, Founder,
  Ids,            \* identifiers of expenses, each used once
  Amounts,        \* amounts in cents that clients ask for
  Requests,       \* bound: requests in flight at the same time
  Offered,        \* the operations clients use, see Operations
  MaxChanges,     \* bound: changes of membership
  NoUser, NoId

Operations == {"create", "update", "delete", "share", "balances"}

ASSUME ExpensesAssumption ==
  /\ IsFiniteSet(Users) /\ Founder \in Users /\ NoUser \notin Users /\ NoId \notin Ids
  /\ Amounts \subseteq Nat \ {0}
  /\ Offered \subseteq Operations
  /\ MaxChanges \in Nat

VARIABLES
  role,      \* house_members
  changes,   \* changes of membership so far
  expense,   \* expenses
  split,     \* expense_splits: the cents each of its users owes of an expense
  visible,   \* expense_visibility: whom a private expense is shared with
  req        \* requests between their handler's reads and their transaction

vars == <<role, changes, expense, split, visible, req>>

Roles == {"admin", "member", "monitor", "none"}

\* A split gives each user the cents they owe, or NoRow.
NoRow == -1
Splits == [Users -> Nat \cup {NoRow}]
NoSplit == [u \in Users |-> NoRow]
Charged(s) == {u \in Users : s[u] # NoRow}
Total(s) == SumFunctionOnSet(s, Charged(s))

Expense == [state : {"absent", "stored", "deleted"}, payer : Users \cup {NoUser},
            amount : Nat, private : BOOLEAN]
\* `read' is the amount the handler read, `visible' the readers it asks for.  `todo' and
\* `net' are the expenses a balance request still has to count and the nets of those
\* counted.
Request == [op : Operations \cup {"idle"}, actor : Users \cup {NoUser},
            id : Ids \cup {NoId}, read : Nat, amount : Nat, split : Splits,
            private : BOOLEAN, visible : SUBSET Users,
            todo : [Ids -> Nat \cup {NoRow}], net : [Users -> Int],
            answered : BOOLEAN]

IdleRequest ==
  [op |-> "idle", actor |-> NoUser, id |-> NoId, read |-> 0, amount |-> 0,
   split |-> NoSplit, private |-> FALSE, visible |-> {}, todo |-> [i \in Ids |-> NoRow],
   net |-> [u \in Users |-> 0], answered |-> FALSE]

TypeOK ==
  /\ role \in [Users -> Roles]
  /\ changes \in 0..MaxChanges
  /\ expense \in [Ids -> Expense]
  /\ split \in [Ids -> Splits]
  /\ visible \in [Ids -> SUBSET Users]
  /\ req \in [Requests -> Request]
  /\ \A i \in Ids : expense[i].state = "stored" => expense[i].payer \in Users /\ expense[i].amount > 0
  /\ \A r \in Requests : req[r].op \in {"create", "update", "delete", "share"} => req[r].id \in Ids

Init ==
  /\ role \in {f \in [Users -> Roles] : f[Founder] = "admin"}
  /\ changes = 0
  /\ expense = [i \in Ids |-> [state |-> "absent", payer |-> NoUser, amount |-> 0,
                               private |-> FALSE]]
  /\ split = [i \in Ids |-> NoSplit]
  /\ visible = [i \in Ids |-> {}]
  /\ req = [r \in Requests |-> IdleRequest]

-----------------------------------------------------------------------------
(* Who may do what *)

Members == {u \in Users : role[u] # "none"}

\* canCreateHouseContent, of a member; also the users a split may name.
Active == {u \in Members : role[u] # "monitor"}

\* canMutateOwnedResource.
CanMutate(u, i) == u \in Active /\ (role[u] = "admin" \/ expense[i].payer = u)

\* visibleExpense.
Audience(i) == IF expense[i].private THEN visible[i] \cup {expense[i].payer} ELSE Users
Sees(u, i) == expense[i].state = "stored" /\ u \in Audience(i)

\* The outcome of an acceptance, role update or removal (see Membership).
MembershipChanges ==
  /\ changes < MaxChanges
  /\ \E u \in Users, ro \in Roles :
       /\ ro # role[u]
       /\ role' = [role EXCEPT ![u] = ro]
       /\ \E v \in Users : role'[v] = "admin"
  /\ changes' = changes + 1
  /\ UNCHANGED <<expense, split, visible, req>>

-----------------------------------------------------------------------------
(* Splits *)

\* buildSplits without a request: the cents left over go to the first members.
EqualSplits(amount) ==
  LET n == Cardinality(Active) IN
  {[u \in Users |-> IF u \in First THEN amount \div n + 1
                    ELSE IF u \in Active THEN amount \div n ELSE NoRow] :
     First \in {S \in SUBSET Active : Cardinality(S) = amount % n}}

\* buildCustomSplits accepts positive shares of active members that add up.
CustomSplits(amount) ==
  {s \in [Users -> {NoRow} \cup (1..amount)] :
     s # NoSplit /\ Charged(s) \subseteq Active /\ Total(s) = amount}

\* Mutant of ValidParticipants: only the handler looks at the members.
AnyParticipants(shares, readers) == TRUE

\* validateParticipants, under the house lock.
ValidParticipants(shares, readers) == readers \subseteq Members /\ Charged(shares) \subseteq Active

\* validateMoneyAmounts.
ValidAmounts(amount, shares) ==
  amount > 0 /\ shares # NoSplit /\ Total(shares) = amount

-----------------------------------------------------------------------------
(* Handlers *)

Idle(r) == req[r].op = "idle"

Begin(r, q) ==
  /\ req' = [req EXCEPT ![r] = q]
  /\ UNCHANGED <<role, changes, expense, split, visible>>

Done(r) == req' = [req EXCEPT ![r] = IdleRequest]

FreshIds == {i \in Ids : /\ expense[i].state = "absent"
                         /\ \A r \in Requests : req[r].id # i}

\* A visibility and the readers it may name.
Audiences == {<<FALSE, {}>>} \cup ({TRUE} \X SUBSET Members)

BeginCreate(r) ==
  /\ "create" \in Offered /\ Idle(r)
  /\ \E a \in Active, i \in FreshIds, n \in Amounts, v \in Audiences :
       \E s \in EqualSplits(n) \cup CustomSplits(n) :
         Begin(r, [IdleRequest EXCEPT !.op = "create", !.actor = a, !.id = i, !.amount = n,
                                      !.split = s, !.private = v[1], !.visible = v[2]])

\* Mutant of SplitGiven: the amount may change without a new split.
SplitOptional(i, n) == {NoSplit} \cup CustomSplits(n)

\* The splits an update to amount n of expense i may bring along: "replacement
\* split is required when amount changes".
SplitGiven(i, n) == CustomSplits(n) \cup (IF n = expense[i].amount THEN {NoSplit} ELSE {})

\* The amount is written back even if the client only changes the description.
BeginUpdate(r) ==
  /\ "update" \in Offered /\ Idle(r)
  /\ \E a \in Users, i \in Ids :
       /\ Sees(a, i) /\ CanMutate(a, i)
       /\ \E n \in Amounts \cup {expense[i].amount} : \E s \in SplitGiven(i, n) :
            Begin(r, [IdleRequest EXCEPT !.op = "update", !.actor = a, !.id = i, !.amount = n,
                                         !.split = s, !.read = expense[i].amount])

\* The transaction does not look at the audience again: an expense that has become
\* private meanwhile is deleted, or changed, all the same.
BeginDelete(r) ==
  /\ "delete" \in Offered /\ Idle(r)
  /\ \E a \in Users, i \in Ids :
       /\ Sees(a, i) /\ CanMutate(a, i)
       /\ Begin(r, [IdleRequest EXCEPT !.op = "delete", !.actor = a, !.id = i])

BeginSetVisibility(r) ==
  /\ "share" \in Offered /\ Idle(r)
  /\ \E a \in Active, i \in Ids, v \in Audiences :
       /\ Sees(a, i) /\ expense[i].payer = a
       /\ Begin(r, [IdleRequest EXCEPT !.op = "share", !.actor = a, !.id = i,
                                       !.private = v[1], !.visible = v[2]])

-----------------------------------------------------------------------------
(* Transactions *)

CreateAggregate(r) ==
  LET q == req[r]  i == q.id IN
  /\ q.op = "create"
  /\ \/ /\ ValidParticipants(q.split, q.visible) /\ ValidAmounts(q.amount, q.split)
        /\ expense' = [expense EXCEPT ![i] = [state |-> "stored", payer |-> q.actor,
                                              amount |-> q.amount, private |-> q.private]]
        /\ split' = [split EXCEPT ![i] = q.split]
        /\ visible' = [visible EXCEPT ![i] = q.visible]
     \/ /\ ~(ValidParticipants(q.split, q.visible) /\ ValidAmounts(q.amount, q.split))
        /\ UNCHANGED <<expense, split, visible>>
  /\ Done(r)
  /\ UNCHANGED <<role, changes>>

\* Mutant of Replaces: rows of a deleted expense are inserted again.
ReplacesAnyway(q) == q.split # NoSplit /\ ValidParticipants(q.split, {})

\* The update finds its expense and, when it brings a split, may store it.
Replaces(q) == /\ expense[q.id].state = "stored" /\ q.split # NoSplit
               /\ ValidParticipants(q.split, {}) /\ ValidAmounts(q.amount, q.split)

UpdateAggregate(r) ==
  LET q == req[r]  i == q.id IN
  /\ q.op = "update"
  /\ \/ /\ Replaces(q)
        /\ expense' = [expense EXCEPT ![i].amount = q.amount]
        /\ split' = [split EXCEPT ![i] = q.split]
     \/ /\ q.split = NoSplit /\ expense[i].state = "stored"
        /\ expense' = [expense EXCEPT ![i].amount = q.amount]
        /\ UNCHANGED split
     \/ /\ ~Replaces(q)
        /\ ~(q.split = NoSplit /\ expense[i].state = "stored")
        /\ UNCHANGED <<expense, split>>
  /\ Done(r)
  /\ UNCHANGED <<role, changes, visible>>

\* One statement, without the house lock; the dependent rows go by cascade.
Delete(r) ==
  LET i == req[r].id IN
  /\ req[r].op = "delete"
  /\ \/ /\ expense[i].state = "stored"
        /\ expense' = [expense EXCEPT ![i].state = "deleted"]
        /\ split' = [split EXCEPT ![i] = NoSplit]
        /\ visible' = [visible EXCEPT ![i] = {}]
     \/ /\ expense[i].state # "stored"
        /\ UNCHANGED <<expense, split, visible>>
  /\ Done(r)
  /\ UNCHANGED <<role, changes>>

SetVisibility(r) ==
  LET q == req[r]  i == q.id IN
  /\ q.op = "share"
  /\ \/ /\ ValidParticipants(NoSplit, q.visible) /\ expense[i].state = "stored"
        /\ expense' = [expense EXCEPT ![i].private = q.private]
        /\ visible' = [visible EXCEPT ![i] = q.visible]
     \/ /\ ~(ValidParticipants(NoSplit, q.visible) /\ expense[i].state = "stored")
        /\ UNCHANGED <<expense, visible>>
  /\ Done(r)
  /\ UNCHANGED <<role, changes, split>>

-----------------------------------------------------------------------------
(* Balances: the expenses are read at once, the splits of each one later *)

GetExpensesForBalance(r) ==
  /\ "balances" \in Offered /\ Idle(r)
  /\ \E a \in Members :
       Begin(r, [IdleRequest EXCEPT !.op = "balances", !.actor = a,
          !.todo = [i \in Ids |-> IF expense[i].state = "stored" /\ ~expense[i].private
                                  THEN expense[i].amount ELSE NoRow]])

ToCount(r) == {i \in Ids : req[r].todo[i] # NoRow}

Owed(s, u) == IF s[u] = NoRow THEN 0 ELSE s[u]

\* Mutant of Adds: the total of the splits is not compared.
AddsAnything(r, i) == split[i] # NoSplit

\* The splits read now belong to the amount read before.
Adds(r, i) == split[i] # NoSplit /\ Total(split[i]) = req[r].todo[i]

GetSplits(r) ==
  /\ req[r].op = "balances" /\ ~req[r].answered
  /\ \E i \in ToCount(r) :
       \/ /\ Adds(r, i)
          /\ req' = [req EXCEPT
               ![r].todo[i] = NoRow,
               ![r].net = [u \in Users |->
                  @[u] + (IF u = expense[i].payer THEN req[r].todo[i] ELSE 0)
                       - Owed(split[i], u)]]
       \/ ~Adds(r, i) /\ Done(r)
  /\ UNCHANGED <<role, changes, expense, split, visible>>

AnswerBalances(r) ==
  /\ req[r].op = "balances" /\ ~req[r].answered /\ ToCount(r) = {}
  /\ req' = [req EXCEPT ![r].answered = TRUE]
  /\ UNCHANGED <<role, changes, expense, split, visible>>

BalancesRead(r) ==
  /\ req[r].answered
  /\ Done(r)
  /\ UNCHANGED <<role, changes, expense, split, visible>>

Next ==
  \/ MembershipChanges
  \/ \E r \in Requests :
       \/ BeginCreate(r) \/ BeginUpdate(r) \/ BeginDelete(r) \/ BeginSetVisibility(r)
       \/ CreateAggregate(r) \/ UpdateAggregate(r) \/ Delete(r) \/ SetVisibility(r)
       \/ GetExpensesForBalance(r) \/ GetSplits(r) \/ AnswerBalances(r) \/ BalancesRead(r)

Spec == Init /\ [][Next]_vars

-----------------------------------------------------------------------------
(* Correctness *)

Stored(i) == expense[i].state = "stored"
Agrees(i) == Total(split[i]) = expense[i].amount

\* Splits and readers come and go with their expense: an update or a change of
\* visibility that loses the race against a deletion leaves no rows behind.
NoOrphans ==
  \A i \in Ids : /\ Stored(i) <=> split[i] # NoSplit
                 /\ visible[i] # {} => Stored(i)

\* Nobody is charged who is no active member at that moment, even if they were
\* one when the request was checked.
ChargedUsersAreActive ==
  [][\A i \in Ids : split'[i] # split[i] => Charged(split'[i]) \subseteq Active]_vars

\* An expense can be created or deleted, amounts and splits replaced together;
\* the one step that sets them at odds is an update that brings no split and
\* writes back an amount that has been replaced since its handler read it.
OnlyStaleUpdatesDisagree ==
  [][\A i \in Ids : Agrees(i) /\ Stored(i)' /\ ~Agrees(i)' =>
       \E r \in Requests : /\ req[r].op = "update" /\ req[r].id = i
                           /\ req[r].split = NoSplit
                           /\ req[r].amount = req[r].read
                           /\ req[r].read # expense[i].amount]_vars

\* Rows keep their shape and follow their expense.
ExpensesInv == TypeOK /\ NoOrphans
=============================================================================
