---------------------------- MODULE ExpensesProofs ----------------------------
(* What holds of the expenses of a house for every number of users, expenses *)
(* and requests in flight, and of the balances they end in for any number of *)
(* people and nets of any size.                                              *)
EXTENDS Balances, FiniteSetTheorems, WellFoundedInduction, TLAPS

\* A request keeps what its handler checked: the writer is a user, an update
\* carries a positive amount, and one without a split carries the amount read.
Checked(q) ==
  /\ q.op = "create" => q.actor \in Users
  /\ q.op = "update" => q.amount > 0 /\ (q.split = NoSplit => q.amount = q.read)

InFlight == \A r \in Requests : Checked(req[r])

IInv == TypeOK /\ InFlight /\ NoOrphans

\* The requests a row may hold.
Admissible == {q \in Request : /\ q.op \in {"create", "update", "delete", "share"} => q.id \in Ids
                               /\ Checked(q)}

-----------------------------------------------------------------------------
LEMMA IdleAdmissible == IdleRequest \in Admissible /\ IdleRequest.op = "idle"
<1>1. NoSplit \in Splits
  BY DEF NoSplit, Splits, NoRow
<1>2. [i \in Ids |-> NoRow] \in [Ids -> Nat \cup {NoRow}]
  BY DEF NoRow
<1> QED
  BY <1>1, <1>2 DEF IdleRequest, Request, Admissible, Checked

LEMMA RequestsAdmissible ==
  ASSUME TypeOK, InFlight
  PROVE  req \in [Requests -> Admissible]
BY DEF TypeOK, InFlight, Admissible

\* A step that files an admissible request keeps the requests in order.
LEMMA Filed ==
  ASSUME TypeOK, InFlight, NEW r \in Requests, NEW q \in Admissible,
         req' = [req EXCEPT ![r] = q]
  PROVE  /\ req' \in [Requests -> Request]
         /\ \A s \in Requests : req'[s].op \in {"create", "update", "delete", "share"}
                                  => req'[s].id \in Ids
         /\ InFlight'
<1>1. req' \in [Requests -> Admissible]
  BY RequestsAdmissible
<1> QED
  BY <1>1 DEF Admissible, InFlight

LEMMA BeginKeeps ==
  ASSUME IInv, NEW r \in Requests, NEW q \in Admissible, Begin(r, q)
  PROVE  IInv'
<1>1. req' = [req EXCEPT ![r] = q]
  BY DEF Begin
<1> QED
  BY <1>1, Filed DEF Begin, IInv, TypeOK, NoOrphans, Stored

LEMMA DoneKeeps ==
  ASSUME TypeOK, InFlight, NEW r \in Requests, Done(r)
  PROVE  /\ req' \in [Requests -> Request]
         /\ \A s \in Requests : req'[s].op \in {"create", "update", "delete", "share"}
                                  => req'[s].id \in Ids
         /\ InFlight'
BY IdleAdmissible, Filed DEF Done

LEMMA CustomSplitsTyped ==
  ASSUME NEW n \in Nat
  PROVE  CustomSplits(n) \subseteq Splits
<1>1. 1..n \subseteq Nat
  OBVIOUS
<1> QED
  BY <1>1 DEF CustomSplits, Splits, NoRow

LEMMA EqualSplitsTyped ==
  ASSUME IsFiniteSet(Active), Active # {}, NEW n \in Nat
  PROVE  EqualSplits(n) \subseteq Splits
<1>1. Cardinality(Active) \in Nat /\ Cardinality(Active) # 0
  BY FS_CardinalityType, FS_EmptySet
<1>2. n \div Cardinality(Active) \in Nat
  BY <1>1
<1> QED
  BY <1>2 DEF EqualSplits, Splits, NoRow
LEMMA AudiencesTyped ==
  \A v \in Audiences : v[1] \in BOOLEAN /\ v[2] \in SUBSET Users
<1>1. SUBSET Members \subseteq SUBSET Users
  BY DEF Members
<1>2. <<FALSE, {}>>[1] = FALSE /\ <<FALSE, {}>>[2] = {}
  OBVIOUS
<1>3. \A v \in {TRUE} \X SUBSET Members : v[1] = TRUE /\ v[2] \in SUBSET Members
  OBVIOUS
<1> QED
  BY <1>1, <1>2, <1>3 DEF Audiences

-----------------------------------------------------------------------------
(* The handlers *)

LEMMA CreateKeeps ==
  ASSUME IInv, NEW r \in Requests, BeginCreate(r)
  PROVE  IInv'
<1>1. PICK a \in Active, i \in FreshIds, n \in Amounts, v \in Audiences :
        \E s \in EqualSplits(n) \cup CustomSplits(n) :
          Begin(r, [IdleRequest EXCEPT !.op = "create", !.actor = a, !.id = i, !.amount = n,
                                       !.split = s, !.private = v[1], !.visible = v[2]])
  BY DEF BeginCreate
<1>2. PICK s \in EqualSplits(n) \cup CustomSplits(n) :
        Begin(r, [IdleRequest EXCEPT !.op = "create", !.actor = a, !.id = i, !.amount = n,
                                     !.split = s, !.private = v[1], !.visible = v[2]])
  BY <1>1
<1> DEFINE q == [IdleRequest EXCEPT !.op = "create", !.actor = a, !.id = i, !.amount = n,
                                    !.split = s, !.private = v[1], !.visible = v[2]]
<1>3. s \in Splits
  <2>1. IsFiniteSet(Active)
    BY ExpensesAssumption, FS_Subset DEF ExpensesAssumption, Active, Members
  <2>2. n \in Nat
    BY ExpensesAssumption DEF ExpensesAssumption
  <2> QED
    BY <2>1, <2>2, EqualSplitsTyped, CustomSplitsTyped
<1>4. v[1] \in BOOLEAN /\ v[2] \in SUBSET Users
  BY AudiencesTyped
<1>5. a \in Users /\ i \in Ids /\ n \in Nat
  BY ExpensesAssumption DEF ExpensesAssumption, Active, Members, FreshIds
<1>6. q \in Admissible
  BY <1>3, <1>4, <1>5, IdleAdmissible DEF Admissible, Request, Checked, Operations
<1>7. Begin(r, q)
  BY <1>2
<1> HIDE DEF q
<1> QED
  BY <1>6, <1>7, BeginKeeps

LEMMA UpdateKeeps ==
  ASSUME IInv, NEW r \in Requests, BeginUpdate(r)
  PROVE  IInv'
<1>1. PICK a \in Users, i \in Ids :
        /\ Sees(a, i)
        /\ \E n \in Amounts \cup {expense[i].amount} : \E s \in SplitGiven(i, n) :
             Begin(r, [IdleRequest EXCEPT !.op = "update", !.actor = a, !.id = i, !.amount = n,
                                          !.split = s, !.read = expense[i].amount])
  BY DEF BeginUpdate
<1>2. PICK n \in Amounts \cup {expense[i].amount} : \E s \in SplitGiven(i, n) :
        Begin(r, [IdleRequest EXCEPT !.op = "update", !.actor = a, !.id = i, !.amount = n,
                                     !.split = s, !.read = expense[i].amount])
  BY <1>1
<1>3. PICK s \in SplitGiven(i, n) :
        Begin(r, [IdleRequest EXCEPT !.op = "update", !.actor = a, !.id = i, !.amount = n,
                                     !.split = s, !.read = expense[i].amount])
  BY <1>2
<1> DEFINE q == [IdleRequest EXCEPT !.op = "update", !.actor = a, !.id = i, !.amount = n,
                                    !.split = s, !.read = expense[i].amount]
<1>4. expense[i].amount \in Nat /\ n \in Nat /\ n > 0
  BY <1>1, ExpensesAssumption DEF ExpensesAssumption, Sees, IInv, TypeOK, Expense
<1>5. NoSplit \in Splits
  BY DEF NoSplit, Splits, NoRow
<1>6. s \in Splits
  BY <1>4, <1>5, CustomSplitsTyped DEF SplitGiven
<1>7. s = NoSplit => n = expense[i].amount
  BY DEF SplitGiven, CustomSplits
<1> HIDE DEF q
<1>8. /\ q \in Request /\ q.op = "update" /\ q.actor = a /\ q.id = i /\ q.amount = n
      /\ q.split = s /\ q.read = expense[i].amount
  BY <1>4, <1>6, IdleAdmissible DEF q, Admissible, Request, Operations
<1>9. q \in Admissible
  BY <1>4, <1>7, <1>8 DEF Admissible, Checked
<1>10. Begin(r, q)
  BY <1>3 DEF q
<1> QED
  BY <1>9, <1>10, BeginKeeps

LEMMA DeleteAndShareKeep ==
  ASSUME IInv, NEW r \in Requests, BeginDelete(r) \/ BeginSetVisibility(r)
  PROVE  IInv'
<1>1. CASE BeginDelete(r)
  <2>1. PICK a \in Users, i \in Ids :
          /\ Sees(a, i)
          /\ Begin(r, [IdleRequest EXCEPT !.op = "delete", !.actor = a, !.id = i])
    BY <1>1 DEF BeginDelete
  <2> DEFINE q == [IdleRequest EXCEPT !.op = "delete", !.actor = a, !.id = i]
  <2>2. q \in Admissible
    BY <2>1, IdleAdmissible DEF Admissible, Request, Checked, Operations
  <2>3. Begin(r, q)
    BY <2>1
  <2> HIDE DEF q
  <2> QED
    BY <2>2, <2>3, BeginKeeps
<1>2. CASE BeginSetVisibility(r)
  <2>1. PICK a \in Active, i \in Ids, v \in Audiences :
          Begin(r, [IdleRequest EXCEPT !.op = "share", !.actor = a, !.id = i,
                                       !.private = v[1], !.visible = v[2]])
    BY <1>2 DEF BeginSetVisibility
  <2> DEFINE q == [IdleRequest EXCEPT !.op = "share", !.actor = a, !.id = i,
                                      !.private = v[1], !.visible = v[2]]
  <2>2. v[1] \in BOOLEAN /\ v[2] \in SUBSET Users /\ a \in Users
    BY AudiencesTyped DEF Active, Members
  <2>3. q \in Admissible
    BY <2>2, IdleAdmissible DEF Admissible, Request, Checked, Operations
  <2>4. Begin(r, q)
    BY <2>1
  <2> HIDE DEF q
  <2> QED
    BY <2>3, <2>4, BeginKeeps
<1> QED
  BY <1>1, <1>2

LEMMA ReadKeeps ==
  ASSUME IInv, NEW r \in Requests, GetExpensesForBalance(r)
  PROVE  IInv'
<1> DEFINE amounts == [i \in Ids |-> IF expense[i].state = "stored" /\ ~expense[i].private
                                     THEN expense[i].amount ELSE NoRow]
<1>1. PICK a \in Members :
        Begin(r, [IdleRequest EXCEPT !.op = "balances", !.actor = a, !.todo = amounts])
  BY DEF GetExpensesForBalance
<1> DEFINE q == [IdleRequest EXCEPT !.op = "balances", !.actor = a, !.todo = amounts]
<1>2. amounts \in [Ids -> Nat \cup {NoRow}]
  BY DEF IInv, TypeOK, Expense
<1>3. a \in Users
  BY DEF Members
<1> HIDE DEF amounts
<1>4. q \in Admissible
  BY <1>2, <1>3, IdleAdmissible DEF Admissible, Request, Checked, Operations
<1>5. Begin(r, q)
  BY <1>1
<1> HIDE DEF q
<1> QED
  BY <1>4, <1>5, BeginKeeps

LEMMA CountKeeps ==
  ASSUME IInv, NEW r \in Requests, GetSplits(r) \/ AnswerBalances(r) \/ BalancesRead(r)
  PROVE  IInv'
<1>1. CASE AnswerBalances(r)
  <2> DEFINE q == [req[r] EXCEPT !.answered = TRUE]
  <2>1. q \in Admissible
    BY <1>1, RequestsAdmissible DEF AnswerBalances, IInv, Admissible, Request, Checked
  <2>2. req' = [req EXCEPT ![r] = q]
    BY <1>1 DEF AnswerBalances
  <2> HIDE DEF q
  <2> QED
    BY <1>1, <2>1, <2>2, Filed DEF AnswerBalances, IInv, TypeOK, NoOrphans, Stored
<1>2. CASE BalancesRead(r)
  BY <1>2, DoneKeeps DEF BalancesRead, IInv, TypeOK, NoOrphans, Stored
<1>3. CASE GetSplits(r)
  <2>1. PICK i \in ToCount(r) :
          \/ req' = [req EXCEPT
                 ![r].todo[i] = NoRow,
                 ![r].net = [u \in Users |->
                    @[u] + (IF u = expense[i].payer THEN req[r].todo[i] ELSE 0)
                         - Owed(split[i], u)]]
          \/ Done(r)
    BY <1>3 DEF GetSplits
  <2>2. CASE Done(r)
    BY <1>3, <2>2, DoneKeeps DEF GetSplits, IInv, TypeOK, NoOrphans, Stored
  <2>3. CASE req' = [req EXCEPT
                 ![r].todo[i] = NoRow,
                 ![r].net = [u \in Users |->
                    @[u] + (IF u = expense[i].payer THEN req[r].todo[i] ELSE 0)
                         - Owed(split[i], u)]]
    <3> DEFINE todo == [req[r].todo EXCEPT ![i] = NoRow]
               net == [u \in Users |->
                    req[r].net[u] + (IF u = expense[i].payer THEN req[r].todo[i] ELSE 0)
                                  - Owed(split[i], u)]
               q == [req[r] EXCEPT !.todo = todo, !.net = net]
    <3>1. req[r] \in Request /\ i \in Ids /\ req[r].todo[i] \in Nat
      BY DEF IInv, TypeOK, ToCount, Request
    <3>2. todo \in [Ids -> Nat \cup {NoRow}]
      BY <3>1 DEF Request
    <3>3. \A u \in Users : Owed(split[i], u) \in Nat
      BY <3>1 DEF IInv, TypeOK, Splits, Owed
    <3>4. net \in [Users -> Int]
      BY <3>1, <3>3 DEF Request
    <3>5. req' = [req EXCEPT ![r] = q]
      BY <2>3 DEF IInv, TypeOK
    <3>6. req[r] \in Admissible /\ req[r].op = "balances"
      BY <1>3, RequestsAdmissible DEF IInv, GetSplits
    <3> HIDE DEF todo, net
    <3>7. q \in Admissible
      BY <3>2, <3>4, <3>6 DEF Admissible, Request, Checked
    <3> HIDE DEF q
    <3> QED
      BY <1>3, <3>5, <3>7, Filed DEF GetSplits, IInv, TypeOK, NoOrphans, Stored
  <2> QED
    BY <2>1, <2>2, <2>3
<1> QED
  BY <1>1, <1>2, <1>3
-----------------------------------------------------------------------------
(* The transactions *)

\* What a transaction must do to the rows of one expense.
RowKept(i) ==
  /\ expense'[i] \in Expense /\ split'[i] \in Splits /\ visible'[i] \in SUBSET Users
  /\ expense'[i].state = "stored" => expense'[i].payer \in Users /\ expense'[i].amount > 0
  /\ expense'[i].state = "stored" <=> split'[i] # NoSplit
  /\ visible'[i] # {} => expense'[i].state = "stored"

LEMMA RowsKept ==
  ASSUME IInv, UNCHANGED <<role, changes>>, NEW r \in Requests, Done(r),
         DOMAIN expense' = Ids, DOMAIN split' = Ids, DOMAIN visible' = Ids,
         expense' = [i \in Ids |-> expense'[i]], split' = [i \in Ids |-> split'[i]],
         visible' = [i \in Ids |-> visible'[i]],
         \A i \in Ids : RowKept(i)
  PROVE  IInv'
<1>1. expense' \in [Ids -> Expense] /\ split' \in [Ids -> Splits] /\ visible' \in [Ids -> SUBSET Users]
  BY DEF RowKept
<1>2. NoOrphans'
  BY DEF RowKept, NoOrphans, Stored
<1> QED
  BY <1>1, <1>2, DoneKeeps DEF RowKept, IInv, TypeOK

LEMMA TransactionsKeep ==
  ASSUME IInv, NEW r \in Requests,
         CreateAggregate(r) \/ UpdateAggregate(r) \/ Delete(r) \/ SetVisibility(r)
  PROVE  IInv'
<1> DEFINE q == req[r]
           i == req[r].id
<1>1. Checked(q) /\ q \in Request /\ i \in Ids
  BY DEF IInv, InFlight, TypeOK, CreateAggregate, UpdateAggregate, Delete, SetVisibility
<1>2. /\ \A j \in Ids : /\ expense[j] \in Expense /\ split[j] \in Splits
                        /\ visible[j] \in SUBSET Users
                        /\ expense[j].state = "stored" => /\ expense[j].payer \in Users
                                                         /\ expense[j].amount > 0
                        /\ expense[j].state = "stored" <=> split[j] # NoSplit
                        /\ visible[j] # {} => expense[j].state = "stored"
      /\ DOMAIN expense = Ids /\ DOMAIN split = Ids /\ DOMAIN visible = Ids
      /\ expense = [j \in Ids |-> expense[j]] /\ split = [j \in Ids |-> split[j]]
      /\ visible = [j \in Ids |-> visible[j]]
  BY DEF IInv, TypeOK, NoOrphans, Stored
<1>3. NoSplit \in Splits
  BY DEF NoSplit, Splits, NoRow
<1>4. Done(r) /\ UNCHANGED <<role, changes>>
  BY DEF CreateAggregate, UpdateAggregate, Delete, SetVisibility
<1>5. ASSUME UNCHANGED <<expense, split, visible>> PROVE IInv'
  BY <1>2, <1>4, <1>5, RowsKept DEF RowKept
<1>6. CASE CreateAggregate(r)
  <2> DEFINE row == [state |-> "stored", payer |-> q.actor, amount |-> q.amount,
                     private |-> q.private]
  <2>1. CASE UNCHANGED <<expense, split, visible>>
    BY <2>1, <1>5
  <2>2. CASE /\ ValidAmounts(q.amount, q.split)
             /\ expense' = [expense EXCEPT ![i] = row]
             /\ split' = [split EXCEPT ![i] = q.split]
             /\ visible' = [visible EXCEPT ![i] = q.visible]
    <3>1. row \in Expense /\ row.state = "stored" /\ row.payer \in Users /\ row.amount > 0
      BY <1>1, <1>6, <2>2 DEF CreateAggregate, ValidAmounts, Checked, Request, Expense
    <3>2. q.split \in Splits /\ q.split # NoSplit /\ q.visible \in SUBSET Users
      BY <1>1, <2>2 DEF ValidAmounts, Request
    <3> HIDE DEF q, i, row
    <3>3. \A j \in Ids : /\ expense'[j] = IF j = i THEN row ELSE expense[j]
                         /\ split'[j] = IF j = i THEN q.split ELSE split[j]
                         /\ visible'[j] = IF j = i THEN q.visible ELSE visible[j]
      BY <1>2, <2>2
    <3>4. \A j \in Ids : RowKept(j)
      BY <1>2, <3>1, <3>2, <3>3 DEF RowKept
    <3> QED
      BY <1>2, <1>4, <2>2, <3>4, RowsKept
  <2> QED
    BY <1>6, <2>1, <2>2 DEF CreateAggregate
<1>7. CASE UpdateAggregate(r)
  <2>1. CASE UNCHANGED <<expense, split>>
    BY <1>7, <2>1, <1>5 DEF UpdateAggregate
  <2>2. CASE /\ expense[i].state = "stored"
             /\ expense' = [expense EXCEPT ![i].amount = q.amount]
             /\ \/ split' = [split EXCEPT ![i] = q.split] /\ q.split # NoSplit
                \/ split' = split
    <3> DEFINE row == [expense[i] EXCEPT !.amount = q.amount]
    <3>1. row \in Expense /\ row.state = "stored" /\ row.payer \in Users /\ row.amount > 0
      <4>1. q.amount \in Nat /\ q.amount > 0
        BY <1>1, <1>7 DEF UpdateAggregate, Checked, Request
      <4>2. expense[i] \in Expense /\ expense[i].state = "stored" /\ expense[i].payer \in Users
        BY <1>1, <1>2, <2>2
      <4> QED
        BY <4>1, <4>2 DEF Expense
    <3>2. q.split \in Splits /\ expense' = [expense EXCEPT ![i] = row]
      BY <1>1, <2>2 DEF Request
    <3>3. UNCHANGED visible
      BY <1>7 DEF UpdateAggregate
    <3>4. split[i] # NoSplit
      BY <1>1, <1>2, <2>2
    <3> HIDE DEF q, i, row
    <3>5. \A j \in Ids : /\ expense'[j] = IF j = i THEN row ELSE expense[j]
                         /\ j # i => split'[j] = split[j]
                         /\ split'[i] \in Splits /\ split'[i] # NoSplit
      BY <1>1, <1>2, <2>2, <3>2, <3>4
    <3>6. \A j \in Ids : RowKept(j)
      BY <1>2, <3>1, <3>3, <3>5 DEF RowKept
    <3> QED
      BY <1>2, <1>4, <2>2, <3>2, <3>3, <3>6, RowsKept
  <2> QED
    BY <1>7, <2>1, <2>2 DEF UpdateAggregate, Replaces
<1>8. CASE Delete(r)
  <2>1. CASE UNCHANGED <<expense, split, visible>>
    BY <2>1, <1>5
  <2>2. CASE /\ expense' = [expense EXCEPT ![i].state = "deleted"]
             /\ split' = [split EXCEPT ![i] = NoSplit]
             /\ visible' = [visible EXCEPT ![i] = {}]
    <3> DEFINE row == [expense[i] EXCEPT !.state = "deleted"]
    <3>1. row \in Expense /\ row.state # "stored" /\ expense' = [expense EXCEPT ![i] = row]
      BY <1>1, <1>2, <2>2 DEF Expense
    <3> HIDE DEF q, i, row
    <3>2. \A j \in Ids : /\ expense'[j] = IF j = i THEN row ELSE expense[j]
                         /\ split'[j] = IF j = i THEN NoSplit ELSE split[j]
                         /\ visible'[j] = IF j = i THEN {} ELSE visible[j]
      BY <1>2, <2>2, <3>1
    <3>3. \A j \in Ids : RowKept(j)
      BY <1>2, <1>3, <3>1, <3>2 DEF RowKept
    <3> QED
      BY <1>2, <1>4, <2>2, <3>1, <3>3, RowsKept
  <2> QED
    BY <1>8, <2>1, <2>2 DEF Delete
<1>9. CASE SetVisibility(r)
  <2>1. CASE UNCHANGED <<expense, visible>>
    BY <1>9, <2>1, <1>5 DEF SetVisibility
  <2>2. CASE /\ expense[i].state = "stored"
             /\ expense' = [expense EXCEPT ![i].private = q.private]
             /\ visible' = [visible EXCEPT ![i] = q.visible]
    <3> DEFINE row == [expense[i] EXCEPT !.private = q.private]
    <3>1. /\ row \in Expense /\ row.state = "stored" /\ row.payer \in Users /\ row.amount > 0
          /\ expense' = [expense EXCEPT ![i] = row]
      BY <1>1, <1>2, <2>2 DEF Expense, Request
    <3>2. q.visible \in SUBSET Users
      BY <1>1 DEF Request
    <3>3. UNCHANGED split
      BY <1>9 DEF SetVisibility
    <3>4. split[i] # NoSplit
      BY <1>1, <1>2, <2>2
    <3> HIDE DEF q, i, row
    <3>5. \A j \in Ids : /\ expense'[j] = IF j = i THEN row ELSE expense[j]
                         /\ visible'[j] = IF j = i THEN q.visible ELSE visible[j]
      BY <1>2, <2>2, <3>1
    <3>6. \A j \in Ids : RowKept(j)
      BY <1>2, <3>1, <3>2, <3>3, <3>4, <3>5 DEF RowKept
    <3> QED
      BY <1>2, <1>4, <2>2, <3>1, <3>3, <3>6, RowsKept
  <2> QED
    BY <1>9, <2>1, <2>2 DEF SetVisibility
<1> QED
  BY <1>6, <1>7, <1>8, <1>9
-----------------------------------------------------------------------------
THEOREM ExpensesInvariance == Spec => []IInv
<1>1. Init => IInv
  <2> SUFFICES ASSUME Init PROVE IInv
    OBVIOUS
  <2>1. IdleRequest \in Request /\ IdleRequest.op = "idle"
    BY IdleAdmissible DEF Admissible
  <2>2. NoSplit \in Splits
    BY DEF NoSplit, Splits, NoRow
  <2>3. [state |-> "absent", payer |-> NoUser, amount |-> 0, private |-> FALSE] \in Expense
    BY DEF Expense
  <2> QED
    BY <2>1, <2>2, <2>3, ExpensesAssumption
    DEF ExpensesAssumption, Init, IInv, TypeOK, Roles, InFlight, Checked, NoOrphans, Stored
<1>2. IInv /\ [Next]_vars => IInv'
  <2> SUFFICES ASSUME IInv, [Next]_vars PROVE IInv'
    OBVIOUS
  <2>1. CASE MembershipChanges
    <3>1. role' \in [Users -> Roles] /\ changes' \in 0..MaxChanges
      BY <2>1, ExpensesAssumption DEF ExpensesAssumption, MembershipChanges, IInv, TypeOK
    <3> QED
      BY <2>1, <3>1 DEF MembershipChanges, IInv, TypeOK, InFlight, NoOrphans, Stored
  <2>2. CASE UNCHANGED vars
    BY <2>2 DEF vars, IInv, TypeOK, InFlight, NoOrphans, Stored
  <2>3. ASSUME NEW r \in Requests,
               BeginCreate(r) \/ BeginUpdate(r) \/ BeginDelete(r) \/ BeginSetVisibility(r)
        PROVE  IInv'
    BY <2>3, CreateKeeps, UpdateKeeps, DeleteAndShareKeep
  <2>4. ASSUME NEW r \in Requests,
               CreateAggregate(r) \/ UpdateAggregate(r) \/ Delete(r) \/ SetVisibility(r)
        PROVE  IInv'
    BY <2>4, TransactionsKeep
  <2>5. ASSUME NEW r \in Requests, \/ GetExpensesForBalance(r) \/ GetSplits(r)
                                   \/ AnswerBalances(r) \/ BalancesRead(r)
        PROVE  IInv'
    BY <2>5, ReadKeeps, CountKeeps
  <2> QED
    BY <2>1, <2>2, <2>3, <2>4, <2>5 DEF Next
<1> QED
  BY <1>1, <1>2, PTL DEF Spec

\* The rows and the requests in flight keep their shape (expenses.go).
THEOREM ExpensesTypeCorrect == Spec => []TypeOK
BY ExpensesInvariance, PTL DEF IInv

\* Splits and readers come and go with their expense, whichever of an update, a
\* change of visibility and a deletion commits first.
THEOREM RowsFollowTheirExpense == Spec => []NoOrphans
BY ExpensesInvariance, PTL DEF IInv

-----------------------------------------------------------------------------
LEMMA BeginLeavesRows ==
  ASSUME NEW r \in Requests,
         \/ BeginCreate(r) \/ BeginUpdate(r) \/ BeginDelete(r) \/ BeginSetVisibility(r)
         \/ GetExpensesForBalance(r) \/ GetSplits(r) \/ AnswerBalances(r) \/ BalancesRead(r)
  PROVE  UNCHANGED <<expense, split>>
BY DEF BeginCreate, BeginUpdate, BeginDelete, BeginSetVisibility, GetExpensesForBalance,
       GetSplits, AnswerBalances, BalancesRead, Begin

\* Splits name active members at the moment they are stored, because
\* validateParticipants runs under the house lock.
THEOREM OnlyActiveMembersAreCharged == Spec => ChargedUsersAreActive
<1> DEFINE Charges == \A i \in Ids : split'[i] # split[i] => Charged(split'[i]) \subseteq Active
<1>1. IInv /\ [Next]_vars => [Charges]_vars
  <2> SUFFICES ASSUME IInv, Next PROVE Charges
    OBVIOUS
  <2> USE DEF IInv, TypeOK
  <2>1. CASE MembershipChanges
    BY <2>1 DEF MembershipChanges
  <2>2. ASSUME NEW r \in Requests, CreateAggregate(r) PROVE Charges
    BY <2>2 DEF CreateAggregate, ValidParticipants
  <2>3. ASSUME NEW r \in Requests, UpdateAggregate(r) PROVE Charges
    BY <2>3 DEF UpdateAggregate, Replaces, ValidParticipants
  <2>4. ASSUME NEW r \in Requests, Delete(r) PROVE Charges
    BY <2>4 DEF Delete, Charged, NoSplit
  <2>5. ASSUME NEW r \in Requests, SetVisibility(r) PROVE Charges
    BY <2>5 DEF SetVisibility
  <2> HIDE DEF Charges
  <2>6. ASSUME UNCHANGED <<expense, split>> PROVE Charges
    BY <2>6 DEF Charges
  <2> QED
    BY <2>1, <2>2, <2>3, <2>4, <2>5, <2>6, BeginLeavesRows DEF Next
<1> HIDE DEF Charges
<1>2. ChargedUsersAreActive <=> [][Charges]_vars
  BY PTL DEF ChargedUsersAreActive, Charges
<1> QED
  BY <1>1, <1>2, ExpensesInvariance, PTL DEF Spec

\* The one way to set a split at odds with its amount is an update that brings
\* none and writes back an amount that was replaced since it was read.
THEOREM OnlyStaleAmountsDisagree == Spec => OnlyStaleUpdatesDisagree
<1> DEFINE Stale == \A i \in Ids : Agrees(i) /\ Stored(i)' /\ ~Agrees(i)' =>
                      \E r \in Requests : /\ req[r].op = "update" /\ req[r].id = i
                                          /\ req[r].split = NoSplit
                                          /\ req[r].amount = req[r].read
                                          /\ req[r].read # expense[i].amount
<1>1. IInv /\ [Next]_vars => [Stale]_vars
  <2> SUFFICES ASSUME IInv, Next, NEW i \in Ids, Agrees(i), Stored(i)', ~Agrees(i)'
               PROVE  \E r \in Requests : /\ req[r].op = "update" /\ req[r].id = i
                                          /\ req[r].split = NoSplit
                                          /\ req[r].amount = req[r].read
                                          /\ req[r].read # expense[i].amount
    OBVIOUS
  <2>1. ~(expense'[i] = expense[i] /\ split'[i] = split[i])
    BY DEF Agrees
  <2>2. ~UNCHANGED <<expense, split>>
    BY <2>1
  <2>3. PICK r \in Requests : \/ CreateAggregate(r) \/ UpdateAggregate(r)
                             \/ Delete(r) \/ SetVisibility(r)
    BY <2>2, BeginLeavesRows DEF Next, MembershipChanges
  <2> USE DEF IInv, TypeOK
  <2>8. \A j \in Ids : expense[j] \in Expense
    OBVIOUS
  <2>4. CASE CreateAggregate(r)
    BY <2>1, <2>4 DEF CreateAggregate, ValidAmounts, Agrees
  <2>5. CASE UpdateAggregate(r)
    <3>1. CASE Replaces(req[r])
      <4>1. /\ req[r].id = i /\ split'[i] = req[r].split
            /\ expense'[i].amount = req[r].amount
        BY <2>1, <2>5, <2>8, <3>1 DEF UpdateAggregate, Replaces, Expense
      <4> QED
        BY <3>1, <4>1 DEF Replaces, ValidAmounts, Agrees
    <3>2. CASE ~Replaces(req[r])
      <4>1. /\ req[r].split = NoSplit /\ req[r].op = "update" /\ req[r].id = i
            /\ split'[i] = split[i] /\ expense'[i].amount = req[r].amount
        BY <2>1, <2>5, <2>8, <3>2 DEF UpdateAggregate, Expense
      <4>2. req[r].amount = req[r].read
        BY <4>1 DEF InFlight, Checked
      <4>3. req[r].amount # expense[i].amount
        BY <4>1 DEF Agrees
      <4> QED
        BY <4>1, <4>2, <4>3
    <3> QED
      BY <3>1, <3>2
  <2>6. CASE Delete(r)
    <3>1. req[r].id = i /\ expense'[i].state = "deleted"
      BY <2>1, <2>6, <2>8 DEF Delete, Expense
    <3> QED
      BY <3>1 DEF Stored
  <2>7. CASE SetVisibility(r)
    <3>1. split' = split /\ expense'[i].amount = expense[i].amount
      BY <2>7, <2>8 DEF SetVisibility, Expense
    <3> QED
      BY <3>1 DEF Agrees
  <2> QED
    BY <2>3, <2>4, <2>5, <2>6, <2>7
<1> HIDE DEF Stale
<1>2. OnlyStaleUpdatesDisagree <=> [][Stale]_vars
  BY PTL DEF OnlyStaleUpdatesDisagree, Stale
<1> QED
  BY <1>1, <1>2, ExpensesInvariance, PTL DEF Spec

\* Splits and readers follow their expense, in the shape of their tables.
THEOREM ExpensesSound == Spec => []ExpensesInv
BY ExpensesTypeCorrect, RowsFollowTheirExpense, PTL DEF ExpensesInv

-----------------------------------------------------------------------------
(* Sums over finite sets, in whatever order they are added up. *)

LEMMA Least ==
  ASSUME NEW T, T \subseteq Nat, T # {}
  PROVE  \E x \in T : \A y \in T : x <= y
<1> DEFINE R == {ss \in Nat \X Nat : ss[1] < ss[2]}
<1>1. IsWellFoundedOn(R, Nat)
  BY NatLessThanWellFounded DEF OpToRel
<1>2. \A x, y \in Nat : y < x => <<y, x>> \in R
  OBVIOUS
<1> HIDE DEF R
<1>3. \E x \in T : \A y \in T : ~ (<<y, x>> \in R)
  BY <1>1, WFMin
<1>4. PICK x \in T : \A y \in T : ~ (<<y, x>> \in R)
  BY <1>3
<1>5. \A y \in T : y \in Nat /\ x \in Nat /\ ~ (y < x)
  BY <1>2, <1>4
<1> QED
  BY <1>5

\* Induction up to N, over the set of numbers a fact holds of.
LEMMA Reaches ==
  ASSUME NEW N \in Nat, NEW P, 0 \in P, \A n \in 0..N : n \in P /\ n < N => n + 1 \in P
  PROVE  \A n \in 0..N : n \in P
<1> SUFFICES ASSUME ~ \A n \in 0..N : n \in P
             PROVE  FALSE
  OBVIOUS
<1> DEFINE T == (0..N) \ P
<1>1. T \subseteq Nat /\ T # {}
  OBVIOUS
<1>2. PICK x \in T : \A y \in T : x <= y
  BY <1>1, Least
<1>3. x # 0 /\ x - 1 \in 0..N /\ x - 1 < N /\ x = (x - 1) + 1
  OBVIOUS
<1>4. x - 1 \in P
  BY <1>2, <1>3
<1> QED
  BY <1>3, <1>4

\* Induction over the subsets of a finite set, over the set of those a fact holds of.
LEMMA Subsets ==
  ASSUME NEW U, IsFiniteSet(U), NEW P, {} \in P,
         \A T \in SUBSET U : T # {} /\ (\A x \in T : T \ {x} \in P) => T \in P
  PROVE  \A T \in SUBSET U : T \in P
<1> DEFINE N == Cardinality(U)
           Q == {n \in 0..N : \A T \in SUBSET U : Cardinality(T) = n => T \in P}
<1>0. N \in Nat
  BY FS_CardinalityType
<1>1. \A T \in SUBSET U : IsFiniteSet(T) /\ Cardinality(T) \in 0..N
  <2> SUFFICES ASSUME NEW T \in SUBSET U PROVE IsFiniteSet(T) /\ Cardinality(T) \in 0..N
    OBVIOUS
  <2>1. IsFiniteSet(T) /\ Cardinality(T) <= N
    BY FS_Subset
  <2>2. Cardinality(T) \in Nat
    BY <2>1, FS_CardinalityType
  <2> QED
    BY <1>0, <2>1, <2>2
<1>2. 0 \in Q
  BY <1>0, <1>1, FS_EmptySet
<1>3. ASSUME NEW n \in 0..N, n \in Q, n < N
      PROVE  n + 1 \in Q
  <2> SUFFICES ASSUME NEW T \in SUBSET U, Cardinality(T) = n + 1 PROVE T \in P
    BY <1>0, <1>3
  <2>1. T # {}
    BY <1>0, <1>1, FS_EmptySet
  <2>2. ASSUME NEW x \in T PROVE T \ {x} \in P
    <3>1. Cardinality(T \ {x}) = Cardinality(T) - 1
      BY <1>1, FS_RemoveElement
    <3> QED
      BY <1>0, <1>3, <3>1
  <2> QED
    BY <2>1, <2>2
<1> HIDE DEF Q, N
<1>4. \A n \in 0..N : n \in Q
  BY <1>0, <1>2, <1>3, Reaches
<1> QED
  BY <1>1, <1>4 DEF Q

First(s) == CHOOSE x \in s : TRUE

\* The function a sum is folded with.
Folds(f, U, g) ==
  g = [s \in SUBSET U |-> IF s = {} THEN 0 ELSE f[First(s)] + g[s \ {First(s)}]]

LEMMA SumIsFold ==
  ASSUME NEW f, NEW T
  PROVE  SumFunctionOnSet(f, T) = (CHOOSE g : Folds(f, T, g))[T]
BY DEF SumFunctionOnSet, FoldFunctionOnSet, MapThenFoldSet, Folds, First

Layer(U, n) == {s \in SUBSET U : Cardinality(s) <= n}

LEMMA FoldExists ==
  ASSUME NEW U, IsFiniteSet(U), NEW f, \A x \in U : f[x] \in Int
  PROVE  \E g \in [SUBSET U -> Int] : Folds(f, U, g)
<1> DEFINE N == Cardinality(U)
           Upto(n, g) == \A s \in Layer(U, n) :
                           g[s] = IF s = {} THEN 0 ELSE f[First(s)] + g[s \ {First(s)}]
           P == {n \in 0..N : \E g \in [Layer(U, n) -> Int] : Upto(n, g)}
<1>0. N \in Nat
  BY FS_CardinalityType
<1>1. \A T \in SUBSET U : IsFiniteSet(T) /\ Cardinality(T) \in Nat /\ Cardinality(T) <= N
  <2> SUFFICES ASSUME NEW T \in SUBSET U
               PROVE  IsFiniteSet(T) /\ Cardinality(T) \in Nat /\ Cardinality(T) <= N
    OBVIOUS
  <2>1. IsFiniteSet(T) /\ Cardinality(T) <= N
    BY FS_Subset
  <2> QED
    BY <2>1, FS_CardinalityType
<1>2. \A T \in SUBSET U : T # {} => First(T) \in T /\ First(T) \in U
  BY DEF First
<1>3. 0 \in P
  <2> DEFINE g == [s \in Layer(U, 0) |-> 0]
  <2>1. g \in [Layer(U, 0) -> Int]
    OBVIOUS
  <2>2. \A s \in Layer(U, 0) : s = {}
    BY <1>1, FS_EmptySet DEF Layer
  <2>3. Upto(0, g)
    BY <2>2
  <2> HIDE DEF g
  <2>4. 0 \in 0..N
    BY <1>0
  <2> QED
    BY <2>1, <2>3, <2>4
<1>4. ASSUME NEW n \in 0..N, n \in P, n < N
      PROVE  n + 1 \in P
  <2>1. PICK g \in [Layer(U, n) -> Int] : Upto(n, g)
    BY <1>4
  <2> DEFINE h == [s \in Layer(U, n + 1) |->
                     IF s = {} THEN 0 ELSE f[First(s)] + g[s \ {First(s)}]]
  <2>2. ASSUME NEW s \in Layer(U, n + 1), s # {}
        PROVE  s \ {First(s)} \in Layer(U, n) /\ f[First(s)] \in Int
    <3>1. s \in SUBSET U /\ IsFiniteSet(s) /\ Cardinality(s) \in Nat /\ Cardinality(s) <= n + 1
      BY <1>1 DEF Layer
    <3>2. First(s) \in s /\ First(s) \in U
      BY <1>2, <2>2, <3>1
    <3>3. Cardinality(s \ {First(s)}) = Cardinality(s) - 1
      BY <3>1, <3>2, FS_RemoveElement
    <3>4. Cardinality(s \ {First(s)}) <= n
      BY <1>0, <3>1, <3>3
    <3> QED
      BY <3>1, <3>2, <3>4 DEF Layer
  <2>3. h \in [Layer(U, n + 1) -> Int]
    <3>1. ASSUME NEW s \in Layer(U, n + 1) PROVE h[s] \in Int
      <4>1. CASE s = {}
        BY <4>1
      <4>2. CASE s # {}
        <5>1. g[s \ {First(s)}] \in Int /\ f[First(s)] \in Int
          BY <2>2, <4>2
        <5> QED
          BY <4>2, <5>1
      <4> QED
        BY <4>1, <4>2
    <3> QED
      BY <3>1
  <2>4. \A s \in Layer(U, n) : s \in Layer(U, n + 1) /\ h[s] = g[s]
    <3> SUFFICES ASSUME NEW s \in Layer(U, n) PROVE s \in Layer(U, n + 1) /\ h[s] = g[s]
      OBVIOUS
    <3>1. s \in Layer(U, n + 1)
      BY <1>0, <1>1 DEF Layer
    <3> QED
      BY <2>1, <3>1
  <2>5. ASSUME NEW s \in Layer(U, n + 1)
        PROVE  h[s] = IF s = {} THEN 0 ELSE f[First(s)] + h[s \ {First(s)}]
    <3>1. CASE s = {}
      BY <3>1
    <3>2. CASE s # {}
      <4>1. h[s \ {First(s)}] = g[s \ {First(s)}]
        BY <2>2, <2>4, <3>2
      <4> HIDE DEF h
      <4>2. h[s] = f[First(s)] + g[s \ {First(s)}]
        BY <3>2 DEF h
      <4> QED
        BY <3>2, <4>1, <4>2
    <3> QED
      BY <3>1, <3>2
  <2> HIDE DEF h
  <2>6. n + 1 \in 0..N
    BY <1>0, <1>4
  <2>7. Upto(n + 1, h)
    BY <2>5
  <2> QED
    BY <2>3, <2>6, <2>7
<1>5. N \in P
  <2> HIDE DEF P, N
  <2>1. \A n \in 0..N : n \in P
    BY <1>0, <1>3, <1>4, Reaches
  <2> QED
    BY <2>1, <1>0
<1>6. Layer(U, N) = SUBSET U
  BY <1>1 DEF Layer
<1>7. PICK g \in [SUBSET U -> Int] : Upto(N, g)
  BY <1>5, <1>6
<1>8. Folds(f, U, g)
  <2>1. \A s \in SUBSET U : g[s] = IF s = {} THEN 0 ELSE f[First(s)] + g[s \ {First(s)}]
    BY <1>6, <1>7
  <2> QED
    BY <2>1 DEF Folds
<1> QED
  BY <1>8

LEMMA FoldsAgree ==
  ASSUME NEW U, IsFiniteSet(U), NEW V \in SUBSET U, NEW f, NEW g, Folds(f, U, g),
         NEW h, Folds(f, V, h)
  PROVE  \A s \in SUBSET V : g[s] = h[s]
<1> DEFINE P == {s \in SUBSET V : g[s] = h[s]}
<1>1. IsFiniteSet(V)
  BY FS_Subset
<1>2. \A s \in SUBSET U : g[s] = IF s = {} THEN 0 ELSE f[First(s)] + g[s \ {First(s)}]
  BY DEF Folds
<1>3. \A s \in SUBSET V : h[s] = IF s = {} THEN 0 ELSE f[First(s)] + h[s \ {First(s)}]
  BY DEF Folds
<1>4. {} \in P
  BY <1>2, <1>3
<1>5. ASSUME NEW T \in SUBSET V, T # {}, \A x \in T : T \ {x} \in P
      PROVE  T \in P
  <2>1. First(T) \in T
    BY <1>5 DEF First
  <2>2. g[T \ {First(T)}] = h[T \ {First(T)}]
    BY <1>5, <2>1
  <2> QED
    BY <1>2, <1>3, <1>5, <2>2
<1> HIDE DEF P
<1>6. \A T \in SUBSET V : T \in P
  BY <1>1, <1>4, <1>5, Subsets
<1> QED
  BY <1>6 DEF P

\* One function folds the sums over all subsets.
FoldsSums(f, U, g) ==
  g \in [SUBSET U -> Int] /\ Folds(f, U, g) /\ \A T \in SUBSET U : SumFunctionOnSet(f, T) = g[T]

LEMMA SumFolds ==
  ASSUME NEW U, IsFiniteSet(U), NEW f, \A x \in U : f[x] \in Int
  PROVE  \E g : FoldsSums(f, U, g)
<1>1. PICK g \in [SUBSET U -> Int] : Folds(f, U, g)
  BY FoldExists
<1>2. ASSUME NEW T \in SUBSET U PROVE SumFunctionOnSet(f, T) = g[T]
  <2> DEFINE h == CHOOSE k : Folds(f, T, k)
  <2>1. IsFiniteSet(T) /\ \A x \in T : f[x] \in Int
    BY FS_Subset
  <2>2. \E k : Folds(f, T, k)
    BY <2>1, FoldExists
  <2>3. Folds(f, T, h)
    BY <2>2
  <2>4. SumFunctionOnSet(f, T) = h[T]
    BY SumIsFold
  <2> HIDE DEF h
  <2>5. g[T] = h[T]
    BY <1>1, <2>3, FoldsAgree
  <2> QED
    BY <2>4, <2>5
<1>3. FoldsSums(f, U, g)
  BY <1>1, <1>2 DEF FoldsSums
<1> QED
  BY <1>3

LEMMA SumEmpty == \A f : SumFunctionOnSet(f, {}) = 0
<1> SUFFICES ASSUME NEW f PROVE SumFunctionOnSet(f, {}) = 0
  OBVIOUS
<1>0. IsFiniteSet({}) /\ \A x \in {} : f[x] \in Int
  BY FS_EmptySet
<1>1. PICK g : FoldsSums(f, {}, g)
  BY <1>0, SumFolds
<1>2. g[{}] = 0
  BY <1>1 DEF FoldsSums, Folds
<1> QED
  BY <1>1, <1>2 DEF FoldsSums

\* Any element can be added first.
LEMMA SumStep ==
  ASSUME NEW U, IsFiniteSet(U), NEW f, \A x \in U : f[x] \in Int
  PROVE  /\ SumFunctionOnSet(f, U) \in Int
         /\ \A x \in U : /\ SumFunctionOnSet(f, U \ {x}) \in Int
                         /\ SumFunctionOnSet(f, U) = f[x] + SumFunctionOnSet(f, U \ {x})
<1>0. PICK g : FoldsSums(f, U, g)
  BY SumFolds
<1>1. /\ g \in [SUBSET U -> Int] /\ Folds(f, U, g)
      /\ \A T \in SUBSET U : SumFunctionOnSet(f, T) = g[T]
  BY <1>0 DEF FoldsSums
<1>2. \A s \in SUBSET U : g[s] = IF s = {} THEN 0 ELSE f[First(s)] + g[s \ {First(s)}]
  BY <1>1 DEF Folds
<1> DEFINE P == {T \in SUBSET U : \A x \in T : g[T] = f[x] + g[T \ {x}]}
<1>3. {} \in P
  OBVIOUS
<1>4. ASSUME NEW T \in SUBSET U, T # {}, \A x \in T : T \ {x} \in P
      PROVE  T \in P
  <2> DEFINE c == First(T)
  <2>1. c \in T /\ g[T] = f[c] + g[T \ {c}]
    BY <1>2, <1>4 DEF First
  <2> HIDE DEF c
  <2>2. ASSUME NEW x \in T, x # c PROVE g[T] = f[x] + g[T \ {x}]
    <3>1. g[T \ {c}] = f[x] + g[(T \ {c}) \ {x}]
      BY <1>4, <2>1, <2>2
    <3>2. g[T \ {x}] = f[c] + g[(T \ {x}) \ {c}]
      BY <1>4, <2>1, <2>2
    <3>3. (T \ {c}) \ {x} = (T \ {x}) \ {c}
      OBVIOUS
    <3>4. f[c] \in Int /\ f[x] \in Int /\ g[(T \ {x}) \ {c}] \in Int
      BY <1>1, <2>1
    <3>5. g[T] = f[c] + (f[x] + g[(T \ {x}) \ {c}])
      BY <2>1, <3>1, <3>3
    <3> HIDE DEF P
    <3> QED
      BY <3>2, <3>4, <3>5
  <2> QED
    BY <2>1, <2>2
<1> HIDE DEF P
<1>5. \A T \in SUBSET U : T \in P
  BY <1>3, <1>4, Subsets
<1>6. \A x \in U : g[U] = f[x] + g[U \ {x}]
  BY <1>5 DEF P
<1>7. U \in SUBSET U /\ \A x \in U : U \ {x} \in SUBSET U
  OBVIOUS
<1> QED
  BY <1>1, <1>6, <1>7

LEMMA SumSame ==
  ASSUME NEW U, IsFiniteSet(U), NEW f, NEW h, \A x \in U : f[x] \in Int /\ h[x] = f[x]
  PROVE  SumFunctionOnSet(h, U) = SumFunctionOnSet(f, U)
<1> DEFINE P == {T \in SUBSET U : SumFunctionOnSet(h, T) = SumFunctionOnSet(f, T)}
<1>1. {} \in P
  BY SumEmpty
<1>2. ASSUME NEW T \in SUBSET U, T # {}, \A x \in T : T \ {x} \in P
      PROVE  T \in P
  <2>1. PICK x \in T : TRUE
    BY <1>2
  <2>2. IsFiniteSet(T) /\ \A y \in T : f[y] \in Int /\ h[y] \in Int
    BY FS_Subset
  <2>3. /\ SumFunctionOnSet(f, T) = f[x] + SumFunctionOnSet(f, T \ {x})
        /\ SumFunctionOnSet(h, T) = h[x] + SumFunctionOnSet(h, T \ {x})
    BY <2>1, <2>2, SumStep
  <2> QED
    BY <1>2, <2>1, <2>3
<1> HIDE DEF P
<1>3. \A T \in SUBSET U : T \in P
  BY <1>1, <1>2, Subsets
<1> QED
  BY <1>3 DEF P

LEMMA SumPlus ==
  ASSUME NEW U, IsFiniteSet(U), NEW f, NEW h, NEW k,
         \A x \in U : f[x] \in Int /\ h[x] \in Int /\ k[x] = f[x] + h[x]
  PROVE  SumFunctionOnSet(k, U) = SumFunctionOnSet(f, U) + SumFunctionOnSet(h, U)
<1> DEFINE P == {T \in SUBSET U : SumFunctionOnSet(k, T) =
                                    SumFunctionOnSet(f, T) + SumFunctionOnSet(h, T)}
<1>1. {} \in P
  BY SumEmpty
<1>2. ASSUME NEW T \in SUBSET U, T # {}, \A x \in T : T \ {x} \in P
      PROVE  T \in P
  <2>1. PICK x \in T : TRUE
    BY <1>2
  <2>2. /\ IsFiniteSet(T)
        /\ \A y \in T : f[y] \in Int
        /\ \A y \in T : h[y] \in Int
        /\ \A y \in T : k[y] \in Int
    BY FS_Subset
  <2>3. /\ SumFunctionOnSet(f, T \ {x}) \in Int
        /\ SumFunctionOnSet(f, T) = f[x] + SumFunctionOnSet(f, T \ {x})
    BY <2>1, <2>2, SumStep
  <2>4. /\ SumFunctionOnSet(h, T \ {x}) \in Int
        /\ SumFunctionOnSet(h, T) = h[x] + SumFunctionOnSet(h, T \ {x})
    BY <2>1, <2>2, SumStep
  <2>5. SumFunctionOnSet(k, T) = k[x] + SumFunctionOnSet(k, T \ {x})
    BY <2>1, <2>2, SumStep
  <2>6. SumFunctionOnSet(k, T \ {x}) =
          SumFunctionOnSet(f, T \ {x}) + SumFunctionOnSet(h, T \ {x})
    BY <1>2, <2>1
  <2>7. f[x] \in Int /\ h[x] \in Int /\ k[x] = f[x] + h[x]
    BY <2>1
  <2>8. SumFunctionOnSet(k, T) = SumFunctionOnSet(f, T) + SumFunctionOnSet(h, T)
    BY <2>3, <2>4, <2>5, <2>6, <2>7
  <2> QED
    BY <2>8
<1> HIDE DEF P
<1>3. \A T \in SUBSET U : T \in P
  BY <1>1, <1>2, Subsets
<1> QED
  BY <1>3 DEF P

\* What is nought counts nothing.
LEMMA SumOn ==
  ASSUME NEW U, IsFiniteSet(U), NEW f, NEW V \in SUBSET U,
         \A x \in U : f[x] \in Int, \A x \in U \ V : f[x] = 0
  PROVE  SumFunctionOnSet(f, U) = SumFunctionOnSet(f, V)
<1> DEFINE P == {T \in SUBSET U : SumFunctionOnSet(f, T) = SumFunctionOnSet(f, T \cap V)}
<1>1. {} \in P
  BY SumEmpty
<1>2. ASSUME NEW T \in SUBSET U, T # {}, \A x \in T : T \ {x} \in P
      PROVE  T \in P
  <2>1. PICK x \in T : TRUE
    BY <1>2
  <2>2. /\ IsFiniteSet(T) /\ \A y \in T : f[y] \in Int
        /\ IsFiniteSet(T \cap V) /\ \A y \in T \cap V : f[y] \in Int
    BY FS_Subset
  <2>3. SumFunctionOnSet(f, T) = f[x] + SumFunctionOnSet(f, T \ {x})
    BY <2>1, <2>2, SumStep
  <2>4. SumFunctionOnSet(f, T \ {x}) = SumFunctionOnSet(f, (T \ {x}) \cap V)
    BY <1>2, <2>1
  <2>5. SumFunctionOnSet(f, T \cap V) \in Int
    BY <2>2, SumStep
  <2>6. CASE x \in V
    <3>1. (T \ {x}) \cap V = (T \cap V) \ {x} /\ x \in T \cap V
      BY <2>1, <2>6
    <3>2. SumFunctionOnSet(f, T \cap V) = f[x] + SumFunctionOnSet(f, (T \cap V) \ {x})
      BY <2>2, <3>1, SumStep
    <3> QED
      BY <2>3, <2>4, <3>1, <3>2
  <2>7. CASE x \notin V
    <3>1. (T \ {x}) \cap V = T \cap V /\ f[x] = 0
      BY <2>1, <2>7
    <3>2. SumFunctionOnSet(f, T) = 0 + SumFunctionOnSet(f, T \cap V)
      BY <2>3, <2>4, <3>1
    <3>3. SumFunctionOnSet(f, T) = SumFunctionOnSet(f, T \cap V)
      BY <2>5, <3>2
    <3> QED
      BY <3>3
  <2> QED
    BY <2>6, <2>7
<1> HIDE DEF P
<1>3. \A T \in SUBSET U : T \in P
  BY <1>1, <1>2, Subsets
<1>4. U \cap V = V
  OBVIOUS
<1> QED
  BY <1>3, <1>4 DEF P

LEMMA SumChange ==
  ASSUME NEW U, IsFiniteSet(U), NEW f, NEW h, NEW x \in U,
         \A y \in U : f[y] \in Int /\ h[y] \in Int /\ (y # x => h[y] = f[y])
  PROVE  SumFunctionOnSet(h, U) = SumFunctionOnSet(f, U) + h[x] - f[x]
<1>1. \A y \in U : f[y] \in Int
  OBVIOUS
<1>2. \A y \in U : h[y] \in Int
  OBVIOUS
<1>3. /\ SumFunctionOnSet(f, U \ {x}) \in Int
      /\ SumFunctionOnSet(f, U) = f[x] + SumFunctionOnSet(f, U \ {x})
  BY <1>1, SumStep
<1>4. SumFunctionOnSet(h, U) = h[x] + SumFunctionOnSet(h, U \ {x})
  BY <1>2, SumStep
<1>5. SumFunctionOnSet(h, U \ {x}) = SumFunctionOnSet(f, U \ {x})
  <2>1. IsFiniteSet(U \ {x}) /\ \A y \in U \ {x} : f[y] \in Int /\ h[y] = f[y]
    BY FS_RemoveElement
  <2> QED
    BY <2>1, SumSame
<1> QED
  BY <1>3, <1>4, <1>5

\* Where nothing is negative, only noughts add up to nought; the same the other way round.
LEMMA SumOfNaturals ==
  ASSUME NEW U, IsFiniteSet(U), NEW f, \A x \in U : f[x] \in Nat
  PROVE  /\ SumFunctionOnSet(f, U) \in Nat
         /\ SumFunctionOnSet(f, U) = 0 => \A x \in U : f[x] = 0
<1> DEFINE P == {T \in SUBSET U : /\ SumFunctionOnSet(f, T) \in Nat
                                  /\ SumFunctionOnSet(f, T) = 0 => \A x \in T : f[x] = 0}
<1>1. {} \in P
  BY SumEmpty
<1>2. ASSUME NEW T \in SUBSET U, T # {}, \A x \in T : T \ {x} \in P
      PROVE  T \in P
  <2>1. PICK x \in T : TRUE
    BY <1>2
  <2>2. IsFiniteSet(T) /\ \A y \in T : f[y] \in Int
    BY FS_Subset
  <2>3. SumFunctionOnSet(f, T) = f[x] + SumFunctionOnSet(f, T \ {x})
    BY <2>1, <2>2, SumStep
  <2>4. /\ SumFunctionOnSet(f, T \ {x}) \in Nat
        /\ SumFunctionOnSet(f, T \ {x}) = 0 => \A y \in T \ {x} : f[y] = 0
    BY <1>2, <2>1
  <2>5. f[x] \in Nat
    BY <2>1
  <2>6. SumFunctionOnSet(f, T) \in Nat
    BY <2>3, <2>4, <2>5
  <2>7. SumFunctionOnSet(f, T) = 0 => f[x] = 0 /\ \A y \in T \ {x} : f[y] = 0
    BY <2>3, <2>4, <2>5
  <2> QED
    BY <2>6, <2>7
<1> HIDE DEF P
<1>3. \A T \in SUBSET U : T \in P
  BY <1>1, <1>2, Subsets
<1> QED
  BY <1>3 DEF P

LEMMA NothingAddsUp ==
  ASSUME NEW U, IsFiniteSet(U), NEW f, \A x \in U : f[x] = 0
  PROVE  SumFunctionOnSet(f, U) = 0
<1>1. SumFunctionOnSet(f, U) = SumFunctionOnSet(f, {})
  <2>1. /\ \A x \in U : f[x] \in Int
        /\ \A x \in U \ {} : f[x] = 0
        /\ {} \in SUBSET U
    OBVIOUS
  <2> QED
    BY <2>1, SumOn
<1> QED
  BY <1>1, SumEmpty

LEMMA SumOfDebts ==
  ASSUME NEW U, IsFiniteSet(U), NEW f, \A x \in U : f[x] \in Int /\ f[x] <= 0,
         SumFunctionOnSet(f, U) = 0
  PROVE  \A x \in U : f[x] = 0
<1> DEFINE h == [x \in U |-> -f[x]]
           z == [x \in U |-> 0]
<1>1. \A x \in U : h[x] \in Nat
  OBVIOUS
<1>2. \A x \in U : z[x] = f[x] + h[x] /\ z[x] \in Nat /\ z[x] = 0
  OBVIOUS
<1> HIDE DEF h, z
<1>3. SumFunctionOnSet(z, U) = 0
  BY <1>2, NothingAddsUp
<1>4. SumFunctionOnSet(z, U) = SumFunctionOnSet(f, U) + SumFunctionOnSet(h, U)
  <2>1. \A x \in U : f[x] \in Int /\ h[x] \in Int /\ z[x] = f[x] + h[x]
    BY <1>1, <1>2
  <2> QED
    BY <2>1, SumPlus
<1>5. /\ SumFunctionOnSet(h, U) \in Nat
      /\ SumFunctionOnSet(h, U) = 0 => \A x \in U : h[x] = 0
  BY <1>1, SumOfNaturals
<1>6. \A x \in U : h[x] = 0
  BY <1>3, <1>4, <1>5
<1> QED
  BY <1>2, <1>6

-----------------------------------------------------------------------------
(* Settlements *)

Payment(U) == [from : U, to : U, amount : Int]
Loop(U) == [left : [U -> Int], i : Nat \ {0}, j : Nat \ {0}, payments : Seq(Payment(U))]

LEMMA PaidNothing == \A p : Paid(<<>>, p) = 0
<1> SUFFICES ASSUME NEW p PROVE Paid(<<>>, p) = 0
  OBVIOUS
<1>1. DOMAIN [i \in DOMAIN <<>> |-> Gain(<<>>[i], p)] = {}
  OBVIOUS
<1> QED
  BY <1>1, SumEmpty DEF Paid, SumFunction

LEMMA GainTyped ==
  ASSUME NEW U, NEW payment \in Payment(U), NEW p
  PROVE  Gain(payment, p) \in Int
BY DEF Gain, Payment

\* Payments made one more.
LEMMA PaidMore ==
  ASSUME NEW U, NEW payments \in Seq(Payment(U)), NEW payment \in Payment(U), NEW p
  PROVE  /\ Paid(payments, p) \in Int
         /\ Paid(Append(payments, payment), p) = Paid(payments, p) + Gain(payment, p)
<1> DEFINE n == Len(payments)
           more == Append(payments, payment)
           f == [i \in DOMAIN payments |-> Gain(payments[i], p)]
           h == [i \in DOMAIN more |-> Gain(more[i], p)]
<1>1. n \in Nat /\ DOMAIN payments = 1..n /\ DOMAIN more = 1..n + 1
  OBVIOUS
<1>2. \A i \in 1..n : payments[i] \in Payment(U) /\ more[i] = payments[i]
  OBVIOUS
<1>3. more[n + 1] = payment
  OBVIOUS
<1>4. DOMAIN f = 1..n /\ DOMAIN h = 1..n + 1
  BY <1>1
<1>5. \A i \in 1..n : f[i] \in Int /\ h[i] = f[i]
  BY <1>1, <1>2, GainTyped
<1>6. n + 1 \in 1..n + 1 /\ h[n + 1] = Gain(payment, p) /\ h[n + 1] \in Int
  BY <1>1, <1>3, GainTyped
<1>7. Paid(payments, p) = SumFunctionOnSet(f, 1..n) /\ Paid(more, p) = SumFunctionOnSet(h, 1..n + 1)
  BY <1>1 DEF Paid, SumFunction
<1> HIDE DEF n, more, f, h
<1>8. IsFiniteSet(1..n) /\ IsFiniteSet(1..n + 1)
  BY <1>1, FS_Interval
<1>9. \A i \in 1..n + 1 : i \in 1..n \/ i = n + 1
  BY <1>1
<1>10. \A i \in 1..n + 1 : h[i] \in Int
  BY <1>5, <1>6, <1>9
<1>11. (1..n + 1) \ {n + 1} = 1..n
  BY <1>1
<1>12. SumFunctionOnSet(h, 1..n + 1) = h[n + 1] + SumFunctionOnSet(h, 1..n)
  <2>1. \A i \in 1..n + 1 :
          SumFunctionOnSet(h, 1..n + 1) = h[i] + SumFunctionOnSet(h, (1..n + 1) \ {i})
    BY <1>8, <1>10, SumStep
  <2> QED
    BY <2>1, <1>6, <1>11
<1>13. SumFunctionOnSet(h, 1..n) = SumFunctionOnSet(f, 1..n)
  BY <1>5, <1>8, SumSame
<1>14. SumFunctionOnSet(f, 1..n) \in Int
  BY <1>5, <1>8, SumStep
<1>15. Paid(more, p) = Paid(payments, p) + Gain(payment, p)
  BY <1>6, <1>7, <1>12, <1>13, <1>14
<1> QED
  BY <1>7, <1>14, <1>15 DEF more

Uneven(net) == {p \in DOMAIN net : net[p] # 0}

\* The loop has reached its places, owes nothing to those before them, and everything
\* it has not paid yet to and from those still to come.
LoopSound(net, creditors, debtors, t) ==
  /\ t \in Loop(DOMAIN net)
  /\ SumFunctionOnSet(t.left, DOMAIN net) = 0
  /\ \A k \in DOMAIN creditors :
       IF k < t.i THEN t.left[creditors[k]] = 0 ELSE t.left[creditors[k]] > 0
  /\ \A k \in DOMAIN debtors :
       IF k < t.j THEN t.left[debtors[k]] = 0 ELSE t.left[debtors[k]] < 0
  /\ \A p \in DOMAIN net : net[p] = 0 => t.left[p] = 0
  /\ \A k \in 1..Len(t.payments) : /\ t.payments[k].amount > 0
                                   /\ net[t.payments[k].from] < 0
                                   /\ net[t.payments[k].to] > 0
  /\ \A p \in DOMAIN net : Paid(t.payments, p) + t.left[p] = net[p]
  /\ Len(t.payments) + Cardinality(Uneven(t.left)) <= Cardinality(Uneven(net))
  /\ t.payments # <<>> /\ Uneven(t.left) = {} =>
       Len(t.payments) < Cardinality(Uneven(net))

\* Balances that add up, and the two lists made of them.
Sides(net, creditors, debtors) ==
  /\ IsFiniteSet(DOMAIN net) /\ net \in [DOMAIN net -> Int]
  /\ SumFunctionOnSet(net, DOMAIN net) = 0
  /\ creditors \in Sorted(Creditors(net), net)
  /\ debtors \in Sorted(Debtors(net), net)

LEMMA Lists ==
  ASSUME NEW net, NEW creditors, NEW debtors, Sides(net, creditors, debtors)
  PROVE  /\ \A k \in DOMAIN creditors : creditors[k] \in DOMAIN net /\ net[creditors[k]] > 0
         /\ \A k \in DOMAIN debtors : debtors[k] \in DOMAIN net /\ net[debtors[k]] < 0
         /\ \A k, l \in DOMAIN creditors : creditors[k] = creditors[l] => k = l
         /\ \A k, l \in DOMAIN debtors : debtors[k] = debtors[l] => k = l
         /\ \A p \in DOMAIN net : net[p] > 0 => \E k \in DOMAIN creditors : creditors[k] = p
         /\ \A p \in DOMAIN net : net[p] < 0 => \E k \in DOMAIN debtors : debtors[k] = p
         /\ \E a \in Nat : DOMAIN creditors = 1..a
         /\ \E b \in Nat : DOMAIN debtors = 1..b
<1>1. IsFiniteSet(Creditors(net)) /\ IsFiniteSet(Debtors(net))
  <2>1. Creditors(net) \subseteq DOMAIN net /\ Debtors(net) \subseteq DOMAIN net
    BY DEF Creditors, Debtors
  <2> QED
    BY <2>1, FS_Subset DEF Sides
<1> DEFINE a == Cardinality(Creditors(net))
           b == Cardinality(Debtors(net))
<1>2. a \in Nat /\ b \in Nat
  BY <1>1, FS_CardinalityType
<1>3. creditors \in Bijection(1..a, Creditors(net))
  BY DEF Sides, Sorted
<1>4. debtors \in Bijection(1..b, Debtors(net))
  BY DEF Sides, Sorted
<1> HIDE DEF a, b
<1>5. /\ creditors \in [1..a -> Creditors(net)]
      /\ \A k, l \in 1..a : creditors[k] = creditors[l] => k = l
      /\ \A p \in Creditors(net) : \E k \in 1..a : creditors[k] = p
  BY <1>3 DEF Bijection, Injection, Surjection, IsInjective
<1>6. /\ debtors \in [1..b -> Debtors(net)]
      /\ \A k, l \in 1..b : debtors[k] = debtors[l] => k = l
      /\ \A p \in Debtors(net) : \E k \in 1..b : debtors[k] = p
  BY <1>4 DEF Bijection, Injection, Surjection, IsInjective
<1> QED
  BY <1>2, <1>5, <1>6 DEF Creditors, Debtors

\* What one turn does that is not the last: it pays what one of the two has left.
LEMMA TurnPays ==
  ASSUME NEW net, NEW creditors, NEW debtors, Sides(net, creditors, debtors),
         NEW t, LoopSound(net, creditors, debtors, t),
         t.i \in DOMAIN creditors, t.j \in DOMAIN debtors
  PROVE  LET c == creditors[t.i]
             d == debtors[t.j]
             amount == Amount(t.left, c, d)
             after == Turn(t, creditors, debtors)
         IN /\ c \in DOMAIN net /\ d \in DOMAIN net /\ c # d
            /\ net[c] > 0 /\ net[d] < 0 /\ t.left[c] > 0 /\ t.left[d] < 0
            /\ amount \in Int /\ amount > 0
            /\ t.left[c] - amount >= 0 /\ t.left[d] + amount <= 0
            /\ t.left[c] - amount = 0 \/ t.left[d] + amount = 0
            /\ after.left = [t.left EXCEPT ![c] = @ - amount, ![d] = @ + amount]
            /\ after.i = IF after.left[c] = 0 THEN t.i + 1 ELSE t.i
            /\ after.j = IF after.left[d] = 0 THEN t.j + 1 ELSE t.j
            /\ after.payments = Append(t.payments, [from |-> d, to |-> c, amount |-> amount])
            /\ after \in Loop(DOMAIN net)
            /\ after.left[c] = t.left[c] - amount /\ after.left[d] = t.left[d] + amount
            /\ \A p \in DOMAIN net : p # c /\ p # d => after.left[p] = t.left[p]
<1> DEFINE c == creditors[t.i]
           d == debtors[t.j]
           amount == Amount(t.left, c, d)
           after == Turn(t, creditors, debtors)
           U == DOMAIN net
<1>1. c \in U /\ d \in U /\ net[c] > 0 /\ net[d] < 0
  BY Lists
<1>2. t \in Loop(U) /\ t.left \in [U -> Int] /\ t.i \in Nat /\ t.j \in Nat
  BY DEF LoopSound, Loop
<1>3. t.left[c] > 0 /\ t.left[d] < 0
  BY <1>2 DEF LoopSound
<1>4. t.left[c] \in Int /\ t.left[d] \in Int /\ c # d
  BY <1>1, <1>2, <1>3
<1>5. after = [left |-> [t.left EXCEPT ![c] = @ - amount, ![d] = @ + amount],
               i |-> IF [t.left EXCEPT ![c] = @ - amount, ![d] = @ + amount][c] = 0
                     THEN t.i + 1 ELSE t.i,
               j |-> IF [t.left EXCEPT ![c] = @ - amount, ![d] = @ + amount][d] = 0
                     THEN t.j + 1 ELSE t.j,
               payments |-> Append(t.payments, [from |-> d, to |-> c, amount |-> amount])]
  BY DEF Turn
<1>6. /\ amount \in Int /\ amount > 0
      /\ t.left[c] - amount >= 0 /\ t.left[d] + amount <= 0
      /\ t.left[c] - amount = 0 \/ t.left[d] + amount = 0
  <2> HIDE DEF c, d
  <2> QED
    BY <1>3, <1>4 DEF Amount
<1> HIDE DEF c, d, amount, after, U
<1>7. /\ after.left = [t.left EXCEPT ![c] = @ - amount, ![d] = @ + amount]
      /\ after.i = IF after.left[c] = 0 THEN t.i + 1 ELSE t.i
      /\ after.j = IF after.left[d] = 0 THEN t.j + 1 ELSE t.j
      /\ after.payments = Append(t.payments, [from |-> d, to |-> c, amount |-> amount])
  BY <1>5
<1>8. /\ after.left[c] = t.left[c] - amount /\ after.left[d] = t.left[d] + amount
      /\ \A p \in U : p # c /\ p # d => after.left[p] = t.left[p]
      /\ after.left \in [U -> Int]
  BY <1>1, <1>2, <1>4, <1>6, <1>7
<1>9. after \in Loop(U)
  <2>1. t.i \in Nat \ {0} /\ t.j \in Nat \ {0} /\ t.payments \in Seq(Payment(U))
    BY <1>2 DEF Loop
  <2>2. after.i \in Nat \ {0} /\ after.j \in Nat \ {0}
    BY <1>7, <2>1
  <2>3. [from |-> d, to |-> c, amount |-> amount] \in Payment(U)
    BY <1>1, <1>6 DEF Payment
  <2>4. after.payments \in Seq(Payment(U))
    BY <1>7, <2>1, <2>3
  <2>5. after = [left |-> after.left, i |-> after.i, j |-> after.j, payments |-> after.payments]
    BY <1>5
  <2> HIDE DEF U
  <2> QED
    BY <1>8, <2>2, <2>4, <2>5 DEF Loop
<1>10. /\ c \in U /\ d \in U /\ c # d
       /\ net[c] > 0 /\ net[d] < 0 /\ t.left[c] > 0 /\ t.left[d] < 0
       /\ amount \in Int /\ amount > 0
       /\ t.left[c] - amount >= 0 /\ t.left[d] + amount <= 0
       /\ t.left[c] - amount = 0 \/ t.left[d] + amount = 0
       /\ after.left = [t.left EXCEPT ![c] = @ - amount, ![d] = @ + amount]
       /\ after.i = IF after.left[c] = 0 THEN t.i + 1 ELSE t.i
       /\ after.j = IF after.left[d] = 0 THEN t.j + 1 ELSE t.j
       /\ after.payments = Append(t.payments, [from |-> d, to |-> c, amount |-> amount])
       /\ after \in Loop(U)
       /\ after.left[c] = t.left[c] - amount /\ after.left[d] = t.left[d] + amount
       /\ \A p \in U : p # c /\ p # d => after.left[p] = t.left[p]
  BY <1>1, <1>3, <1>4, <1>6, <1>7, <1>8, <1>9
<1> QED
  BY <1>10 DEF c, d, amount, after, U

\* A turn that pays makes somebody even, and both at once if it is the last.
LEMMA FewerUneven ==
  ASSUME NEW U, IsFiniteSet(U), NEW f \in [U -> Int], NEW h \in [U -> Int],
         NEW c \in U, NEW d \in U, c # d, f[c] # 0, f[d] # 0,
         h[c] = 0 \/ h[d] = 0, \A p \in U : p # c /\ p # d => h[p] = f[p]
  PROVE  /\ Cardinality(Uneven(f)) \in Nat /\ Cardinality(Uneven(h)) \in Nat
         /\ Cardinality(Uneven(h)) + 1 <= Cardinality(Uneven(f))
         /\ Uneven(h) = {} => Cardinality(Uneven(f)) >= 2
<1>1. Uneven(f) \subseteq U /\ Uneven(h) \subseteq U
  BY DEF Uneven
<1>2. IsFiniteSet(Uneven(f)) /\ IsFiniteSet(Uneven(h))
  BY <1>1, FS_Subset
<1>3. Cardinality(Uneven(f)) \in Nat /\ Cardinality(Uneven(h)) \in Nat
  BY <1>2, FS_CardinalityType
<1>4. c \in Uneven(f) /\ d \in Uneven(f)
  BY DEF Uneven
<1>5. PICK x \in {c, d} : h[x] = 0
  OBVIOUS
<1>6. Uneven(h) \subseteq Uneven(f) \ {x}
  BY <1>5 DEF Uneven
<1>7. IsFiniteSet(Uneven(f) \ {x}) /\ Cardinality(Uneven(f) \ {x}) = Cardinality(Uneven(f)) - 1
  BY <1>2, <1>4, <1>5, FS_RemoveElement
<1>8. Cardinality(Uneven(h)) <= Cardinality(Uneven(f)) - 1
  BY <1>6, <1>7, FS_Subset
<1>9. Cardinality((Uneven(f) \ {c}) \ {d}) = Cardinality(Uneven(f)) - 2
  <2>1. IsFiniteSet(Uneven(f) \ {c}) /\ Cardinality(Uneven(f) \ {c}) = Cardinality(Uneven(f)) - 1
    BY <1>2, <1>4, FS_RemoveElement
  <2>2. d \in Uneven(f) \ {c}
    BY <1>4
  <2>3. Cardinality((Uneven(f) \ {c}) \ {d}) = Cardinality(Uneven(f) \ {c}) - 1
    BY <2>1, <2>2, FS_RemoveElement
  <2> QED
    BY <1>3, <2>1, <2>3
<1>10. Cardinality((Uneven(f) \ {c}) \ {d}) \in Nat
  <2>1. (Uneven(f) \ {c}) \ {d} \subseteq Uneven(f)
    OBVIOUS
  <2>2. IsFiniteSet((Uneven(f) \ {c}) \ {d})
    BY <1>2, <2>1, FS_Subset
  <2> QED
    BY <2>2, FS_CardinalityType
<1>11. Cardinality(Uneven(h)) + 1 <= Cardinality(Uneven(f))
  BY <1>3, <1>8
<1>12. Cardinality(Uneven(f)) >= 2
  BY <1>3, <1>9, <1>10
<1> QED
  BY <1>3, <1>11, <1>12

LEMMA LoopStarts ==
  ASSUME NEW net, NEW creditors, NEW debtors, Sides(net, creditors, debtors)
  PROVE  LoopSound(net, creditors, debtors, Start(net))
<1> DEFINE t == Start(net)
           U == DOMAIN net
<1>1. t = [left |-> net, i |-> 1, j |-> 1, payments |-> <<>>]
  BY DEF Start
<1>2. t.left = net /\ t.i = 1 /\ t.j = 1 /\ t.payments = <<>>
  BY <1>1
<1>3. net \in [U -> Int] /\ IsFiniteSet(U) /\ SumFunctionOnSet(net, U) = 0
  BY DEF Sides
<1>4. t \in Loop(U)
  <2>1. <<>> \in Seq(Payment(U))
    OBVIOUS
  <2> QED
    BY <1>1, <1>3, <2>1 DEF Loop
<1>5. Cardinality(Uneven(net)) \in Nat
  <2>1. Uneven(net) \subseteq U
    BY DEF Uneven
  <2> QED
    BY <1>3, <2>1, FS_Subset, FS_CardinalityType
<1> HIDE DEF t
<1>6. /\ \A k \in DOMAIN creditors : IF k < t.i THEN t.left[creditors[k]] = 0
                                                 ELSE t.left[creditors[k]] > 0
      /\ \A k \in DOMAIN debtors : IF k < t.j THEN t.left[debtors[k]] = 0
                                               ELSE t.left[debtors[k]] < 0
  <2>1. /\ \A k \in DOMAIN creditors : net[creditors[k]] > 0
        /\ \A k \in DOMAIN debtors : net[debtors[k]] < 0
        /\ \E a \in Nat : DOMAIN creditors = 1..a
        /\ \E b \in Nat : DOMAIN debtors = 1..b
    BY Lists
  <2>2. /\ \A k \in DOMAIN creditors : ~ (k < 1)
        /\ \A k \in DOMAIN debtors : ~ (k < 1)
    BY <2>1
  <2> QED
    BY <1>2, <2>1, <2>2
<1>7. \A p \in U : Paid(t.payments, p) + t.left[p] = net[p]
  <2> SUFFICES ASSUME NEW p \in U PROVE Paid(t.payments, p) + t.left[p] = net[p]
    OBVIOUS
  <2>1. Paid(t.payments, p) = 0 /\ net[p] \in Int
    BY <1>2, <1>3, PaidNothing
  <2> QED
    BY <1>2, <2>1
<1>8. Len(t.payments) = 0
  BY <1>2
<1>9. \A k \in 1..Len(t.payments) : FALSE
  BY <1>8
<1>10. Len(t.payments) + Cardinality(Uneven(t.left)) <= Cardinality(Uneven(net))
  BY <1>2, <1>5, <1>8
<1>11. LoopSound(net, creditors, debtors, t)
  BY <1>2, <1>3, <1>4, <1>6, <1>7, <1>9, <1>10 DEF LoopSound
<1> QED
  BY <1>11 DEF t

LEMMA LoopGoesOn ==
  ASSUME NEW net, NEW creditors, NEW debtors, Sides(net, creditors, debtors),
         NEW t, LoopSound(net, creditors, debtors, t),
         t.i \in DOMAIN creditors, t.j \in DOMAIN debtors
  PROVE  /\ LoopSound(net, creditors, debtors, Turn(t, creditors, debtors))
         /\ Len(Turn(t, creditors, debtors).payments) = Len(t.payments) + 1
<1> DEFINE U == DOMAIN net
           c == creditors[t.i]
           d == debtors[t.j]
           amount == Amount(t.left, c, d)
           after == Turn(t, creditors, debtors)
           payment == [from |-> d, to |-> c, amount |-> amount]
<1>1. /\ c \in U /\ d \in U /\ c # d
      /\ net[c] > 0 /\ net[d] < 0 /\ t.left[c] > 0 /\ t.left[d] < 0
      /\ amount \in Int /\ amount > 0
      /\ t.left[c] - amount >= 0 /\ t.left[d] + amount <= 0
      /\ t.left[c] - amount = 0 \/ t.left[d] + amount = 0
      /\ after.left = [t.left EXCEPT ![c] = @ - amount, ![d] = @ + amount]
      /\ after.i = IF after.left[c] = 0 THEN t.i + 1 ELSE t.i
      /\ after.j = IF after.left[d] = 0 THEN t.j + 1 ELSE t.j
      /\ after.payments = Append(t.payments, payment)
      /\ after \in Loop(U)
      /\ after.left[c] = t.left[c] - amount /\ after.left[d] = t.left[d] + amount
      /\ \A p \in U : p # c /\ p # d => after.left[p] = t.left[p]
  BY TurnPays
<1>2. /\ \A k \in DOMAIN creditors : creditors[k] \in U /\ net[creditors[k]] > 0
      /\ \A k \in DOMAIN debtors : debtors[k] \in U /\ net[debtors[k]] < 0
      /\ \A k \in DOMAIN creditors : creditors[k] = c => k = t.i
      /\ \A k \in DOMAIN debtors : debtors[k] = d => k = t.j
      /\ \A k \in DOMAIN creditors : k \in Nat
      /\ \A k \in DOMAIN debtors : k \in Nat
  BY Lists
<1>3. /\ t \in Loop(U) /\ t.left \in [U -> Int] /\ t.i \in Nat /\ t.j \in Nat
      /\ t.payments \in Seq(Payment(U))
  BY DEF LoopSound, Loop
<1>4. payment.from = d /\ payment.to = c /\ payment.amount = amount /\ payment \in Payment(U)
  BY <1>1 DEF Payment
<1>5. after.left \in [U -> Int]
  BY <1>1 DEF Loop
<1>6. IsFiniteSet(U) /\ net \in [U -> Int]
  BY DEF Sides
<1>7. /\ creditors[t.i] = c /\ debtors[t.j] = d
  OBVIOUS
<1> HIDE DEF c, d, amount, after, payment
<1>8. SumFunctionOnSet(after.left, U) = 0
  <2> DEFINE mid == [t.left EXCEPT ![c] = @ - amount]
  <2>1. mid \in [U -> Int] /\ mid[c] = t.left[c] - amount
    BY <1>1, <1>3
  <2>2. \A p \in U : t.left[p] \in Int /\ mid[p] \in Int /\ (p # c => mid[p] = t.left[p])
    BY <1>1, <1>3
  <2>3. \A p \in U : mid[p] \in Int /\ after.left[p] \in Int /\ (p # d => after.left[p] = mid[p])
    BY <1>1, <1>3, <1>5, <2>1, <2>2
  <2>4. mid[d] = t.left[d]
    BY <1>1, <2>2
  <2> HIDE DEF mid
  <2>5. SumFunctionOnSet(mid, U) = SumFunctionOnSet(t.left, U) + mid[c] - t.left[c]
    <3>1. c \in U /\ IsFiniteSet(U)
      BY <1>1, <1>6
    <3> HIDE DEF U
    <3> QED
      BY <2>2, <3>1, SumChange
  <2>6. SumFunctionOnSet(after.left, U) = SumFunctionOnSet(mid, U) + after.left[d] - mid[d]
    <3> DEFINE left == after.left
    <3>1. d \in U /\ IsFiniteSet(U)
      BY <1>1, <1>6
    <3>2. \A p \in U : mid[p] \in Int /\ left[p] \in Int /\ (p # d => left[p] = mid[p])
      BY <2>3
    <3> HIDE DEF U, left
    <3>3. SumFunctionOnSet(left, U) = SumFunctionOnSet(mid, U) + left[d] - mid[d]
      BY <3>1, <3>2, SumChange
    <3> QED
      BY <3>3 DEF left
  <2>7. SumFunctionOnSet(t.left, U) = 0
    BY DEF LoopSound
  <2>8. t.left[c] \in Int /\ t.left[d] \in Int
    BY <1>1, <1>3
  <2> QED
    BY <1>1, <2>1, <2>4, <2>5, <2>6, <2>7, <2>8
<1>9. ASSUME NEW k \in DOMAIN creditors
      PROVE  IF k < after.i THEN after.left[creditors[k]] = 0 ELSE after.left[creditors[k]] > 0
  <2>1. IF k < t.i THEN t.left[creditors[k]] = 0 ELSE t.left[creditors[k]] > 0
    BY DEF LoopSound
  <2>2. k \in Nat /\ creditors[k] \in U /\ t.left[creditors[k]] \in Int
    BY <1>2, <1>3
  <2>3. CASE k = t.i
    <3>1. creditors[k] = c
      BY <1>7, <2>3
    <3>2. after.left[c] \in Int /\ after.left[c] >= 0
      BY <1>1, <1>5
    <3> QED
      BY <1>1, <1>3, <2>2, <2>3, <3>1, <3>2
  <2>4. CASE k # t.i
    <3>1. creditors[k] # c
      BY <1>2, <2>4
    <3>2. t.left[creditors[k]] >= 0
      BY <2>1, <2>2
    <3>3. creditors[k] # d
      BY <1>1, <2>2, <3>2
    <3>4. after.left[creditors[k]] = t.left[creditors[k]]
      BY <1>1, <2>2, <3>1, <3>3
    <3>5. k < after.i <=> k < t.i
      BY <1>1, <1>3, <2>2, <2>4
    <3> QED
      BY <2>1, <3>4, <3>5
  <2> QED
    BY <2>3, <2>4
<1>10. ASSUME NEW k \in DOMAIN debtors
       PROVE  IF k < after.j THEN after.left[debtors[k]] = 0 ELSE after.left[debtors[k]] < 0
  <2>1. IF k < t.j THEN t.left[debtors[k]] = 0 ELSE t.left[debtors[k]] < 0
    BY DEF LoopSound
  <2>2. k \in Nat /\ debtors[k] \in U /\ t.left[debtors[k]] \in Int
    BY <1>2, <1>3
  <2>3. CASE k = t.j
    <3>1. debtors[k] = d
      BY <1>7, <2>3
    <3>2. after.left[d] \in Int /\ after.left[d] <= 0
      BY <1>1, <1>5
    <3> QED
      BY <1>1, <1>3, <2>2, <2>3, <3>1, <3>2
  <2>4. CASE k # t.j
    <3>1. debtors[k] # d
      BY <1>2, <2>4
    <3>2. t.left[debtors[k]] <= 0
      BY <2>1, <2>2
    <3>3. debtors[k] # c
      BY <1>1, <2>2, <3>2
    <3>4. after.left[debtors[k]] = t.left[debtors[k]]
      BY <1>1, <2>2, <3>1, <3>3
    <3>5. k < after.j <=> k < t.j
      BY <1>1, <1>3, <2>2, <2>4
    <3> QED
      BY <2>1, <3>4, <3>5
  <2> QED
    BY <2>3, <2>4
<1>11. ASSUME NEW p \in U, net[p] = 0
       PROVE  after.left[p] = 0
  <2>1. p # c /\ p # d /\ t.left[p] = 0
    BY <1>1, <1>11 DEF LoopSound
  <2> QED
    BY <1>1, <2>1
<1>12. Len(after.payments) = Len(t.payments) + 1 /\ Len(t.payments) \in Nat
  BY <1>1, <1>3
<1>13. ASSUME NEW k \in 1..Len(after.payments)
       PROVE  /\ after.payments[k].amount > 0
              /\ net[after.payments[k].from] < 0 /\ net[after.payments[k].to] > 0
  <2>1. CASE k = Len(t.payments) + 1
    <3>1. after.payments[k] = payment
      BY <1>1, <1>3, <2>1
    <3> QED
      BY <1>1, <1>4, <3>1
  <2>2. CASE k # Len(t.payments) + 1
    <3>1. k \in 1..Len(t.payments)
      BY <1>12, <2>2
    <3>2. after.payments[k] = t.payments[k]
      BY <1>1, <1>3, <3>1
    <3> QED
      BY <3>1, <3>2 DEF LoopSound
  <2> QED
    BY <2>1, <2>2
<1>14. ASSUME NEW p \in U
       PROVE  Paid(after.payments, p) + after.left[p] = net[p]
  <2>1. /\ Paid(t.payments, p) \in Int
        /\ Paid(after.payments, p) = Paid(t.payments, p) + Gain(payment, p)
    BY <1>1, <1>3, <1>4, PaidMore
  <2>2. Paid(t.payments, p) + t.left[p] = net[p]
    BY DEF LoopSound
  <2>3. t.left[p] \in Int /\ net[p] \in Int
    BY <1>3, <1>6
  <2>4. Gain(payment, p) = (IF c = p THEN amount ELSE 0) - (IF d = p THEN amount ELSE 0)
    BY <1>4 DEF Gain
  <2>5. CASE p = c
    BY <1>1, <2>1, <2>2, <2>3, <2>4, <2>5
  <2>6. CASE p = d
    BY <1>1, <2>1, <2>2, <2>3, <2>4, <2>6
  <2>7. CASE p # c /\ p # d
    BY <1>1, <2>1, <2>2, <2>3, <2>4, <2>7
  <2> QED
    BY <2>5, <2>6, <2>7
<1>15. /\ Cardinality(Uneven(t.left)) \in Nat /\ Cardinality(Uneven(after.left)) \in Nat
       /\ Cardinality(Uneven(after.left)) + 1 <= Cardinality(Uneven(t.left))
       /\ Uneven(after.left) = {} => Cardinality(Uneven(t.left)) >= 2
  <2>1. t.left[c] # 0 /\ t.left[d] # 0 /\ (after.left[c] = 0 \/ after.left[d] = 0)
    BY <1>1, <1>3
  <2> DEFINE f == t.left
             h == after.left
  <2>2. /\ c \in U /\ d \in U /\ c # d /\ IsFiniteSet(U)
        /\ f \in [U -> Int] /\ h \in [U -> Int]
        /\ f[c] # 0 /\ f[d] # 0 /\ (h[c] = 0 \/ h[d] = 0)
        /\ \A p \in U : p # c /\ p # d => h[p] = f[p]
    BY <1>1, <1>3, <1>5, <1>6, <2>1
  <2> HIDE DEF U, f, h
  <2>3. /\ Cardinality(Uneven(f)) \in Nat /\ Cardinality(Uneven(h)) \in Nat
        /\ Cardinality(Uneven(h)) + 1 <= Cardinality(Uneven(f))
        /\ Uneven(h) = {} => Cardinality(Uneven(f)) >= 2
    BY <2>2, FewerUneven
  <2> QED
    BY <2>3 DEF f, h
<1>16. Cardinality(Uneven(net)) \in Nat
  <2>1. Uneven(net) \subseteq U
    BY DEF Uneven
  <2> QED
    BY <1>6, <2>1, FS_Subset, FS_CardinalityType
<1>17. Len(t.payments) + Cardinality(Uneven(t.left)) <= Cardinality(Uneven(net))
  BY DEF LoopSound
<1>18. Len(after.payments) + Cardinality(Uneven(after.left)) <= Cardinality(Uneven(net))
  BY <1>12, <1>15, <1>16, <1>17
<1>19. Uneven(after.left) = {} => Len(after.payments) < Cardinality(Uneven(net))
  BY <1>12, <1>15, <1>16, <1>17
<1>20. LoopSound(net, creditors, debtors, after)
  BY <1>1, <1>8, <1>9, <1>10, <1>11, <1>13, <1>14, <1>18, <1>19 DEF LoopSound
<1> QED
  BY <1>12, <1>20 DEF after

\* The first n turns.
FirstTurns(net, creditors, debtors, n, turn) ==
  turn = [i \in 0..n |-> IF i = 0 THEN Start(net) ELSE Turn(turn[i - 1], creditors, debtors)]

LEMMA TurnsExist ==
  ASSUME NEW net, NEW creditors, NEW debtors, NEW N \in Nat
  PROVE  \E turn : FirstTurns(net, creditors, debtors, N, turn)
<1> DEFINE P == {n \in 0..N : \E turn : FirstTurns(net, creditors, debtors, n, turn)}
<1>1. 0 \in P
  <2> DEFINE f == [i \in 0..0 |-> Start(net)]
  <2>1. f = [i \in 0..0 |-> IF i = 0 THEN Start(net) ELSE Turn(f[i - 1], creditors, debtors)]
    OBVIOUS
  <2> HIDE DEF f
  <2>2. FirstTurns(net, creditors, debtors, 0, f)
    BY <2>1 DEF FirstTurns
  <2> QED
    BY <2>2
<1>2. ASSUME NEW n \in 0..N, n \in P, n < N
      PROVE  n + 1 \in P
  <2>1. PICK f : FirstTurns(net, creditors, debtors, n, f)
    BY <1>2
  <2> DEFINE g == [i \in 0..n + 1 |-> IF i = 0 THEN Start(net)
                                      ELSE Turn(f[i - 1], creditors, debtors)]
  <2>2. ASSUME NEW i \in 0..n PROVE g[i] = f[i]
    <3>1. f[i] = IF i = 0 THEN Start(net) ELSE Turn(f[i - 1], creditors, debtors)
      BY <2>1 DEF FirstTurns
    <3>2. i \in 0..n + 1
      OBVIOUS
    <3> QED
      BY <3>1, <3>2
  <2>3. ASSUME NEW i \in 0..n + 1
        PROVE  (IF i = 0 THEN Start(net) ELSE Turn(f[i - 1], creditors, debtors)) =
                 IF i = 0 THEN Start(net) ELSE Turn(g[i - 1], creditors, debtors)
    <3>1. CASE i = 0
      BY <3>1
    <3>2. CASE i # 0
      <4>1. i - 1 \in 0..n
        BY <3>2
      <4>2. g[i - 1] = f[i - 1]
        BY <2>2, <4>1
      <4> HIDE DEF g
      <4> QED
        BY <3>2, <4>2
    <3> QED
      BY <3>1, <3>2
  <2>4. g = [i \in 0..n + 1 |-> IF i = 0 THEN Start(net) ELSE Turn(g[i - 1], creditors, debtors)]
    BY <2>3
  <2> HIDE DEF g
  <2>5. FirstTurns(net, creditors, debtors, n + 1, g)
    BY <2>4 DEF FirstTurns
  <2>6. n + 1 \in 0..N
    BY <1>2
  <2> QED
    BY <2>5, <2>6
<1>3. N \in P
  <2> HIDE DEF P
  <2>1. \A n \in 0..N : n \in P
    BY <1>1, <1>2, Reaches
  <2> QED
    BY <2>1
<1> QED
  BY <1>3

LEMMA TurnsFold ==
  ASSUME NEW net, NEW creditors, NEW debtors, Cardinality(DOMAIN net) \in Nat
  PROVE  /\ Turns(net, creditors, debtors)[0] = Start(net)
         /\ \A n \in 0..Cardinality(DOMAIN net) - 1 :
              Turns(net, creditors, debtors)[n + 1] =
                Turn(Turns(net, creditors, debtors)[n], creditors, debtors)
<1> DEFINE N == Cardinality(DOMAIN net)
           T == Turns(net, creditors, debtors)
<1>1. \E turn : turn = [i \in 0..N |-> IF i = 0 THEN Start(net)
                                        ELSE Turn(turn[i - 1], creditors, debtors)]
  <2>1. N \in Nat
    OBVIOUS
  <2> HIDE DEF N
  <2>2. \E turn : FirstTurns(net, creditors, debtors, N, turn)
    BY <2>1, TurnsExist
  <2> QED
    BY <2>2 DEF FirstTurns
<1>2. T = CHOOSE turn : turn = [i \in 0..N |-> IF i = 0 THEN Start(net)
                                               ELSE Turn(turn[i - 1], creditors, debtors)]
  BY DEF Turns
<1> HIDE DEF T, N
<1>3. T = [i \in 0..N |-> IF i = 0 THEN Start(net) ELSE Turn(T[i - 1], creditors, debtors)]
  BY <1>1, <1>2
<1>4. N \in Nat
  BY DEF N
<1>5. \A i \in 0..N : T[i] = IF i = 0 THEN Start(net) ELSE Turn(T[i - 1], creditors, debtors)
  BY <1>3
<1>6. T[0] = Start(net)
  BY <1>4, <1>5
<1>7. \A n \in 0..N - 1 : T[n + 1] = Turn(T[n], creditors, debtors)
  <2> SUFFICES ASSUME NEW n \in 0..N - 1 PROVE T[n + 1] = Turn(T[n], creditors, debtors)
    OBVIOUS
  <2>1. n + 1 \in 0..N /\ n + 1 # 0 /\ (n + 1) - 1 = n
    BY <1>4
  <2> QED
    BY <1>5, <2>1
<1> QED
  BY <1>6, <1>7 DEF T, N

\* One of the two lists is used up.
Over(creditors, debtors, t) == t.i \notin DOMAIN creditors \/ t.j \notin DOMAIN debtors

\* The loop stays sound, and each turn until it is over makes one payment.
LEMMA TurnsSound ==
  ASSUME NEW net, NEW creditors, NEW debtors, Sides(net, creditors, debtors),
         NEW n \in 0..Cardinality(DOMAIN net)
  PROVE  LET t == Turns(net, creditors, debtors)[n] IN
         /\ LoopSound(net, creditors, debtors, t)
         /\ Over(creditors, debtors, t) \/ Len(t.payments) = n
<1> DEFINE N == Cardinality(DOMAIN net)
           T == Turns(net, creditors, debtors)
           Sound(t) == LoopSound(net, creditors, debtors, t)
           P == {k \in 0..N : Sound(T[k]) /\ (Over(creditors, debtors, T[k])
                                              \/ Len(T[k].payments) = k)}
<1>0. N \in Nat
  BY FS_CardinalityType DEF Sides
<1>1. T[0] = Start(net) /\ \A k \in 0..N - 1 : T[k + 1] = Turn(T[k], creditors, debtors)
  BY <1>0, TurnsFold
<1>2. 0 \in P
  <2>1. Sound(T[0])
    BY <1>1, LoopStarts
  <2>2. Len(T[0].payments) = 0
    BY <1>1 DEF Start
  <2> QED
    BY <1>0, <2>1, <2>2
<1>3. ASSUME NEW k \in 0..N, k \in P, k < N
      PROVE  k + 1 \in P
  <2> DEFINE t == T[k]
             after == Turn(t, creditors, debtors)
  <2>1. T[k + 1] = after /\ k + 1 \in 0..N
    BY <1>0, <1>1, <1>3
  <2>2. LoopSound(net, creditors, debtors, t)
    BY <1>3
  <2>3. Over(creditors, debtors, t) \/ Len(t.payments) = k
    BY <1>3
  <2> HIDE DEF T, t
  <2>4. CASE Over(creditors, debtors, t)
    <3>1. after = t
      BY <2>4 DEF Turn, Over
    <3> QED
      BY <2>1, <2>2, <2>4, <3>1
  <2>5. CASE ~ Over(creditors, debtors, t)
    <3>1. t.i \in DOMAIN creditors /\ t.j \in DOMAIN debtors
      BY <2>5 DEF Over
    <3>2. LoopSound(net, creditors, debtors, after) /\ Len(after.payments) = Len(t.payments) + 1
      BY <2>2, <3>1, LoopGoesOn
    <3> QED
      BY <2>1, <2>3, <2>5, <3>2
  <2> QED
    BY <2>4, <2>5
<1>4. n \in P
  <2> HIDE DEF P
  <2>1. \A k \in 0..N : k \in P
    BY <1>0, <1>2, <1>3, Reaches
  <2> QED
    BY <2>1
<1> QED
  BY <1>4

\* When the loop is over, or has had a turn for everybody, nobody is left uneven.
LEMMA LoopEnds ==
  ASSUME NEW net, NEW creditors, NEW debtors, Sides(net, creditors, debtors),
         NEW t, LoopSound(net, creditors, debtors, t),
         Over(creditors, debtors, t) \/ Len(t.payments) = Cardinality(DOMAIN net)
  PROVE  Uneven(t.left) = {}
<1> DEFINE U == DOMAIN net
<1>0. IsFiniteSet(U) /\ net \in [U -> Int]
  BY DEF Sides
<1>1. /\ t.left \in [U -> Int] /\ t.i \in Nat \ {0} /\ t.j \in Nat \ {0}
      /\ t.payments \in Seq(Payment(U))
  BY DEF LoopSound, Loop
<1>2. /\ SumFunctionOnSet(t.left, U) = 0
      /\ \A k \in DOMAIN creditors :
           IF k < t.i THEN t.left[creditors[k]] = 0 ELSE t.left[creditors[k]] > 0
      /\ \A k \in DOMAIN debtors :
           IF k < t.j THEN t.left[debtors[k]] = 0 ELSE t.left[debtors[k]] < 0
      /\ \A p \in U : net[p] = 0 => t.left[p] = 0
      /\ Len(t.payments) + Cardinality(Uneven(t.left)) <= Cardinality(Uneven(net))
  BY DEF LoopSound
<1>3. Uneven(t.left) \subseteq U /\ Uneven(net) \subseteq U
  BY <1>1 DEF Uneven
<1>4. PICK a \in Nat : DOMAIN creditors = 1..a
  BY Lists
<1>5. PICK b \in Nat : DOMAIN debtors = 1..b
  BY Lists
<1>6. /\ \A k \in DOMAIN creditors : creditors[k] \in U
      /\ \A k \in DOMAIN debtors : debtors[k] \in U
      /\ \A p \in U : net[p] > 0 => \E k \in DOMAIN creditors : creditors[k] = p
      /\ \A p \in U : net[p] < 0 => \E k \in DOMAIN debtors : debtors[k] = p
  BY Lists
<1>7. CASE t.i \notin DOMAIN creditors
  <2>1. \A k \in DOMAIN creditors : k < t.i
    BY <1>1, <1>4, <1>7
  <2>2. ASSUME NEW p \in U PROVE t.left[p] \in Int /\ t.left[p] <= 0
    <3>1. t.left[p] \in Int /\ net[p] \in Int
      BY <1>0, <1>1
    <3>2. CASE net[p] > 0
      BY <1>2, <1>6, <2>1, <3>1, <3>2
    <3>3. CASE net[p] < 0
      <4>1. PICK k \in DOMAIN debtors : debtors[k] = p
        BY <1>6, <3>3
      <4>2. t.left[p] = 0 \/ t.left[p] < 0
        BY <1>2, <4>1
      <4> QED
        BY <3>1, <4>2
    <3>4. CASE net[p] = 0
      BY <1>2, <3>1, <3>4
    <3> QED
      BY <3>1, <3>2, <3>3, <3>4
  <2> HIDE DEF U
  <2> DEFINE f == t.left
  <2>3. /\ \A p \in U : f[p] \in Int /\ f[p] <= 0
        /\ SumFunctionOnSet(f, U) = 0
    BY <1>2, <2>2
  <2> HIDE DEF f
  <2>4. \A p \in U : f[p] = 0
    BY <1>0, <2>3, SumOfDebts
  <2> QED
    BY <1>1, <2>4 DEF Uneven, f
<1>8. CASE t.j \notin DOMAIN debtors
  <2>1. \A k \in DOMAIN debtors : k < t.j
    BY <1>1, <1>5, <1>8
  <2>2. ASSUME NEW p \in U PROVE t.left[p] \in Nat
    <3>1. t.left[p] \in Int /\ net[p] \in Int
      BY <1>0, <1>1
    <3>2. CASE net[p] < 0
      BY <1>2, <1>6, <2>1, <3>1, <3>2
    <3>3. CASE net[p] > 0
      <4>1. PICK k \in DOMAIN creditors : creditors[k] = p
        BY <1>6, <3>3
      <4>2. t.left[p] = 0 \/ t.left[p] > 0
        BY <1>2, <4>1
      <4> QED
        BY <3>1, <4>2
    <3>4. CASE net[p] = 0
      BY <1>2, <3>1, <3>4
    <3> QED
      BY <3>1, <3>2, <3>3, <3>4
  <2> HIDE DEF U
  <2> DEFINE f == t.left
  <2>3. /\ \A p \in U : f[p] \in Nat
        /\ SumFunctionOnSet(f, U) = 0
    BY <1>2, <2>2
  <2> HIDE DEF f
  <2>4. \A p \in U : f[p] = 0
    BY <1>0, <2>3, SumOfNaturals
  <2> QED
    BY <1>1, <2>4 DEF Uneven, f
<1>9. CASE Len(t.payments) = Cardinality(U)
  <2>1. IsFiniteSet(Uneven(t.left)) /\ Cardinality(Uneven(net)) <= Cardinality(U)
    BY <1>0, <1>3, FS_Subset
  <2>2. /\ Cardinality(Uneven(t.left)) \in Nat /\ Cardinality(Uneven(net)) \in Nat
        /\ Cardinality(U) \in Nat
    BY <1>0, <1>3, <2>1, FS_Subset, FS_CardinalityType
  <2>3. Cardinality(Uneven(t.left)) = 0
    BY <1>2, <1>9, <2>1, <2>2
  <2> QED
    BY <2>1, <2>3, FS_EmptySet
<1> QED
  BY <1>7, <1>8, <1>9 DEF Over

\* calculateSettlements settles whatever adds up to nothing, among any number of people.
LEMMA EverythingIsPaid ==
  ASSUME NEW net, IsFiniteSet(DOMAIN net), net \in [DOMAIN net -> Int],
         SumFunctionOnSet(net, DOMAIN net) = 0,
         NEW payments \in calculateSettlements(net)
  PROVE  Settles(net, payments)
<1> DEFINE N == Cardinality(DOMAIN net)
<1>1. PICK creditors \in Sorted(Creditors(net), net), debtors \in Sorted(Debtors(net), net) :
        payments = Payments(net, creditors, debtors)
  BY DEF calculateSettlements
<1>2. Sides(net, creditors, debtors)
  BY <1>1 DEF Sides
<1> DEFINE t == Turns(net, creditors, debtors)[N]
<1>3. N \in Nat /\ N \in 0..N
  BY FS_CardinalityType
<1>4. LoopSound(net, creditors, debtors, t) /\ (Over(creditors, debtors, t) \/ Len(t.payments) = N)
  BY <1>2, <1>3, TurnsSound
<1>5. payments = t.payments
  BY <1>1 DEF Payments
<1> HIDE DEF t
<1>6. Uneven(t.left) = {}
  BY <1>2, <1>4, LoopEnds
<1>7. t.left \in [DOMAIN net -> Int] /\ payments \in Seq(Payment(DOMAIN net))
  BY <1>4, <1>5 DEF LoopSound, Loop
<1>8. \A p \in DOMAIN net : Paid(payments, p) = net[p]
  <2> SUFFICES ASSUME NEW p \in DOMAIN net PROVE Paid(payments, p) = net[p]
    OBVIOUS
  <2>1. t.left[p] = 0
    BY <1>6, <1>7 DEF Uneven
  <2>2. Paid(payments, p) + t.left[p] = net[p]
    BY <1>4, <1>5 DEF LoopSound
  <2>3. Paid(payments, p) \in Int
    <3>1. [from |-> p, to |-> p, amount |-> 0] \in Payment(DOMAIN net)
      BY DEF Payment
    <3> QED
      BY <1>7, <3>1, PaidMore
  <2> QED
    BY <2>1, <2>2, <2>3
<1>9. payments # <<>> => Len(payments) < Cardinality({p \in DOMAIN net : net[p] # 0})
  BY <1>4, <1>5, <1>6 DEF LoopSound, Uneven
<1>10. \A i \in 1..Len(payments) : /\ payments[i].amount > 0
                                  /\ net[payments[i].from] < 0 /\ net[payments[i].to] > 0
  BY <1>4, <1>5 DEF LoopSound
<1> QED
  BY <1>8, <1>9, <1>10 DEF Settles

\* calculateSettlements leaves nobody owing or owed, for any finite set of participants
\* and nets of any size, however sort.Slice orders equal ones.
THEOREM EverybodyGetsEven == EverybodyEven
<1> SUFFICES ASSUME NEW net \in Balanced, NEW payments \in calculateSettlements(net)
             PROVE  Settles(net, payments)
  BY DEF EverybodyEven
<1>1. DOMAIN net = People /\ net \in [People -> Int] /\ IsFiniteSet(People)
  BY SettlementsAssumption DEF Balanced, SettlementsAssumption
<1>2. SumFunctionOnSet(net, DOMAIN net) = 0
  BY DEF Balanced, SumFunction
<1> QED
  BY <1>1, <1>2, EverythingIsPaid

-----------------------------------------------------------------------------
(* What a balance request answers *)

\* The nets a request has counted so far add up to nothing.
NetsAddUp == \A r \in Requests : SumFunctionOnSet(req[r].net, Users) = 0

LEMMA IdleAddsUp == SumFunctionOnSet(IdleRequest.net, Users) = 0
<1>1. \A u \in Users : IdleRequest.net[u] = 0
  BY DEF IdleRequest
<1> QED
  BY <1>1, ExpensesAssumption, NothingAddsUp DEF ExpensesAssumption

\* What an expense adds for its payer it takes from those who owe a share of it.
LEMMA CountedInFull ==
  ASSUME NEW s \in Splits, NEW payer \in Users, NEW net \in [Users -> Int],
         SumFunctionOnSet(net, Users) = 0,
         NEW after, \A u \in Users : after[u] = net[u] + (IF u = payer THEN Total(s) ELSE 0)
                                                       - Owed(s, u)
  PROVE  SumFunctionOnSet(after, Users) = 0
<1> DEFINE total == Total(s)
           owed == [u \in Users |-> Owed(s, u)]
           paid == [u \in Users |-> IF u = payer THEN total ELSE 0]
           none == [u \in Users |-> 0]
           both == [u \in Users |-> net[u] + paid[u]]
<1>0. IsFiniteSet(Users)
  BY ExpensesAssumption DEF ExpensesAssumption
<1>1. Charged(s) \in SUBSET Users /\ IsFiniteSet(Charged(s))
  BY <1>0, FS_Subset DEF Charged
<1>2. \A u \in Charged(s) : s[u] \in Int /\ owed[u] = s[u]
  BY <1>1 DEF Charged, Splits, Owed
<1>3. /\ \A u \in Users : owed[u] \in Int
      /\ \A u \in Users \ Charged(s) : owed[u] = 0
  BY DEF Charged, Splits, Owed
<1> HIDE DEF owed
<1>4. total = SumFunctionOnSet(s, Charged(s))
  BY DEF Total
<1>5. total \in Int
  BY <1>1, <1>2, <1>4, SumStep
<1> HIDE DEF total
<1>6. SumFunctionOnSet(owed, Users) = total
  <2>1. SumFunctionOnSet(owed, Users) = SumFunctionOnSet(owed, Charged(s))
    BY <1>0, <1>1, <1>3, SumOn
  <2>2. SumFunctionOnSet(owed, Charged(s)) = SumFunctionOnSet(s, Charged(s))
    BY <1>1, <1>2, SumSame
  <2> QED
    BY <1>4, <2>1, <2>2
<1>7. SumFunctionOnSet(paid, Users) = total
  <2>1. /\ \A u \in Users : none[u] \in Int /\ paid[u] \in Int /\ (u # payer => paid[u] = none[u])
        /\ \A u \in Users : none[u] = 0
        /\ paid[payer] = total /\ none[payer] = 0
    BY <1>5
  <2> HIDE DEF none, paid
  <2>2. SumFunctionOnSet(none, Users) = 0
    BY <1>0, <2>1, NothingAddsUp
  <2>3. SumFunctionOnSet(paid, Users) = SumFunctionOnSet(none, Users) + paid[payer] - none[payer]
    <3>1. \A u \in Users : none[u] \in Int /\ paid[u] \in Int /\ (u # payer => paid[u] = none[u])
      BY <2>1
    <3> QED
      BY <1>0, <3>1, SumChange
  <2> QED
    BY <1>5, <2>1, <2>2, <2>3
<1>8. \A u \in Users : net[u] \in Int /\ paid[u] \in Int /\ both[u] = net[u] + paid[u]
  BY <1>5
<1>9. \A u \in Users : after[u] \in Int /\ owed[u] \in Int /\ both[u] = after[u] + owed[u]
  <2> SUFFICES ASSUME NEW u \in Users
               PROVE  after[u] \in Int /\ owed[u] \in Int /\ both[u] = after[u] + owed[u]
    OBVIOUS
  <2>1. after[u] = net[u] + paid[u] - owed[u]
    BY DEF owed, total
  <2>2. owed[u] \in Int
    BY <1>3
  <2>3. net[u] \in Int /\ paid[u] \in Int /\ both[u] = net[u] + paid[u]
    BY <1>8
  <2> HIDE DEF paid, both
  <2> QED
    BY <2>1, <2>2, <2>3
<1> HIDE DEF paid, both
<1>10. SumFunctionOnSet(both, Users) = SumFunctionOnSet(net, Users) + SumFunctionOnSet(paid, Users)
  BY <1>0, <1>8, SumPlus
<1>11. SumFunctionOnSet(both, Users) = SumFunctionOnSet(after, Users) + SumFunctionOnSet(owed, Users)
  BY <1>0, <1>9, SumPlus
<1>12. SumFunctionOnSet(after, Users) \in Int
  BY <1>0, <1>9, SumStep
<1> QED
  BY <1>5, <1>6, <1>7, <1>10, <1>11, <1>12

LEMMA NetsKept ==
  ASSUME IInv, NetsAddUp, [Next]_vars
  PROVE  NetsAddUp'
<1>1. CASE UNCHANGED req
  BY <1>1 DEF NetsAddUp
<1>2. ASSUME NEW r \in Requests, NEW q, req' = [req EXCEPT ![r] = q],
             SumFunctionOnSet(q.net, Users) = 0
      PROVE  NetsAddUp'
  <2>1. \A s \in Requests : req'[s] = IF s = r THEN q ELSE req[s]
    BY <1>2 DEF IInv, TypeOK
  <2> QED
    BY <1>2, <2>1 DEF NetsAddUp
<1>3. ASSUME NEW r \in Requests, Done(r) PROVE NetsAddUp'
  BY <1>2, <1>3, IdleAddsUp DEF Done
<1>4. ASSUME NEW r \in Requests,
             CreateAggregate(r) \/ UpdateAggregate(r) \/ Delete(r) \/ SetVisibility(r)
             \/ BalancesRead(r)
      PROVE  NetsAddUp'
  BY <1>3, <1>4 DEF CreateAggregate, UpdateAggregate, Delete, SetVisibility, BalancesRead
<1>5. ASSUME NEW r \in Requests, NEW q, Begin(r, q), q.net = IdleRequest.net
      PROVE  NetsAddUp'
  BY <1>2, <1>5, IdleAddsUp DEF Begin
<1>6. ASSUME NEW r \in Requests, BeginCreate(r) PROVE NetsAddUp'
  <2>1. PICK a, i, n, v, s :
          Begin(r, [IdleRequest EXCEPT !.op = "create", !.actor = a, !.id = i, !.amount = n,
                                       !.split = s, !.private = v[1], !.visible = v[2]])
    BY <1>6 DEF BeginCreate
  <2> DEFINE q == [IdleRequest EXCEPT !.op = "create", !.actor = a, !.id = i, !.amount = n,
                                      !.split = s, !.private = v[1], !.visible = v[2]]
  <2>2. q.net = IdleRequest.net /\ Begin(r, q)
    BY <2>1 DEF IdleRequest
  <2> HIDE DEF q
  <2> QED
    BY <1>5, <2>2
<1>7. ASSUME NEW r \in Requests, BeginUpdate(r) PROVE NetsAddUp'
  <2>1. PICK a, i, n, s :
          Begin(r, [IdleRequest EXCEPT !.op = "update", !.actor = a, !.id = i,
                                       !.amount = n, !.split = s,
                                       !.read = expense[i].amount])
    BY <1>7 DEF BeginUpdate
  <2> DEFINE q == [IdleRequest EXCEPT !.op = "update", !.actor = a, !.id = i,
                                      !.amount = n, !.split = s,
                                      !.read = expense[i].amount]
  <2>2. q.net = IdleRequest.net /\ Begin(r, q)
    BY <2>1 DEF IdleRequest
  <2> HIDE DEF q
  <2> QED
    BY <1>5, <2>2
<1>8. ASSUME NEW r \in Requests, BeginDelete(r) PROVE NetsAddUp'
  <2>1. PICK a, i :
          Begin(r, [IdleRequest EXCEPT !.op = "delete", !.actor = a, !.id = i])
    BY <1>8 DEF BeginDelete
  <2> DEFINE q == [IdleRequest EXCEPT !.op = "delete", !.actor = a, !.id = i]
  <2>2. q.net = IdleRequest.net /\ Begin(r, q)
    BY <2>1 DEF IdleRequest
  <2> HIDE DEF q
  <2> QED
    BY <1>5, <2>2
<1>9. ASSUME NEW r \in Requests, BeginSetVisibility(r) PROVE NetsAddUp'
  <2>1. PICK a, i, v :
          Begin(r, [IdleRequest EXCEPT !.op = "share", !.actor = a, !.id = i,
                                       !.private = v[1], !.visible = v[2]])
    BY <1>9 DEF BeginSetVisibility
  <2> DEFINE q == [IdleRequest EXCEPT !.op = "share", !.actor = a, !.id = i,
                                      !.private = v[1], !.visible = v[2]]
  <2>2. q.net = IdleRequest.net /\ Begin(r, q)
    BY <2>1 DEF IdleRequest
  <2> HIDE DEF q
  <2> QED
    BY <1>5, <2>2
<1>10. ASSUME NEW r \in Requests, GetExpensesForBalance(r) PROVE NetsAddUp'
  <2>1. PICK a, todo :
          Begin(r, [IdleRequest EXCEPT !.op = "balances", !.actor = a, !.todo = todo])
    BY <1>10 DEF GetExpensesForBalance
  <2> DEFINE q == [IdleRequest EXCEPT !.op = "balances", !.actor = a, !.todo = todo]
  <2>2. q.net = IdleRequest.net /\ Begin(r, q)
    BY <2>1 DEF IdleRequest
  <2> HIDE DEF q
  <2> QED
    BY <1>5, <2>2
<1>11. ASSUME NEW r \in Requests, AnswerBalances(r) PROVE NetsAddUp'
  <2> DEFINE q == [req[r] EXCEPT !.answered = TRUE]
  <2>1. req' = [req EXCEPT ![r] = q]
    BY <1>11 DEF AnswerBalances
  <2>2. q.net = req[r].net
    BY DEF IInv, TypeOK, Request
  <2> HIDE DEF q
  <2> QED
    BY <1>2, <2>1, <2>2 DEF NetsAddUp
<1>12. ASSUME NEW r \in Requests, GetSplits(r) PROVE NetsAddUp'
  <2>1. PICK i \in ToCount(r) :
          \/ /\ Adds(r, i)
             /\ req' = [req EXCEPT
                  ![r].todo[i] = NoRow,
                  ![r].net = [u \in Users |->
                     @[u] + (IF u = expense[i].payer THEN req[r].todo[i] ELSE 0)
                          - Owed(split[i], u)]]
          \/ Done(r)
    BY <1>12 DEF GetSplits
  <2>2. CASE Done(r)
    BY <1>3, <2>2
  <2>3. CASE /\ Adds(r, i)
             /\ req' = [req EXCEPT
                  ![r].todo[i] = NoRow,
                  ![r].net = [u \in Users |->
                     @[u] + (IF u = expense[i].payer THEN req[r].todo[i] ELSE 0)
                          - Owed(split[i], u)]]
    <3> DEFINE net == [u \in Users |->
                    req[r].net[u] + (IF u = expense[i].payer THEN req[r].todo[i] ELSE 0)
                                  - Owed(split[i], u)]
               q == [req[r] EXCEPT !.todo = [req[r].todo EXCEPT ![i] = NoRow], !.net = net]
    <3>1. req[r] \in Request /\ i \in Ids /\ split[i] \in Splits
      BY DEF IInv, TypeOK, ToCount
    <3>2. expense[i].payer \in Users /\ req[r].todo[i] = Total(split[i])
      BY <2>3, <3>1 DEF Adds, IInv, NoOrphans, Stored, TypeOK
    <3>3. req[r].net \in [Users -> Int] /\ SumFunctionOnSet(req[r].net, Users) = 0
      BY <3>1 DEF Request, NetsAddUp
    <3>4. \A u \in Users : net[u] = req[r].net[u] + (IF u = expense[i].payer
                                                     THEN Total(split[i]) ELSE 0)
                                                  - Owed(split[i], u)
      BY <3>2
    <3>5. req' = [req EXCEPT ![r] = q]
      BY <2>3 DEF IInv, TypeOK
    <3> HIDE DEF net
    <3>6. SumFunctionOnSet(net, Users) = 0
      <4> DEFINE s == split[i]
                 payer == expense[i].payer
                 before == req[r].net
      <4>1. /\ s \in Splits /\ payer \in Users
            /\ before \in [Users -> Int] /\ SumFunctionOnSet(before, Users) = 0
            /\ \A u \in Users : net[u] = before[u] + (IF u = payer THEN Total(s) ELSE 0)
                                                   - Owed(s, u)
        BY <3>1, <3>2, <3>3, <3>4
      <4> HIDE DEF s, payer, before
      <4> QED
        BY <4>1, CountedInFull
    <3>7. q.net = net
      BY <3>1 DEF Request
    <3> HIDE DEF q
    <3> QED
      BY <1>2, <3>5, <3>6, <3>7
  <2> QED
    BY <2>1, <2>2, <2>3
<1>13. CASE MembershipChanges
  BY <1>1, <1>13 DEF MembershipChanges
<1>14. CASE UNCHANGED vars
  BY <1>1, <1>14 DEF vars
<1> QED
  BY <1>4, <1>6, <1>7, <1>8, <1>9, <1>10, <1>11, <1>12, <1>13, <1>14 DEF Next

\* However expenses change while a balance request counts them, what it has counted adds
\* up to nothing: only splits that make up the amount read before are counted.
THEOREM CountsAddUp == Spec => []NetsAddUp
<1>1. Init => NetsAddUp
  BY IdleAddsUp DEF Init, NetsAddUp
<1> QED
  BY <1>1, NetsKept, ExpensesInvariance, PTL DEF Spec

\* A balance request is answered with payments that leave nobody owing or owed, and so
\* will every later one be.
THEOREM BalancesGetSettled == Spec => []BalancesSettle
<1>1. IInv /\ NetsAddUp => BalancesSettle
  <2> SUFFICES ASSUME IInv, NetsAddUp PROVE BalancesSettle
    OBVIOUS
  <2>1. ASSUME NEW r \in Requests, NEW payments \in calculateSettlements(req[r].net)
        PROVE  Settles(req[r].net, payments)
    <3> DEFINE net == req[r].net
    <3>1. net \in [Users -> Int] /\ SumFunctionOnSet(net, Users) = 0 /\ IsFiniteSet(Users)
      BY ExpensesAssumption DEF ExpensesAssumption, IInv, TypeOK, Request, NetsAddUp
    <3>2. payments \in calculateSettlements(net)
      BY <2>1
    <3> HIDE DEF net
    <3>3. DOMAIN net = Users
      BY <3>1
    <3>4. Settles(net, payments)
      BY <3>1, <3>2, <3>3, EverythingIsPaid
    <3> QED
      BY <3>4 DEF net
  <2>2. FutureSettles
    BY EverybodyGetsEven DEF FutureSettles
  <2> QED
    BY <2>1, <2>2 DEF BalancesSettle
<1> QED
  BY <1>1, CountsAddUp, ExpensesInvariance, PTL
=============================================================================
