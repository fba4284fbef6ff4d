---------------------------- MODULE AccountsProofs ----------------------------
(* What holds of accounts for every number of them, of identities and of     *)
(* sign-ins at a time.                                                       *)
EXTENDS Accounts, SignIns, FiniteSetTheorems, WellFoundedInduction, TLAPS

\* Rows: the unique indexes, and how a row can be reached.
Rows ==
  /\ \A u \in Users : Stored(u) => user[u].email \in Addresses
  /\ \A u, v \in Users : Stored(u) /\ Stored(v) /\ user[u].email = user[v].email => u = v
  /\ \A u, v \in Users :
       user[u].link = user[v].link /\ user[u].link \in Identities => u = v
  /\ \A u \in Users : user[u].password => user[u].link \in {Nobody, Unset}
  /\ \A u \in Users : user[u].link = Unset => user[u].password

\* What a sign-in holds between its statements.
Sound(x) ==
  /\ x.pc # "new" => x.email \in Addresses
  /\ x.pc \in {"exchanged", "update", "by_email", "link", "insert"} => x.id \in Identities
  /\ x.pc \in {"new", "register"} => x.id = Nobody
  /\ x.pc \in {"update", "link"} => x.user \in Users /\ Stored(x.user)
  /\ x.user \in Users => ~Unreadable(x.user)
  /\ x.pc = "update" => x.seen.link = x.id
  /\ x.pc = "link" =>
       ~x.seen.password /\ x.seen.email = x.email /\ ~user[x.user].password

AttemptsSound == \A a \in Attempts : Sound(attempt[a])

VouchedOnce ==
  \A i, j \in Identities : vouched[i] = vouched[j] /\ vouched[i] # NoAddress => i = j

\* An identity's own account carries its link until somebody else is linked to it.
Homes ==
  \A i \in Identities : home[i] # Nobody /\ i \notin displaced => user[home[i]].link = i

\* The strengthening of the invariants that is inductive.
IInv == TypeOK /\ Rows /\ AttemptsSound /\ VouchedOnce /\ Homes

-----------------------------------------------------------------------------
(* Steps that write no row of an account *)

LEMMA FreshSound == Fresh \in Attempt /\ Sound(Fresh)
  BY AccountsAssumption DEF AccountsAssumption, Fresh, Attempt, NoRow, Row, Sound

LEMMA AttemptMoves ==
  ASSUME IInv, NEW a \in Attempts, NEW q \in Attempt, Sound(q),
         attempt' = [attempt EXCEPT ![a] = q],
         UNCHANGED <<user, authkit, vouched, home, displaced>>
  PROVE  IInv'
<1>1. attempt' \in [Attempts -> Attempt]
  BY DEF IInv, TypeOK
<1>2. AttemptsSound'
  <2> SUFFICES ASSUME NEW b \in Attempts PROVE Sound(attempt[b])'
    BY DEF AttemptsSound
  <2>1. CASE b = a
    BY <2>1 DEF IInv, TypeOK, Sound, Stored, Unreadable
  <2>2. CASE b # a
    BY <2>2 DEF IInv, TypeOK, AttemptsSound, Sound, Stored, Unreadable
  <2> QED
    BY <2>1, <2>2
<1>3. Rows' /\ VouchedOnce' /\ Homes'
  BY DEF IInv, Rows, Stored, VouchedOnce, Homes
<1> QED
  BY <1>1, <1>2, <1>3 DEF IInv, TypeOK

LEMMA ReadTyped ==
  ASSUME TypeOK, NEW a \in Attempts, NEW u \in Users, NEW pc \in {"update", "link"},
         Reads(a, pc, u)
  PROVE  \E q \in Attempt :
           /\ attempt' = [attempt EXCEPT ![a] = q]
           /\ q.pc = pc /\ q.user = u /\ q.seen = user[u]
           /\ q.id = attempt[a].id /\ q.email = attempt[a].email
<1> DEFINE q == [attempt[a] EXCEPT !.pc = pc, !.user = u, !.seen = user[u]]
<1>1. attempt[a] \in Attempt /\ user[u] \in Row
  BY DEF TypeOK
<1>2. q \in Attempt
  BY <1>1 DEF Attempt
<1>3. /\ q.pc = pc /\ q.user = u /\ q.seen = user[u]
      /\ q.id = attempt[a].id /\ q.email = attempt[a].email
  BY <1>1 DEF Attempt
<1>4. attempt' = [attempt EXCEPT ![a] = q]
  BY DEF Reads, TypeOK
<1> QED
  BY <1>2, <1>3, <1>4

LEMMA GoTyped ==
  ASSUME TypeOK, NEW a \in Attempts, NEW pc \in {"by_email", "insert"}, Goes(a, pc)
  PROVE  \E q \in Attempt :
           /\ attempt' = [attempt EXCEPT ![a] = q]
           /\ q.pc = pc /\ q.id = attempt[a].id /\ q.email = attempt[a].email
           /\ q.user = attempt[a].user
<1> DEFINE q == [attempt[a] EXCEPT !.pc = pc]
<1>1. attempt[a] \in Attempt
  BY DEF TypeOK
<1>2. /\ q \in Attempt
      /\ q.pc = pc /\ q.id = attempt[a].id /\ q.email = attempt[a].email
      /\ q.user = attempt[a].user
  BY <1>1 DEF Attempt
<1>3. attempt' = [attempt EXCEPT ![a] = q]
  BY DEF Goes, TypeOK
<1> QED
  BY <1>2, <1>3

LEMMA FailKeeps ==
  ASSUME IInv, NEW a \in Attempts, Fails(a)
  PROVE  IInv'
BY FreshSound, AttemptMoves DEF Fails, Ends

LEMMA ExchangeKeeps ==
  ASSUME IInv, NEW a \in Attempts, NEW i \in Identities, Exchange(a, i)
  PROVE  IInv'
<1> DEFINE q == [attempt[a] EXCEPT !.pc = "exchanged", !.id = i, !.email = vouched[i]]
<1>1. attempt[a] \in Attempt /\ vouched[i] \in Addresses
  BY DEF IInv, TypeOK, Exchange
<1>2. q \in Attempt /\ q.pc = "exchanged" /\ q.id = i /\ q.email = vouched[i]
      /\ q.user = attempt[a].user
  BY <1>1 DEF Attempt
<1>3. Sound(q)
  BY <1>1, <1>2 DEF Sound, IInv, AttemptsSound
<1>4. attempt' = [attempt EXCEPT ![a] = q]
  BY DEF Exchange, IInv, TypeOK
<1>5. UNCHANGED <<user, authkit, vouched, home, displaced>>
  BY DEF Exchange
<1> HIDE DEF q
<1> QED
  BY <1>2, <1>3, <1>4, <1>5, AttemptMoves

LEMMA RegisterKeeps ==
  ASSUME IInv, NEW a \in Attempts, Register(a)
  PROVE  IInv'
<1>1. PICK e \in Addresses :
        attempt' = [attempt EXCEPT ![a].pc = "register", ![a].email = e]
  BY DEF Register
<1> DEFINE q == [attempt[a] EXCEPT !.pc = "register", !.email = e]
<1>2. attempt[a] \in Attempt /\ attempt[a].pc = "new"
  BY DEF IInv, TypeOK, Register
<1>3. attempt[a].id = Nobody
  BY <1>2 DEF IInv, AttemptsSound, Sound
<1>4. q \in Attempt /\ q.pc = "register" /\ q.id = Nobody /\ q.email = e
      /\ q.user = attempt[a].user
  BY <1>2, <1>3 DEF Attempt
<1>5. Sound(q)
  BY <1>4 DEF Sound, IInv, AttemptsSound
<1>6. attempt' = [attempt EXCEPT ![a] = q]
  BY <1>1 DEF IInv, TypeOK
<1>7. UNCHANGED <<user, authkit, vouched, home, displaced>>
  BY DEF Register
<1> HIDE DEF q
<1> QED
  BY <1>4, <1>5, <1>6, <1>7, AttemptMoves

LEMMA ByEmailKeeps ==
  ASSUME IInv, NEW a \in Attempts, ByEmail(a)
  PROVE  IInv'
<1>1. attempt[a].email \in Addresses /\ attempt[a].id \in Identities
  BY DEF ByEmail, IInv, AttemptsSound, Sound
<1>2. UNCHANGED <<user, authkit, vouched, home, displaced>>
  BY DEF ByEmail
<1>3. CASE Ends(a)
  BY <1>2, <1>3, FreshSound, AttemptMoves DEF Ends
<1>4. ASSUME NEW u \in WithEmail(attempt[a].email), ~Unreadable(u), ~user[u].password,
             Reads(a, "link", u)
      PROVE  IInv'
  <2>1. u \in Users /\ Stored(u) /\ user[u].email = attempt[a].email
    BY <1>4 DEF WithEmail
  <2>2. PICK q \in Attempt :
           /\ attempt' = [attempt EXCEPT ![a] = q]
           /\ q.pc = "link" /\ q.user = u /\ q.seen = user[u]
           /\ q.id = attempt[a].id /\ q.email = attempt[a].email
    BY <1>4, <2>1, ReadTyped DEF IInv
  <2>3. Sound(q)
    BY <1>1, <1>4, <2>1, <2>2 DEF Sound, Unreadable
  <2> QED
    BY <1>2, <2>2, <2>3, AttemptMoves
<1>5. CASE Goes(a, "insert")
  <2>1. PICK q \in Attempt :
           /\ attempt' = [attempt EXCEPT ![a] = q]
           /\ q.pc = "insert" /\ q.id = attempt[a].id /\ q.email = attempt[a].email
           /\ q.user = attempt[a].user
    BY <1>5, GoTyped DEF IInv
  <2>2. Sound(q)
    BY <1>1, <2>1 DEF Sound, IInv, AttemptsSound
  <2> QED
    BY <1>2, <2>1, <2>2, AttemptMoves
<1> QED
  BY <1>3, <1>4, <1>5 DEF ByEmail

-----------------------------------------------------------------------------
(* Steps that write a row, or answer with a session *)

LEMMA OthersSound ==
  ASSUME IInv, NEW a \in Attempts, Ends(a),
         \A u \in Users : Stored(u) => Stored(u)' /\ user'[u].password = user[u].password,
         \A u \in Users : user'[u].link = Unset => user[u].link = Unset
  PROVE  AttemptsSound' /\ attempt' \in [Attempts -> Attempt]
<1>1. attempt' \in [Attempts -> Attempt]
  BY FreshSound DEF Ends, IInv, TypeOK
<1>2. ASSUME NEW b \in Attempts PROVE Sound(attempt[b])'
  <2>1. CASE b = a
    <3>1. attempt'[b] = Fresh
      BY <2>1 DEF Ends, IInv, TypeOK
    <3> QED
      BY <3>1, AccountsAssumption DEF AccountsAssumption, Sound, Fresh
  <2>2. CASE b # a
    <3>1. attempt'[b] = attempt[b]
      BY <2>2 DEF Ends, IInv, TypeOK
    <3>2. Sound(attempt[b])
      BY DEF IInv, AttemptsSound
    <3> QED
      BY <3>1, <3>2 DEF Sound, Stored, Unreadable
  <2> QED
    BY <2>1, <2>2
<1> QED
  BY <1>1, <1>2 DEF AttemptsSound

LEMMA AnswerKeepsHomes ==
  ASSUME IInv, NEW a \in Attempts, NEW u \in Users, Answers(a, u),
         \A i \in Identities : home[i] # Nobody /\ i \notin displaced => user'[home[i]].link = i
  PROVE  /\ Homes'
         /\ home' \in [Identities -> Users \cup {Nobody}]
         /\ displaced' \subseteq Identities
<1> DEFINE i == attempt[a].id
<1>1. i \in Identities \cup {Nobody}
  BY DEF IInv, TypeOK, Attempt
<1>2. CASE i # Nobody /\ user'[u].link = i
  <2>1. home' = [home EXCEPT ![i] = u] /\ displaced' = displaced \ {i} /\ i \in Identities
    BY <1>1, <1>2 DEF Answers
  <2> QED
    BY <1>2, <2>1 DEF IInv, TypeOK, Homes
<1>3. CASE ~(i # Nobody /\ user'[u].link = i)
  <2>1. UNCHANGED <<home, displaced>>
    BY <1>3 DEF Answers
  <2> QED
    BY <2>1 DEF IInv, TypeOK, Homes
<1> QED
  BY <1>2, <1>3

LEMMA ByIdentityKeeps ==
  ASSUME IInv, NEW a \in Attempts, ByIdentity(a)
  PROVE  IInv'
<1>1. attempt[a].email \in Addresses /\ attempt[a].id \in Identities
  BY DEF ByIdentity, IInv, AttemptsSound, Sound
<1>2. UNCHANGED <<user, authkit, vouched>>
  BY DEF ByIdentity, Answers
<1>3. ASSUME NEW u \in WithLink(attempt[a].id), Reads(a, "update", u), UNCHANGED <<home, displaced>>
      PROVE  IInv'
  <2>1. u \in Users /\ Stored(u) /\ user[u].link = attempt[a].id
    BY <1>3 DEF WithLink
  <2>2. PICK q \in Attempt :
           /\ attempt' = [attempt EXCEPT ![a] = q]
           /\ q.pc = "update" /\ q.user = u /\ q.seen = user[u]
           /\ q.id = attempt[a].id /\ q.email = attempt[a].email
    BY <1>3, <2>1, ReadTyped DEF IInv
  <2>3. Sound(q)
    BY <1>1, <2>1, <2>2, AccountsAssumption DEF AccountsAssumption, Sound, Unreadable
  <2> QED
    BY <1>2, <1>3, <2>2, <2>3, AttemptMoves
<1>4. ASSUME NEW u \in WithLink(attempt[a].id), Answers(a, u)
      PROVE  IInv'
  <2>1. u \in Users
    BY <1>4 DEF WithLink
  <2>2. \A i \in Identities : home[i] # Nobody /\ i \notin displaced => user'[home[i]].link = i
    BY <1>2 DEF IInv, Homes
  <2>3. /\ Homes' /\ home' \in [Identities -> Users \cup {Nobody}]
        /\ displaced' \subseteq Identities
    BY <1>4, <2>1, <2>2, AnswerKeepsHomes
  <2>4. AttemptsSound' /\ attempt' \in [Attempts -> Attempt]
    BY <1>2, <1>4, OthersSound DEF Answers, Stored
  <2>5. Rows' /\ VouchedOnce'
    BY <1>2 DEF IInv, Rows, Stored, VouchedOnce
  <2> QED
    BY <1>2, <2>3, <2>4, <2>5 DEF IInv, TypeOK
<1>5. CASE Goes(a, "by_email") /\ UNCHANGED <<home, displaced>>
  <2>1. PICK q \in Attempt :
           /\ attempt' = [attempt EXCEPT ![a] = q]
           /\ q.pc = "by_email" /\ q.id = attempt[a].id /\ q.email = attempt[a].email
           /\ q.user = attempt[a].user
    BY <1>5, GoTyped DEF IInv
  <2>2. Sound(q)
    BY <1>1, <2>1 DEF Sound, IInv, AttemptsSound
  <2> QED
    BY <1>2, <1>5, <2>1, <2>2, AttemptMoves
<1> QED
  BY <1>3, <1>4, <1>5 DEF ByIdentity

LEMMA UpdateProfileKeeps ==
  ASSUME IInv, NEW a \in Attempts, UpdateProfile(a)
  PROVE  IInv'
<1> DEFINE u == attempt[a].user  e == attempt[a].email
<1>1. CASE WithEmail(e) \ {u} # {}
  BY <1>1, FailKeeps DEF UpdateProfile
<1>2. CASE WithEmail(e) \ {u} = {}
  <2>1. e \in Addresses /\ u \in Users /\ Stored(u)
    BY DEF UpdateProfile, IInv, AttemptsSound, Sound
  <2>2. /\ user' = [user EXCEPT ![u].email = e] /\ Answers(a, u)
        /\ UNCHANGED <<authkit, vouched>>
    BY <1>2 DEF UpdateProfile
  <2>3. [user[u] EXCEPT !.email = e] \in Row
    BY <2>1 DEF IInv, TypeOK, Row
  <2>4. user' \in [Users -> Row]
    BY <2>1, <2>2, <2>3 DEF IInv, TypeOK
  <2>5. \A v \in Users :
          /\ user'[v].email = IF v = u THEN e ELSE user[v].email
          /\ user'[v].password = user[v].password /\ user'[v].link = user[v].link
    BY <2>1, <2>2 DEF IInv, TypeOK, Row
  <2>6. \A v \in Users : v # u => user'[v] = user[v]
    BY <2>2 DEF IInv, TypeOK
  <2>7. user'[u] # NoRow
    BY <2>1, <2>5, AccountsAssumption DEF AccountsAssumption, Stored, NoRow
  <2>8. \A v \in Users : Stored(v)' <=> Stored(v)
    BY <2>1, <2>6, <2>7 DEF Stored
  <2>9. \A v \in Users : Stored(v) /\ user[v].email = e => v = u
    BY <1>2 DEF WithEmail
  <2>10. Rows'
    <3>1. (\A v \in Users : Stored(v) => user[v].email \in Addresses)'
      BY <2>1, <2>5, <2>8 DEF IInv, Rows
    <3>2. (\A v, w \in Users :
            Stored(v) /\ Stored(w) /\ user[v].email = user[w].email => v = w)'
      BY <2>5, <2>8, <2>9 DEF IInv, Rows
    <3>3. (\A v, w \in Users :
             user[v].link = user[w].link /\ user[v].link \in Identities => v = w)'
      BY <2>5 DEF IInv, Rows
    <3>4. /\ (\A v \in Users : user[v].password => user[v].link \in {Nobody, Unset})'
          /\ (\A v \in Users : user[v].link = Unset => user[v].password)'
      BY <2>5 DEF IInv, Rows
    <3> QED
      BY <3>1, <3>2, <3>3, <3>4 DEF Rows
  <2>11. \A i \in Identities : home[i] # Nobody /\ i \notin displaced => user'[home[i]].link = i
    BY <2>5 DEF IInv, TypeOK, Homes
  <2>12. /\ Homes' /\ home' \in [Identities -> Users \cup {Nobody}]
         /\ displaced' \subseteq Identities
    BY <2>1, <2>2, <2>11, AnswerKeepsHomes
  <2>13. AttemptsSound' /\ attempt' \in [Attempts -> Attempt]
    BY <2>2, <2>5, <2>8, OthersSound DEF Answers
  <2>14. VouchedOnce'
    BY <2>2, <2>5 DEF IInv, VouchedOnce
  <2> QED
    BY <2>2, <2>4, <2>10, <2>12, <2>13, <2>14 DEF IInv, TypeOK
<1> QED
  BY <1>1, <1>2

LEMMA LinkKeeps ==
  ASSUME IInv, NEW a \in Attempts, Link(a)
  PROVE  IInv'
<1> DEFINE u == attempt[a].user  i == attempt[a].id
<1>1. CASE WithLink(i) \ {u} # {}
  BY <1>1, FailKeeps DEF Link
<1>2. CASE WithLink(i) \ {u} = {}
  <2>1. i \in Identities /\ u \in Users /\ Stored(u) /\ ~user[u].password
    BY DEF Link, IInv, AttemptsSound, Sound
  <2>2. /\ user' = [user EXCEPT ![u].link = i] /\ Ends(a)
        /\ home' = [home EXCEPT ![i] = u]
        /\ displaced' = (displaced \cup {user[u].link}) \ {i, Nobody}
        /\ UNCHANGED <<authkit, vouched>>
    BY <1>2 DEF Link
  <2>3. user[u].link \in Identities \cup {Nobody}
    BY <2>1 DEF IInv, TypeOK, Row, Rows
  <2>4. [user[u] EXCEPT !.link = i] \in Row
    BY <2>1 DEF IInv, TypeOK, Row
  <2>5. user' \in [Users -> Row]
    BY <2>1, <2>2, <2>4 DEF IInv, TypeOK
  <2>6. \A v \in Users :
          /\ user'[v].link = IF v = u THEN i ELSE user[v].link
          /\ user'[v].password = user[v].password /\ user'[v].email = user[v].email
    BY <2>1, <2>2 DEF IInv, TypeOK, Row
  <2>7. \A v \in Users : v # u => user'[v] = user[v]
    BY <2>2 DEF IInv, TypeOK
  <2>8. user'[u] # NoRow
    BY <2>1, <2>6, AccountsAssumption DEF AccountsAssumption, Stored, NoRow
  <2>9. \A v \in Users : Stored(v)' <=> Stored(v)
    BY <2>1, <2>7, <2>8 DEF Stored
  <2>10. \A v \in Users : user[v].link = i => v = u
    BY <1>2, <2>1, AccountsAssumption DEF AccountsAssumption, WithLink, Stored, NoRow
  <2>11. Rows'
    <3>1. (\A v \in Users : Stored(v) => user[v].email \in Addresses)'
      BY <2>6, <2>9 DEF IInv, Rows
    <3>2. (\A v, w \in Users :
            Stored(v) /\ Stored(w) /\ user[v].email = user[w].email => v = w)'
      BY <2>6, <2>9 DEF IInv, Rows
    <3>3. (\A v, w \in Users :
             user[v].link = user[w].link /\ user[v].link \in Identities => v = w)'
      BY <2>6, <2>10 DEF IInv, Rows
    <3>4. /\ (\A v \in Users : user[v].password => user[v].link \in {Nobody, Unset})'
          /\ (\A v \in Users : user[v].link = Unset => user[v].password)'
      BY <2>1, <2>6, AccountsAssumption DEF AccountsAssumption, IInv, Rows
    <3> QED
      BY <3>1, <3>2, <3>3, <3>4 DEF Rows
  <2>12. Homes'
    <3> SUFFICES ASSUME NEW j \in Identities, home'[j] # Nobody, j \notin displaced'
                 PROVE  user'[home'[j]].link = j
      BY DEF Homes
    <3>1. CASE j = i
      BY <2>1, <2>2, <2>6, <3>1 DEF IInv, TypeOK
    <3>2. CASE j # i
      <4>1. home'[j] = home[j] /\ home[j] \in Users /\ home[j] # Nobody
        BY <2>2, <3>2 DEF IInv, TypeOK
      <4>2. j \notin displaced /\ j # user[u].link
        BY <2>2, <3>2, AccountsAssumption DEF AccountsAssumption
      <4>3. user[home[j]].link = j
        BY <4>1, <4>2 DEF IInv, Homes
      <4> QED
        BY <2>6, <4>1, <4>2, <4>3
    <3> QED
      BY <3>1, <3>2
  <2>13. home' \in [Identities -> Users \cup {Nobody}] /\ displaced' \subseteq Identities
    BY <2>1, <2>2, <2>3 DEF IInv, TypeOK
  <2>14. AttemptsSound' /\ attempt' \in [Attempts -> Attempt]
    <3>1. \A v \in Users : user'[v].link = Unset => user[v].link = Unset
      BY <2>1, <2>6, AccountsAssumption DEF AccountsAssumption
    <3> QED
      BY <2>2, <2>6, <2>9, <3>1, OthersSound
  <2>15. VouchedOnce'
    BY <2>2 DEF IInv, VouchedOnce
  <2> QED
    BY <2>2, <2>5, <2>11, <2>12, <2>13, <2>14, <2>15 DEF IInv, TypeOK
<1> QED
  BY <1>1, <1>2

LEMMA InsertKeeps ==
  ASSUME IInv, NEW a \in Attempts, Insert(a)
  PROVE  IInv'
<1> DEFINE x == attempt[a]
<1>1. CASE Taken(a) /\ Fails(a)
  BY <1>1, FailKeeps
<1>2. ASSUME ~Taken(a), NEW u \in Users, ~Stored(u),
             user' = [user EXCEPT ![u] = [email |-> x.email, link |-> x.id,
                                          password |-> x.pc = "register"]],
             Answers(a, u), UNCHANGED <<authkit, vouched>>
      PROVE  IInv'
  <2>1. /\ x.email \in Addresses /\ x.id \in Identities \cup {Nobody}
        /\ x.pc \in {"insert", "register"} /\ x.pc = "register" => x.id = Nobody
    BY DEF Insert, IInv, AttemptsSound, Sound, TypeOK, Attempt
  <2> DEFINE row == [email |-> x.email, link |-> x.id, password |-> x.pc = "register"]
  <2>2. row \in Row
    BY <2>1 DEF Row
  <2>3. /\ row.email = x.email /\ row.link = x.id
        /\ row.password => row.link = Nobody
    BY <2>1
  <2>4. user' \in [Users -> Row] /\ \A v \in Users : user'[v] = IF v = u THEN row ELSE user[v]
    BY <1>2, <2>2 DEF IInv, TypeOK
  <2> HIDE DEF row
  <2>5. user[u] = NoRow
    BY <1>2 DEF Stored
  <2>6. Stored(u)'
    BY <2>1, <2>3, <2>4, AccountsAssumption DEF AccountsAssumption, Stored, NoRow
  <2>7. \A v \in Users : Stored(v)' <=> (v = u \/ Stored(v))
    BY <2>4, <2>6 DEF Stored
  <2>8. \A v \in Users : Stored(v) => user[v].email # x.email
    BY <1>2 DEF Taken, WithEmail
  <2>9. x.id \in Identities => \A v \in Users : user[v].link # x.id
    <3> SUFFICES ASSUME x.id \in Identities, NEW v \in Users, user[v].link = x.id PROVE FALSE
      OBVIOUS
    <3>1. x.id # Nobody
      BY AccountsAssumption DEF AccountsAssumption
    <3>2. Stored(v)
      BY <3>1 DEF Stored, NoRow
    <3> QED
      BY <1>2, <3>1, <3>2 DEF Taken, WithLink
  <2>10. Rows'
    <3>1. (\A v \in Users : Stored(v) => user[v].email \in Addresses)'
      BY <2>1, <2>3, <2>4, <2>7 DEF IInv, Rows
    <3>2. (\A v, w \in Users :
            Stored(v) /\ Stored(w) /\ user[v].email = user[w].email => v = w)'
      BY <2>3, <2>4, <2>7, <2>8 DEF IInv, Rows
    <3>3. (\A v, w \in Users :
             user[v].link = user[w].link /\ user[v].link \in Identities => v = w)'
      BY <2>3, <2>4, <2>9 DEF IInv, Rows
    <3>4. /\ (\A v \in Users : user[v].password => user[v].link \in {Nobody, Unset})'
          /\ (\A v \in Users : user[v].link = Unset => user[v].password)'
      BY <2>1, <2>3, <2>4, AccountsAssumption DEF AccountsAssumption, IInv, Rows
    <3> QED
      BY <3>1, <3>2, <3>3, <3>4 DEF Rows
  <2>11. \A j \in Identities : home[j] # Nobody /\ j \notin displaced => user'[home[j]].link = j
    <3> SUFFICES ASSUME NEW j \in Identities, home[j] # Nobody, j \notin displaced
                 PROVE  user'[home[j]].link = j
      OBVIOUS
    <3>1. home[j] \in Users /\ user[home[j]].link = j
      BY DEF IInv, TypeOK, Homes
    <3>2. home[j] # u
      BY <2>5, <3>1, AccountsAssumption DEF AccountsAssumption, NoRow
    <3> QED
      BY <2>4, <3>1, <3>2
  <2>12. /\ Homes' /\ home' \in [Identities -> Users \cup {Nobody}]
         /\ displaced' \subseteq Identities
    BY <1>2, <2>11, AnswerKeepsHomes
  <2>13. AttemptsSound' /\ attempt' \in [Attempts -> Attempt]
    <3>1. \A v \in Users : Stored(v) => Stored(v)' /\ user'[v].password = user[v].password
      BY <1>2, <2>4, <2>7
    <3>2. \A v \in Users : user'[v].link = Unset => user[v].link = Unset
      BY <2>1, <2>3, <2>4, AccountsAssumption DEF AccountsAssumption
    <3> QED
      BY <1>2, <3>1, <3>2, OthersSound DEF Answers
  <2>14. VouchedOnce'
    BY <1>2 DEF IInv, VouchedOnce
  <2> QED
    BY <1>2, <2>4, <2>10, <2>12, <2>13, <2>14 DEF IInv, TypeOK
<1> QED
  BY <1>1, <1>2 DEF Insert

-----------------------------------------------------------------------------
LEMMA InitHolds == Init => IInv
<1> SUFFICES ASSUME Init PROVE IInv
  OBVIOUS
<1>1. PICK old \in SUBSET Users, e \in Addresses :
        /\ \A u, v \in old : u = v
        /\ user = [u \in Users |-> IF u \in old
                    THEN [email |-> e, password |-> TRUE, link |-> Unset] ELSE NoRow]
  BY DEF Init
<1> DEFINE row == [email |-> e, password |-> TRUE, link |-> Unset]
<1>2. row \in Row /\ NoRow \in Row
  BY DEF Row, NoRow
<1>3. \A u \in Users : user[u] = IF u \in old THEN row ELSE NoRow
  BY <1>1
<1>4. TypeOK
  BY <1>1, <1>2, FreshSound DEF Init, TypeOK
<1>5. row.email = e /\ row.password /\ row.link = Unset
  OBVIOUS
<1>6. NoRow.link = Nobody /\ ~NoRow.password
  BY DEF NoRow
<1> HIDE DEF row
<1>7. Rows
  BY <1>1, <1>3, <1>5, <1>6, AccountsAssumption DEF AccountsAssumption, Rows, Stored
<1>8. AttemptsSound
  BY FreshSound DEF Init, AttemptsSound
<1>9. VouchedOnce /\ Homes
  BY DEF Init, VouchedOnce, Homes
<1> QED
  BY <1>4, <1>7, <1>8, <1>9 DEF IInv

LEMMA NextKeeps == IInv /\ [Next]_vars => IInv'
<1> SUFFICES ASSUME IInv, [Next]_vars PROVE IInv'
  OBVIOUS
<1>1. CASE Reconfigure
  <2>1. AttemptsSound' /\ attempt' \in [Attempts -> Attempt]
    <3>1. attempt' = [b \in Attempts |-> Fresh]
      BY <1>1 DEF Reconfigure
    <3>2. \A b \in Attempts : Sound(attempt[b])'
      BY <3>1, AccountsAssumption DEF AccountsAssumption, Sound, Fresh
    <3> QED
      BY <3>1, <3>2, FreshSound DEF AttemptsSound
  <2>2. Rows' /\ VouchedOnce' /\ Homes'
    BY <1>1
    DEF Reconfigure, IInv, Rows, Stored, VouchedOnce, Homes
  <2> QED
    BY <1>1, <2>1, <2>2 DEF Reconfigure, IInv, TypeOK
<1>2. ASSUME NEW i \in Identities, ChangeAddress(i) PROVE IInv'
  <2>1. VouchedOnce' /\ vouched' \in [Identities -> Addresses \cup {NoAddress}]
    <3>1. PICK e \in Addresses \cup {NoAddress} :
            /\ e = NoAddress \/ \A j \in Identities : vouched[j] # e
            /\ vouched' = [vouched EXCEPT ![i] = e]
      BY <1>2 DEF ChangeAddress
    <3> QED
      BY <3>1 DEF IInv, TypeOK, VouchedOnce
  <2>2. Rows' /\ AttemptsSound' /\ Homes'
    BY <1>2
    DEF ChangeAddress, IInv, Rows, AttemptsSound, Sound, Stored, Homes, Unreadable
  <2> QED
    BY <1>2, <2>1, <2>2 DEF ChangeAddress, IInv, TypeOK
<1>3. CASE \E a \in Attempts : Register(a) \/ Callback(a) \/ \E i \in Identities : Exchange(a, i)
  BY <1>3, RegisterKeeps, ByIdentityKeeps, UpdateProfileKeeps, ByEmailKeeps, LinkKeeps,
     InsertKeeps, ExchangeKeeps DEF Callback
<1>4. CASE UNCHANGED vars
  BY <1>4 DEF vars, IInv, TypeOK, Rows, Stored, AttemptsSound, Sound, VouchedOnce, Homes,
              Unreadable
<1> QED
  BY <1>1, <1>2, <1>3, <1>4 DEF Next

LEMMA Inductive == Spec => []IInv
  BY InitHolds, NextKeeps, PTL DEF Spec

LEMMA AtMostOne ==
  ASSUME NEW S, \A u, v \in S : u = v
  PROVE  Cardinality(S) <= 1
<1>1. CASE S = {}
  BY <1>1, FS_EmptySet
<1>2. ASSUME NEW u \in S PROVE Cardinality(S) <= 1
  <2>1. S = {u}
    BY <1>2
  <2>2. Cardinality({u}) = 1
    BY FS_Singleton
  <2> QED
    BY <2>1, <2>2
<1> QED
  BY <1>1, <1>2

\* One account for an address and for an identity, no other way into one with a
\* password, and no sign-in that gets hold of an account older than migration 9
\* (the indexes of users, auth.go, users.go).
THEOREM AccountsSound == Spec => []AccountsInv
<1>1. IInv => AccountsInv
  <2> SUFFICES ASSUME IInv PROVE AccountsInv
    OBVIOUS
  <2>1. \A e \in Addresses : Cardinality(WithEmail(e)) <= 1
    BY AtMostOne DEF WithEmail, IInv, Rows
  <2>2. \A i \in Identities : Cardinality(WithLink(i)) <= 1
    BY AtMostOne DEF WithLink, IInv, Rows
  <2>3. \A u \in Users : Unreadable(u) =>
          user[u].password /\ \A a \in Attempts : attempt[a].user # u
    BY DEF Unreadable, IInv, Rows, AttemptsSound, Sound
  <2> QED
    BY <2>1, <2>2, <2>3 DEF AccountsInv, IInv, Rows
<1> QED
  BY <1>1, Inductive, PTL

\* Whoever signs in again comes to the same account, unless it was linked to someone
\* else meanwhile (WorkOSCallback).
THEOREM SignInsReturn == Spec => SameAccountAgain
<1>1. IInv /\ [Next]_vars =>
        [\A i \in Identities : home[i] # Nobody /\ home'[i] # home[i] => i \in displaced]_vars
  <2> SUFFICES ASSUME IInv, Next, NEW i \in Identities, home[i] # Nobody, home'[i] # home[i],
                      i \notin displaced
               PROVE  FALSE
    OBVIOUS
  <2>1. home[i] \in Users /\ user[home[i]].link = i
    BY DEF IInv, TypeOK, Homes
  <2>2. Stored(home[i])
    BY <2>1, AccountsAssumption DEF AccountsAssumption, Stored, NoRow
  <2>3. ASSUME NEW a \in Attempts, NEW u \in Users, Answers(a, u) PROVE attempt[a].id = i /\ user'[u].link = i /\ home'[i] = u
    BY <2>3 DEF Answers, IInv, TypeOK, Attempt
  <2>4. ASSUME NEW a \in Attempts, ByIdentity(a) PROVE FALSE
    <3>1. PICK u \in WithLink(attempt[a].id) : UNCHANGED user /\ Answers(a, u)
      BY <2>4 DEF ByIdentity
    <3>2. u \in Users
      BY DEF WithLink
    <3> QED
      BY <2>1, <2>3, <3>1, <3>2 DEF IInv, Rows
  <2>5. ASSUME NEW a \in Attempts, UpdateProfile(a) PROVE FALSE
    <3> DEFINE u == attempt[a].user
    <3>1. u \in Users
      BY <2>5 DEF UpdateProfile, IInv, AttemptsSound, Sound
    <3>2. user' = [user EXCEPT ![u].email = attempt[a].email] /\ Answers(a, u)
      BY <2>5 DEF UpdateProfile, Fails
    <3>3. user'[u].link = user[u].link
      BY <3>1, <3>2 DEF IInv, TypeOK, Row
    <3> QED
      BY <2>1, <2>3, <3>1, <3>2, <3>3 DEF IInv, Rows
  <2>6. ASSUME NEW a \in Attempts, Link(a) PROVE FALSE
    <3> DEFINE u == attempt[a].user
    <3>1. attempt[a].id = i /\ home'[i] = u /\ WithLink(i) \ {u} = {}
      BY <2>6 DEF Link, Fails, IInv, TypeOK, Attempt
    <3> QED
      BY <2>1, <2>2, <3>1 DEF WithLink
  <2>7. ASSUME NEW a \in Attempts, Insert(a) PROVE FALSE
    <3>1. PICK u \in Users : ~Taken(a) /\ Answers(a, u)
      BY <2>7 DEF Insert, Fails
    <3>2. attempt[a].id = i
      BY <2>3, <3>1
    <3> QED
      BY <2>1, <2>2, <3>1, <3>2, AccountsAssumption
      DEF AccountsAssumption, Taken, WithLink
  <2>8. UNCHANGED home \/ \E a \in Attempts : Callback(a)
    BY DEF Next, Reconfigure, ChangeAddress, Register, Exchange
  <2>9. ASSUME NEW a \in Attempts, ByEmail(a) PROVE FALSE
    BY <2>9 DEF ByEmail
  <2> QED
    BY <2>4, <2>5, <2>6, <2>7, <2>8, <2>9 DEF Callback
<1> QED
  BY <1>1, Inductive, PTL DEF Spec, SameAccountAgain

\* Only a sign-in whose reading is out of date can write into an account that is
\* neither linked to its identity nor at its address alone (UpsertFromWorkOS, LinkWorkOSUser).
THEOREM SignInsKeepToTheirs == Spec => OnlyOutdatedSignInsCross
<1> DEFINE Own(u, a) ==
      /\ attempt[a].user = u /\ attempt[a].pc \in {"update", "link"}
      /\ \/ user[u].link = attempt[a].id
         \/ /\ ~user[u].password /\ user[u].email = attempt[a].email
            /\ user[u].link # Nobody => vouched[user[u].link] # user[u].email
         \/ Outdated(a)
<1>1. IInv /\ [Next]_vars =>
        [\A u \in Users : Stored(u) /\ user'[u] # user[u] => \E a \in Attempts : Own(u, a)]_vars
  <2> SUFFICES ASSUME IInv, Next, NEW u \in Users, Stored(u), user'[u] # user[u]
               PROVE  \E a \in Attempts : Own(u, a)
    OBVIOUS
  <2>1. ASSUME NEW a \in Attempts, UpdateProfile(a) PROVE Own(u, a)
    <3>1. user' = [user EXCEPT ![attempt[a].user].email = attempt[a].email]
      BY <2>1 DEF UpdateProfile, Fails
    <3>2. attempt[a].user = u /\ attempt[a].pc = "update"
      BY <2>1, <3>1 DEF UpdateProfile, IInv, TypeOK
    <3>3. attempt[a].seen.link = attempt[a].id
      BY <3>2 DEF IInv, AttemptsSound, Sound
    <3> QED
      BY <3>2, <3>3 DEF Outdated
  <2>2. ASSUME NEW a \in Attempts, Link(a) PROVE Own(u, a)
    <3>1. user' = [user EXCEPT ![attempt[a].user].link = attempt[a].id]
      BY <2>2 DEF Link, Fails
    <3>2. attempt[a].user = u /\ attempt[a].pc = "link"
      BY <2>2, <3>1 DEF Link, IInv, TypeOK
    <3>3. /\ ~attempt[a].seen.password /\ attempt[a].seen.email = attempt[a].email
          /\ ~user[u].password /\ attempt[a].id \in Identities /\ attempt[a].email \in Addresses
      BY <3>2 DEF IInv, AttemptsSound, Sound
    <3>4. user[u].link \in Identities \cup {Nobody}
      BY <3>3 DEF IInv, TypeOK, Row, Rows
    <3>5. CASE ~Outdated(a)
      <4>1. user[u] = attempt[a].seen /\ vouched[attempt[a].id] = attempt[a].email
        BY <3>2, <3>5 DEF Outdated
      <4>2. ASSUME user[u].link \in Identities, vouched[user[u].link] = user[u].email
            PROVE  user[u].link = attempt[a].id
        BY <3>3, <4>1, <4>2, AccountsAssumption
        DEF AccountsAssumption, IInv, VouchedOnce
      <4> QED
        BY <3>2, <3>3, <3>4, <4>1, <4>2
    <3> QED
      BY <3>2, <3>5
  <2>3. ASSUME NEW a \in Attempts, Insert(a) PROVE FALSE
    BY <2>3 DEF Insert, Fails, IInv, TypeOK
  <2>4. \E a \in Attempts : UpdateProfile(a) \/ Link(a) \/ Insert(a)
    BY DEF Next, Reconfigure, ChangeAddress, Register, Exchange, Callback,
           ByIdentity, ByEmail
  <2> QED
    BY <2>1, <2>2, <2>3, <2>4
<1> QED
  BY <1>1, Inductive, PTL DEF Spec, OnlyOutdatedSignInsCross

-----------------------------------------------------------------------------
(* Sessions, the tokens a sign-in ends with. *)

\* What a request has learnt of its token still holds when it goes on.
RequestsKnow ==
  \A r \in Requests :
    /\ req[r].pc \in {"parsed", "signing_out"} => exp[req[r].token] > 0
    /\ req[r].pc = "parsed" /\ req[r].late => req[r].token \in signedOut

SessionsIInv ==
  /\ SessionsTypeOK /\ RevocationKept /\ RequestsKnow

\* generateToken: whole seconds.
LEMMA WholeSeconds ==
  ASSUME NEW n \in Nat
  PROVE  /\ (n \div Second) * Second \in Nat
         /\ ((n \div Second) * Second) % Second = 0
<1>1. Second \in Nat /\ Second > 0
  BY SessionsAssumption DEF SessionsAssumption
<1>2. n \div Second \in Nat
  BY <1>1
<1> DEFINE q == n \div Second
<1>3. q * Second \in Nat
  BY <1>1, <1>2
<1>4. (q * Second) % Second = 0
  BY <1>1, <1>2, SMTT(30)
<1> QED
  BY <1>3, <1>4

LEMMA SessionsInitHolds == SessionsInit => SessionsIInv
<1> SUFFICES ASSUME SessionsInit PROVE SessionsIInv
  OBVIOUS
<1>1. req \in [Requests -> Request] /\ RequestsKnow
  <2>1. \A r \in Requests : req[r] \in Request /\ req[r].pc = "new"
    BY DEF SessionsInit, Request
  <2> QED
    BY <2>1 DEF SessionsInit, RequestsKnow
<1>2. 0 % Second = 0 /\ clock \in 0..MaxTime /\ rested \in 0..PurgeEvery
  BY SessionsAssumption DEF SessionsAssumption, SessionsInit
<1> QED
  BY <1>1, <1>2 DEF SessionsInit, SessionsIInv, SessionsTypeOK, RevocationKept

\* A request goes on with what it knows, and nothing else changes.
LEMMA RequestGoes ==
  ASSUME SessionsIInv, NEW r \in Requests,
         NEW pc \in {"parsed", "signing_out", "accepted", "refused"}, NEW late \in BOOLEAN,
         req' = [req EXCEPT ![r].pc = pc, ![r].late = late],
         pc \in {"parsed", "signing_out"} => exp[req[r].token] > 0,
         pc = "parsed" /\ late => req[r].token \in signedOut,
         UNCHANGED <<clock, rested, exp, revoked, signedOut>>
  PROVE  SessionsIInv'
<1>1. req' \in [Requests -> Request]
  BY DEF SessionsIInv, SessionsTypeOK, Request
<1>2. SessionsTypeOK'
  BY <1>1 DEF SessionsIInv, SessionsTypeOK
<1>3. RequestsKnow'
  BY DEF SessionsIInv, SessionsTypeOK, Request, RequestsKnow
<1> QED
  BY <1>2, <1>3 DEF SessionsIInv, RevocationKept, Valid

LEMMA SessionsNextKeeps == SessionsIInv /\ [SessionsNext]_sessionVars => SessionsIInv'
<1> SUFFICES ASSUME SessionsIInv, [SessionsNext]_sessionVars PROVE SessionsIInv'
  OBVIOUS
<1> USE DEF SessionsIInv
<1>1. CASE Tick
  <2>1. clock' \in 0..MaxTime /\ clock' >= clock /\ rested' \in 0..PurgeEvery
    BY <1>1, SessionsAssumption DEF SessionsAssumption, Tick, SessionsTypeOK
  <2>2. SessionsTypeOK' /\ RequestsKnow'
    BY <1>1, <2>1 DEF Tick, SessionsTypeOK, RequestsKnow
  <2>3. RevocationKept'
    BY <1>1, <2>1 DEF Tick, SessionsTypeOK, RevocationKept, Valid
  <2> QED
    BY <2>2, <2>3
<1>2. CASE PurgeExpiredRevocations
  <2>1. \A t \in Tokens : Valid(t) /\ t \in revoked => t \in revoked'
    BY <1>2, SessionsAssumption
    DEF SessionsAssumption, PurgeExpiredRevocations, Valid, SessionsTypeOK
  <2>2. SessionsTypeOK' /\ RequestsKnow'
    BY <1>2 DEF PurgeExpiredRevocations, SessionsTypeOK, RequestsKnow
  <2>3. RevocationKept'
    BY <1>2, <2>1
    DEF PurgeExpiredRevocations, SessionsTypeOK, RevocationKept, Valid
  <2> QED
    BY <2>2, <2>3
<1>3. CASE Restart
  BY <1>3, SessionsAssumption
  DEF SessionsAssumption, Restart, SessionsTypeOK, RequestsKnow, RevocationKept, Valid
<1>4. ASSUME NEW t \in Tokens, SignIn(t) PROVE SessionsIInv'
  <2>1. clock + TTL \in Nat
    BY SessionsAssumption DEF SessionsAssumption, SessionsTypeOK
  <2>2. PICK x \in Nat : exp' = [exp EXCEPT ![t] = x] /\ x % Second = 0
    BY <1>4, <2>1, WholeSeconds DEF SignIn
  <2>3. t \notin revoked \cup signedOut
    BY <1>4 DEF SignIn, SessionsTypeOK
  <2>4. SessionsTypeOK'
    BY <1>4, <2>2, <2>3 DEF SignIn, SessionsTypeOK
  <2>5. RevocationKept'
    BY <1>4, <2>2, <2>3 DEF SignIn, SessionsTypeOK, RevocationKept, Valid
  <2>6. RequestsKnow'
    BY <1>4, <2>2 DEF SignIn, SessionsTypeOK, Request, RequestsKnow
  <2> QED
    BY <2>4, <2>5, <2>6
<1>5. ASSUME NEW r \in Requests, Parse(r) PROVE SessionsIInv'
  <2> DEFINE pc == IF Valid(req[r].token) THEN "parsed" ELSE "refused"
             late == req[r].token \in signedOut
  <2>1. pc \in {"parsed", "signing_out", "accepted", "refused"} /\ late \in BOOLEAN
    OBVIOUS
  <2>2. req' = [req EXCEPT ![r].pc = pc, ![r].late = late]
    BY <1>5 DEF Parse
  <2>3. exp[req[r].token] > 0 /\ UNCHANGED <<clock, rested, exp, revoked, signedOut>>
    BY <1>5 DEF Parse
  <2> HIDE DEF pc
  <2> QED
    BY <2>1, <2>2, <2>3, RequestGoes
<1>6. ASSUME NEW r \in Requests,
             SessionActive(r) \/ Unavailable(r)
      PROVE  SessionsIInv'
  <2>1. PICK pc \in {"accepted", "refused"} : req' = [req EXCEPT ![r].pc = pc]
    BY <1>6 DEF SessionActive, Unavailable, Proceeds
  <2>2. req' = [req EXCEPT ![r].pc = pc, ![r].late = req[r].late] /\ req[r].late \in BOOLEAN
    BY <2>1 DEF SessionsTypeOK, Request
  <2> QED
    BY <1>6, <2>2, RequestGoes DEF SessionActive, Unavailable
<1>7. ASSUME NEW r \in Requests, Logout(r) PROVE SessionsIInv'
  <2> DEFINE t == req[r].token
  <2>1. t \in Tokens /\ req[r].late \in BOOLEAN /\ exp[t] > 0
    BY <1>7 DEF Logout, SessionsTypeOK, Request
  <2>2. CASE Valid(t)
    <3>1. req' = [req EXCEPT ![r].pc = "signing_out", ![r].late = req[r].late]
      BY <1>7, <2>2 DEF Logout, Proceeds, SessionsTypeOK, Request
    <3> QED
      BY <1>7, <2>1, <2>2, <3>1, RequestGoes DEF Logout
  <2>3. CASE ~Valid(t)
    <3>1. req' = [req EXCEPT ![r].pc = "accepted"] /\ signedOut' = signedOut \cup {t}
      BY <1>7, <2>3 DEF Logout, Proceeds
    <3>2. req' \in [Requests -> Request]
      BY <3>1 DEF SessionsTypeOK, Request
    <3>3. SessionsTypeOK'
      BY <1>7, <2>1, <3>1, <3>2 DEF Logout, SessionsTypeOK
    <3>4. RevocationKept'
      BY <1>7, <2>3, <3>1 DEF Logout, RevocationKept, Valid
    <3>5. RequestsKnow'
      BY <1>7, <3>1 DEF Logout, SessionsTypeOK, Request, RequestsKnow
    <3> QED
      BY <3>3, <3>4, <3>5
  <2> QED
    BY <2>2, <2>3
<1>8. ASSUME NEW r \in Requests, RevokeSession(r) PROVE SessionsIInv'
  <2> DEFINE t == req[r].token
  <2>1. t \in Tokens /\ req[r].late \in BOOLEAN /\ exp[t] > 0
    BY <1>8 DEF RevokeSession, SessionsTypeOK, Request, RequestsKnow
  <2>2. CASE UNCHANGED <<revoked, signedOut>> /\ Proceeds(r, "refused")
    <3>1. req' = [req EXCEPT ![r].pc = "refused", ![r].late = req[r].late]
      BY <2>2 DEF Proceeds, SessionsTypeOK, Request
    <3> QED
      BY <1>8, <2>1, <2>2, <3>1, RequestGoes DEF RevokeSession
  <2>3. CASE /\ Proceeds(r, "accepted")
             /\ revoked' = revoked \cup {t} /\ signedOut' = signedOut \cup {t}
    <3>1. req' \in [Requests -> Request]
      BY <2>3 DEF Proceeds, SessionsTypeOK, Request
    <3>2. SessionsTypeOK'
      BY <1>8, <2>1, <2>3, <3>1 DEF RevokeSession, SessionsTypeOK
    <3>3. RevocationKept'
      BY <1>8, <2>3 DEF RevokeSession, RevocationKept, Valid
    <3>4. RequestsKnow'
      BY <1>8, <2>3
      DEF RevokeSession, Proceeds, SessionsTypeOK, Request, RequestsKnow
    <3> QED
      BY <3>2, <3>3, <3>4
  <2> QED
    BY <1>8, <2>2, <2>3 DEF RevokeSession
<1>9. CASE UNCHANGED sessionVars
  BY <1>9 DEF sessionVars, SessionsTypeOK, RevocationKept, Valid, RequestsKnow
<1> QED
  BY <1>1, <1>2, <1>3, <1>4, <1>5, <1>6, <1>7, <1>8, <1>9 DEF SessionsNext

LEMMA SessionsInductive == SessionsSpec => []SessionsIInv
  BY SessionsInitHolds, SessionsNextKeeps, PTL DEF SessionsSpec

\* "RevokeSession blocks a session token until it would have expired anyway": rows keep
\* their shape, and no purge takes a revocation a token still needs.
THEOREM SessionsSound ==
  SessionsSpec => []SessionsInv
<1>1. SessionsIInv => SessionsInv
  BY DEF SessionsIInv, SessionsInv
<1> QED
  BY <1>1, SessionsInductive, PTL

\* A request that begins after a sign-out is accepted only with an expired token.
LEMMA LateRequestsAreRefused ==
  ASSUME SessionsIInv, [SessionsNext]_sessionVars, NEW r \in Requests,
         req[r].pc = "parsed", req'[r].pc = "accepted", req[r].late
  PROVE  ~Valid(req[r].token)
<1>1. req[r].token \in signedOut /\ req[r].token \in Tokens
  BY DEF SessionsIInv, SessionsTypeOK, Request, RequestsKnow
<1>2. SessionActive(r)
  <2>1. req' # req
    OBVIOUS
  <2>2. PICK q \in Requests :
          \/ Parse(q) \/ SessionActive(q) \/ Unavailable(q)
          \/ Logout(q) \/ RevokeSession(q)
    BY <2>1 DEF SessionsNext, sessionVars, Tick, PurgeExpiredRevocations,
                Restart, SignIn
  <2>3. q = r
    BY <2>2 DEF Parse, SessionActive, Unavailable, Logout,
                RevokeSession, Proceeds, SessionsIInv, SessionsTypeOK
  <2>4. ~Parse(r) /\ ~Logout(r) /\ ~RevokeSession(r)
    BY DEF Parse, Logout, RevokeSession
  <2>5. ~Unavailable(r)
    BY DEF Unavailable, Proceeds, SessionsIInv, SessionsTypeOK, Request
  <2> QED
    BY <2>2, <2>3, <2>4, <2>5
<1>3. req[r].token \notin revoked
  BY <1>2 DEF SessionActive, Proceeds, SessionsIInv, SessionsTypeOK
<1> QED
  BY <1>1, <1>3 DEF SessionsIInv, RevocationKept

\* A token that was signed out stays out while it is valid, whatever requests, sign-outs
\* and purges come between the two statements of a check.
THEOREM SignedOutIsOut ==
  SessionsSpec => SignedOutStaysOut
<1> DEFINE StaysOut == \A r \in Requests :
             req[r].pc = "parsed" /\ req'[r].pc = "accepted" /\ req[r].late
               => ~Valid(req[r].token)
<1>1. SessionsIInv /\ [SessionsNext]_sessionVars => [StaysOut]_sessionVars
  BY LateRequestsAreRefused
<1> QED
  BY <1>1, SessionsInductive, PTL DEF SessionsSpec, SignedOutStaysOut

-----------------------------------------------------------------------------
(* Numbers up to a bound. *)

LEMMA Least ==
  ASSUME NEW T, T \subseteq Nat, T # {}
  PROVE  \E x \in T : \A y \in T : x <= y
<1> DEFINE R == {ss \in Nat \X Nat : ss[1] < ss[2]}
<1>1. IsWellFoundedOn(R, Nat)
  BY NatLessThanWellFounded DEF OpToRel
<1>2. \A x, y \in Nat : y < x => <<y, x>> \in R
  OBVIOUS
<1> HIDE DEF R
<1>3. \E x \in T : \A y \in T : ~ (<<y, x>> \in R)
  BY <1>1, WFMin
<1>4. PICK x \in T : \A y \in T : ~ (<<y, x>> \in R)
  BY <1>3
<1>5. \A y \in T : y \in Nat /\ x \in Nat /\ ~ (y < x)
  BY <1>2, <1>4
<1> QED
  BY <1>5

LEMMA Greatest ==
  ASSUME NEW N \in Nat, NEW T, T \subseteq 0..N, T # {}
  PROVE  \E x \in T : \A y \in T : y <= x
<1> DEFINE D == {N - x : x \in T}
<1>1. D \subseteq Nat /\ D # {}
  <2>1. \A x \in T : x \in 0..N
    OBVIOUS
  <2>2. \A x \in T : N - x \in Nat
    BY <2>1
  <2>3. \E x \in T : N - x \in D
    OBVIOUS
  <2> QED
    BY <2>2, <2>3
<1>2. PICK d \in D : \A e \in D : d <= e
  BY <1>1, Least
<1>3. PICK x \in T : d = N - x
  OBVIOUS
<1>4. \A y \in T : N - y \in D
  OBVIOUS
<1>5. \A y \in T : N - x <= N - y /\ x \in 0..N /\ y \in 0..N
  BY <1>2, <1>3, <1>4
<1> QED
  BY <1>5

\* Induction up to N, over the set of numbers a fact holds of.
LEMMA Reaches ==
  ASSUME NEW N \in Nat, NEW P, 0 \in P, \A n \in 0..N : n \in P /\ n < N => n + 1 \in P
  PROVE  \A n \in 0..N : n \in P
<1> SUFFICES ASSUME ~ \A n \in 0..N : n \in P
             PROVE  FALSE
  OBVIOUS
<1> DEFINE T == (0..N) \ P
<1>1. T \subseteq Nat /\ T # {}
  OBVIOUS
<1>2. PICK x \in T : \A y \in T : x <= y
  BY <1>1, Least
<1>3. x # 0 /\ x - 1 \in 0..N /\ x - 1 < N /\ x = (x - 1) + 1
  OBVIOUS
<1>4. x - 1 \in P
  BY <1>2, <1>3
<1> QED
  BY <1>3, <1>4

-----------------------------------------------------------------------------
(* The limiter after each of the calls. *)

Limiter == [hits : [Keys -> SUBSET (1..MaxCalls)], lastSweep : Int]
History == [1..MaxCalls -> Call]

LEMMA NewLimiterTyped == NewLimiter \in Limiter
BY DEF NewLimiter, Limiter

LEMMA CallTyped ==
  ASSUME NEW calls \in History, NEW n \in 1..MaxCalls
  PROVE  /\ calls[n].key \in Keys
         /\ calls[n].now \in Int /\ calls[n].now > Window /\ Window \in Nat /\ Window > 0
BY RateLimitAssumption DEF History, Call, RateLimitAssumption

LEMMA SweepTyped ==
  ASSUME NEW calls \in History, NEW l \in Limiter, NEW n \in 1..MaxCalls
  PROVE  Sweep(l, calls, calls[n].now) \in Limiter
<1>1. calls[n].now \in Int
  BY CallTyped
<1> QED
  BY <1>1 DEF Sweep, Limiter

LEMMA AllowTyped ==
  ASSUME NEW calls \in History, NEW l \in Limiter, NEW n \in 1..MaxCalls
  PROVE  Allow(l, calls, n) \in Limiter
<1>1. Sweep(l, calls, calls[n].now) \in Limiter /\ calls[n].key \in Keys
  BY SweepTyped, CallTyped
<1>2. Kept(l, calls, n) \subseteq 1..MaxCalls
  BY <1>1 DEF Kept, Limiter
<1>3. Kept(l, calls, n) \cup (IF Allows(l, calls, n) THEN {n} ELSE {}) \subseteq 1..MaxCalls
  BY <1>2
<1> QED
  BY <1>1, <1>3 DEF Allow, Limiter

\* There is a fold of the calls, one call after another.
LEMMA LimitersExist ==
  ASSUME NEW calls \in History
  PROVE  \E f \in [0..MaxCalls -> Limiter] :
           /\ f[0] = NewLimiter
           /\ \A n \in 1..MaxCalls : f[n] = Allow(f[n - 1], calls, n)
<1> DEFINE Upto(n, f) == /\ f[0] = NewLimiter
                        /\ \A i \in 1..n : f[i] = Allow(f[i - 1], calls, i)
           P == {n \in 0..MaxCalls : \E f \in [0..n -> Limiter] : Upto(n, f)}
<1>0. MaxCalls \in Nat
  BY RateLimitAssumption DEF RateLimitAssumption
<1>1. 0 \in P
  <2> DEFINE f == [i \in 0..0 |-> NewLimiter]
  <2>1. f \in [0..0 -> Limiter] /\ f[0] = NewLimiter
    BY NewLimiterTyped
  <2> HIDE DEF f
  <2>2. \A i \in 1..0 : FALSE
    OBVIOUS
  <2>3. Upto(0, f)
    BY <2>1, <2>2
  <2> QED
    BY <2>1, <2>3, <1>0
<1>2. ASSUME NEW n \in 0..MaxCalls, n \in P, n < MaxCalls
      PROVE  n + 1 \in P
  <2>1. PICK f \in [0..n -> Limiter] : Upto(n, f)
    BY <1>2
  <2> DEFINE next == Allow(f[n], calls, n + 1)
             g == [i \in 0..n + 1 |-> IF i = n + 1 THEN next ELSE f[i]]
  <2>2. f[n] \in Limiter /\ n + 1 \in 1..MaxCalls
    BY <1>0, <1>2
  <2>3. next \in Limiter
    BY <2>2, AllowTyped
  <2> HIDE DEF next
  <2>4. g \in [0..n + 1 -> Limiter]
    BY <2>3, <1>0
  <2>5. \A i \in 0..n : g[i] = f[i]
    BY <1>0, <1>2
  <2>6. g[n + 1] = Allow(g[n], calls, n + 1)
    <3>1. n \in 0..n /\ n + 1 \in 0..n + 1 /\ g[n] = f[n]
      BY <2>5, <1>0, <1>2
    <3>2. g[n + 1] = next
      BY <3>1
    <3> QED
      BY <3>1, <3>2 DEF next
  <2>7. \A i \in 1..n : g[i] = Allow(g[i - 1], calls, i)
    <3> SUFFICES ASSUME NEW i \in 1..n
                 PROVE  g[i] = Allow(g[i - 1], calls, i)
      OBVIOUS
    <3>1. i \in 0..n /\ i - 1 \in 0..n
      BY <1>0, <1>2
    <3>2. g[i] = f[i] /\ g[i - 1] = f[i - 1]
      BY <2>5, <3>1
    <3> QED
      BY <2>1, <3>2
  <2>8. g[0] = NewLimiter
    BY <2>1, <2>5, <1>0, <1>2
  <2> HIDE DEF g
  <2>9. \A i \in 1..n + 1 : i = n + 1 \/ i \in 1..n
    BY <1>0, <1>2
  <2>10. (n + 1) - 1 = n
    BY <1>0, <1>2
  <2>11. Upto(n + 1, g)
    BY <2>6, <2>7, <2>8, <2>9, <2>10
  <2>12. n + 1 \in 0..MaxCalls
    BY <2>2, <1>0
  <2> QED
    BY <2>12, <2>4, <2>11
<1>3. MaxCalls \in P
  <2> HIDE DEF P
  <2>1. \A n \in 0..MaxCalls : n \in P
    BY <1>0, <1>1, <1>2, Reaches
  <2> QED
    BY <2>1, <1>0
<1> QED
  BY <1>3

\* Limiters is the fold it is written as.
LEMMA LimitersFold ==
  ASSUME NEW calls \in History
  PROVE  /\ Limiters(calls) \in [0..MaxCalls -> Limiter]
         /\ Limiters(calls)[0] = NewLimiter
         /\ \A n \in 1..MaxCalls :
              Limiters(calls)[n] = Allow(Limiters(calls)[n - 1], calls, n)
<1> DEFINE Fold(f) == [n \in 0..MaxCalls |->
                         IF n = 0 THEN NewLimiter ELSE Allow(f[n - 1], calls, n)]
           L == Limiters(calls)
<1>0. MaxCalls \in Nat
  BY RateLimitAssumption DEF RateLimitAssumption
<1>1. PICK f \in [0..MaxCalls -> Limiter] :
        /\ f[0] = NewLimiter
        /\ \A n \in 1..MaxCalls : f[n] = Allow(f[n - 1], calls, n)
  BY LimitersExist
<1>5. f = Fold(f)
  BY <1>0, <1>1
<1>6. L = CHOOSE g : g = Fold(g)
  BY DEF Limiters
<1>7. L = Fold(L)
  BY <1>5, <1>6
<1> HIDE DEF L
<1>8. L[0] = NewLimiter
  BY <1>0, <1>7
<1>9. \A n \in 1..MaxCalls : L[n] = Allow(L[n - 1], calls, n)
  <2> SUFFICES ASSUME NEW n \in 1..MaxCalls
               PROVE  L[n] = Allow(L[n - 1], calls, n)
    OBVIOUS
  <2>1. n \in 0..MaxCalls /\ n # 0
    BY <1>0
  <2> QED
    BY <1>7, <2>1
<1>10. \A n \in 0..MaxCalls : L[n] \in Limiter
  <2> DEFINE P == {n \in 0..MaxCalls : L[n] \in Limiter}
  <2>1. 0 \in P
    BY <1>0, <1>8, NewLimiterTyped
  <2>2. \A n \in 0..MaxCalls : n \in P /\ n < MaxCalls => n + 1 \in P
    <3> SUFFICES ASSUME NEW n \in 0..MaxCalls, n \in P, n < MaxCalls
                 PROVE  n + 1 \in P
      OBVIOUS
    <3>1. n + 1 \in 1..MaxCalls /\ (n + 1) - 1 = n /\ L[n] \in Limiter
      BY <1>0
    <3>2. L[n + 1] = Allow(L[n], calls, n + 1)
      BY <1>9, <3>1
    <3>3. L[n + 1] \in Limiter
      BY <3>1, <3>2, AllowTyped
    <3> QED
      BY <3>1, <3>3, <1>0
  <2> HIDE DEF P
  <2>3. \A n \in 0..MaxCalls : n \in P
    BY <1>0, <2>1, <2>2, Reaches
  <2> QED
    BY <2>3 DEF P
<1>11. L \in [0..MaxCalls -> Limiter]
  BY <1>7, <1>10
<1> QED
  BY <1>8, <1>9, <1>11 DEF L

-----------------------------------------------------------------------------
(* What the hits of a key stand for. *)

Allowed(calls) == {n \in 1..MaxCalls : Allows(Limiters(calls)[n - 1], calls, n)}

\* The calls of a key were served in the order of their times.
InOrder(calls, k, n) ==
  \A i, j \in 1..n : i <= j /\ calls[i].key = k /\ calls[j].key = k
                     => calls[i].now <= calls[j].now

\* Hits are calls that were allowed, and while those of the key are in order one that is
\* missing had left the window of some later call.
HitsSound(calls, n) ==
  \A k \in Keys :
    /\ \A i \in Limiters(calls)[n].hits[k] :
         i \in 1..n /\ i \in Allowed(calls) /\ calls[i].key = k
    /\ InOrder(calls, k, n) =>
         \A i \in Allowed(calls) : i <= n /\ calls[i].key = k =>
           \/ i \in Limiters(calls)[n].hits[k]
           \/ \E j \in 1..n : calls[i].now <= calls[j].now - Window

\* The sweep takes a key whole, and only if its last hit has left the window.
LEMMA SweepTakesOld ==
  ASSUME NEW calls \in History, NEW l \in Limiter, NEW n \in 1..MaxCalls, NEW k \in Keys
  PROVE  LET kept == Sweep(l, calls, calls[n].now).hits[k] IN
         /\ kept \subseteq l.hits[k]
         /\ (\A i, j \in l.hits[k] : i <= j => calls[i].now <= calls[j].now) =>
              \A i \in l.hits[k] : i \in kept \/ calls[i].now <= calls[n].now - Window
<1> DEFINE t == calls[n].now
           kept == Sweep(l, calls, t).hits[k]
<1>0. MaxCalls \in Nat /\ t \in Int /\ Window \in Nat
  BY CallTyped, RateLimitAssumption DEF RateLimitAssumption
<1>1. kept = l.hits[k] \/ (~ Live(calls, l.hits[k], t - Window) /\ kept = {})
  BY DEF Sweep
<1> HIDE DEF kept, t
<1>2. ASSUME \A i, j \in l.hits[k] : i <= j => calls[i].now <= calls[j].now,
             NEW i \in l.hits[k], i \notin kept
      PROVE  calls[i].now <= t - Window
  <2>1. ~ Live(calls, l.hits[k], t - Window)
    BY <1>1, <1>2
  <2>2. l.hits[k] \subseteq 1..MaxCalls
    BY DEF Limiter
  <2>3. l.hits[k] \subseteq 0..MaxCalls /\ l.hits[k] # {}
    BY <1>0, <1>2, <2>2
  <2>4. PICK m \in l.hits[k] : \A j \in l.hits[k] : j <= m
    BY <1>0, <2>3, Greatest
  <2>5. ~ (calls[m].now > t - Window)
    BY <2>1, <2>4 DEF Live
  <2>6. calls[i].now <= calls[m].now
    BY <1>2, <2>4
  <2>7. calls[i].now \in Int /\ calls[m].now \in Int
    BY <2>2, <2>4, <1>2, CallTyped
  <2> QED
    BY <1>0, <2>5, <2>6, <2>7
<1> QED
  BY <1>1, <1>2 DEF kept, t

\* What a call leaves behind.
LEMMA HitsAfter ==
  ASSUME NEW calls \in History, NEW n \in 1..MaxCalls
  PROVE  LET before == Limiters(calls)[n - 1]
             after == Limiters(calls)[n]
             swept == Sweep(before, calls, calls[n].now)
         IN /\ before \in Limiter /\ after \in Limiter /\ swept \in Limiter
            /\ \A k \in Keys : k # calls[n].key => after.hits[k] = swept.hits[k]
            /\ after.hits[calls[n].key] =
                 Kept(before, calls, n) \cup (IF n \in Allowed(calls) THEN {n} ELSE {})
            /\ after.lastSweep = swept.lastSweep
<1> DEFINE before == Limiters(calls)[n - 1]
           swept == Sweep(before, calls, calls[n].now)
           after == Limiters(calls)[n]
<1>1. n - 1 \in 0..MaxCalls /\ n \in 0..MaxCalls
  BY RateLimitAssumption DEF RateLimitAssumption
<1>2. before \in Limiter /\ after \in Limiter
  BY <1>1, LimitersFold
<1>3. after = Allow(before, calls, n)
  BY LimitersFold
<1>4. n \in Allowed(calls) <=> Allows(before, calls, n)
  BY DEF Allowed
<1> HIDE DEF before, after
<1>5. swept \in Limiter /\ calls[n].key \in Keys
  BY <1>2, SweepTyped, CallTyped
<1>6. after = [swept EXCEPT !.hits[calls[n].key] =
                 Kept(before, calls, n) \cup (IF n \in Allowed(calls) THEN {n} ELSE {})]
  BY <1>3, <1>4 DEF Allow
<1> HIDE DEF swept
<1>7. /\ \A k \in Keys : k # calls[n].key => after.hits[k] = swept.hits[k]
      /\ after.hits[calls[n].key] =
           Kept(before, calls, n) \cup (IF n \in Allowed(calls) THEN {n} ELSE {})
      /\ after.lastSweep = swept.lastSweep
  BY <1>5, <1>6 DEF Limiter
<1> QED
  BY <1>2, <1>5, <1>7 DEF before, swept, after

LEMMA HitsStep ==
  ASSUME NEW calls \in History, NEW n \in 1..MaxCalls, HitsSound(calls, n - 1)
  PROVE  HitsSound(calls, n)
<1> DEFINE before == Limiters(calls)[n - 1]
           swept == Sweep(before, calls, calls[n].now)
           after == Limiters(calls)[n]
           t == calls[n].now
<1> SUFFICES ASSUME NEW k \in Keys
             PROVE  /\ \A i \in after.hits[k] :
                         i \in 1..n /\ i \in Allowed(calls) /\ calls[i].key = k
                    /\ InOrder(calls, k, n) =>
                         \A i \in Allowed(calls) : i <= n /\ calls[i].key = k =>
                           i \in after.hits[k] \/ \E j \in 1..n : calls[i].now <= calls[j].now - Window
  BY DEF HitsSound
<1>1. before \in Limiter /\ n \in Nat /\ n > 0
  BY HitsAfter
<1>2. \A i \in before.hits[k] : i \in 1..n - 1 /\ i \in Allowed(calls) /\ calls[i].key = k
  BY DEF HitsSound
<1>3. swept.hits[k] \subseteq before.hits[k]
  BY <1>1, SweepTakesOld
<1>4. /\ k # calls[n].key => after.hits[k] = swept.hits[k]
      /\ k = calls[n].key =>
           after.hits[k] = {m \in swept.hits[k] : calls[m].now > t - Window}
                             \cup (IF n \in Allowed(calls) THEN {n} ELSE {})
  BY HitsAfter DEF Kept
<1>5. ASSUME NEW i \in after.hits[k]
      PROVE  i \in 1..n /\ i \in Allowed(calls) /\ calls[i].key = k
  <2>1. i \in before.hits[k] \/ (i = n /\ n \in Allowed(calls) /\ k = calls[n].key)
    BY <1>3, <1>4, <1>5
  <2> QED
    BY <1>1, <1>2, <2>1
<1>6. ASSUME InOrder(calls, k, n), NEW i \in Allowed(calls), i <= n, calls[i].key = k
      PROVE  i \in after.hits[k] \/ \E j \in 1..n : calls[i].now <= calls[j].now - Window
  <2>1. CASE i = n
    BY <1>4, <1>6, <2>1
  <2>2. CASE i # n
    <3>1. i <= n - 1 /\ i \in 1..MaxCalls
      BY <1>1, <1>6, <2>2 DEF Allowed
    <3>2. InOrder(calls, k, n - 1)
      BY <1>1, <1>6 DEF InOrder
    <3>3. CASE i \notin before.hits[k]
      <4>1. PICK j \in 1..n - 1 : calls[i].now <= calls[j].now - Window
        BY <1>6, <3>1, <3>2, <3>3 DEF HitsSound
      <4> QED
        BY <1>1, <4>1
    <3>4. CASE i \in before.hits[k]
      <4>1. \A x, y \in before.hits[k] : x <= y => calls[x].now <= calls[y].now
        BY <1>2, <3>2 DEF InOrder
      <4>2. i \in swept.hits[k] \/ calls[i].now <= t - Window
        BY <1>1, <3>4, <4>1, SweepTakesOld
      <4>3. n \in 1..n
        BY <1>1
      <4>4. CASE calls[i].now <= t - Window
        BY <4>3, <4>4
      <4>5. CASE ~ (calls[i].now <= t - Window)
        <5>1. calls[i].now \in Int /\ t \in Int /\ Window \in Nat
          BY <3>1, CallTyped
        <5>2. i \in swept.hits[k] /\ calls[i].now > t - Window
          BY <4>2, <4>5, <5>1
        <5> QED
          BY <1>4, <5>2
      <4> QED
        BY <4>4, <4>5
    <3> QED
      BY <3>3, <3>4
  <2> QED
    BY <2>1, <2>2
<1> QED
  BY <1>5, <1>6

LEMMA HitsAreSound ==
  ASSUME NEW calls \in History
  PROVE  \A n \in 0..MaxCalls : HitsSound(calls, n)
<1> DEFINE P == {n \in 0..MaxCalls : HitsSound(calls, n)}
<1>0. MaxCalls \in Nat
  BY RateLimitAssumption DEF RateLimitAssumption
<1>1. 0 \in P
  <2>1. \A k \in Keys : Limiters(calls)[0].hits[k] = {}
    BY LimitersFold DEF NewLimiter
  <2>2. \A i \in Allowed(calls) : ~ (i <= 0)
    BY <1>0 DEF Allowed
  <2> QED
    BY <1>0, <2>1, <2>2 DEF HitsSound
<1>2. \A n \in 0..MaxCalls : n \in P /\ n < MaxCalls => n + 1 \in P
  <2> SUFFICES ASSUME NEW n \in 0..MaxCalls, HitsSound(calls, n), n < MaxCalls
               PROVE  n + 1 \in P
    OBVIOUS
  <2>1. n + 1 \in 1..MaxCalls /\ n + 1 \in 0..MaxCalls /\ (n + 1) - 1 = n
    BY <1>0
  <2>2. HitsSound(calls, n + 1)
    BY <2>1, HitsStep
  <2> QED
    BY <2>1, <2>2
<1> HIDE DEF P
<1>3. \A n \in 0..MaxCalls : n \in P
  BY <1>0, <1>1, <1>2, Reaches
<1> QED
  BY <1>3 DEF P

\* A call is allowed exactly if fewer than the limit of its key were allowed in the window
\* that ends with it, whatever was pruned and swept before.
THEOREM VerdictsAreExact == LimitIsExact
<1> SUFFICES ASSUME NEW calls \in History, NEW n \in 1..MaxCalls, Timely(calls, n)
             PROVE  LET Counts == {m \in Allowed(calls) :
                                     /\ m < n /\ calls[m].key = calls[n].key
                                     /\ calls[m].now > calls[n].now - Window}
                    IN n \in Allowed(calls) <=> Cardinality(Counts) < Limit
  BY DEF LimitIsExact, Allowed, History
<1> DEFINE k == calls[n].key
           t == calls[n].now
           before == Limiters(calls)[n - 1]
           swept == Sweep(before, calls, t)
           Counts == {m \in Allowed(calls) : m < n /\ calls[m].key = k /\ calls[m].now > t - Window}
<1>0. MaxCalls \in Nat /\ n - 1 \in 0..MaxCalls /\ n \in Nat /\ n > 0
  BY RateLimitAssumption DEF RateLimitAssumption
<1>1. HitsSound(calls, n - 1) /\ before \in Limiter /\ k \in Keys
  BY <1>0, HitsAreSound, HitsAfter, CallTyped
<1>2. Kept(before, calls, n) = {m \in swept.hits[k] : calls[m].now > t - Window}
  BY DEF Kept
<1>3. swept.hits[k] \subseteq before.hits[k]
  BY <1>1, SweepTakesOld
<1>4. \A i \in before.hits[k] : i \in 1..n - 1 /\ i \in Allowed(calls) /\ calls[i].key = k
  BY <1>1 DEF HitsSound
<1>5. \A m \in 1..n : calls[m].now <= t
  BY DEF Timely
<1>6. InOrder(calls, k, n - 1)
  BY <1>0 DEF Timely, InOrder
<1>7. ASSUME NEW m \in Counts
      PROVE  m \in swept.hits[k]
  <2>1. m \in 1..MaxCalls /\ m <= n - 1
    BY <1>0 DEF Allowed
  <2>2. calls[m].now \in Int /\ t \in Int /\ Window \in Nat /\ calls[m].now > t - Window
    BY <2>1, CallTyped
  <2>3. ASSUME NEW j \in 1..n - 1
        PROVE  ~ (calls[m].now <= calls[j].now - Window)
    <3>1. j \in 1..n /\ j \in 1..MaxCalls
      BY <1>0
    <3>2. calls[j].now \in Int /\ calls[j].now <= t
      BY <3>1, <1>5, CallTyped
    <3> QED
      BY <2>2, <3>2
  <2>4. m \in before.hits[k]
    BY <1>1, <1>6, <2>1, <2>3 DEF HitsSound
  <2>5. \A x, y \in before.hits[k] : x <= y => calls[x].now <= calls[y].now
    BY <1>4, <1>6 DEF InOrder
  <2>6. m \in swept.hits[k] \/ calls[m].now <= t - Window
    BY <1>1, <2>4, <2>5, SweepTakesOld
  <2> QED
    BY <2>2, <2>6
<1>8. Kept(before, calls, n) = Counts
  <2>1. \A m \in swept.hits[k] : m \in Allowed(calls) /\ m < n /\ calls[m].key = k
    BY <1>0, <1>3, <1>4
  <2> QED
    BY <1>2, <1>7, <2>1
<1> QED
  BY <1>8 DEF Allowed, Allows

-----------------------------------------------------------------------------
(* What the sweep leaves in the map. *)

AllInOrder(calls, n) == \A i, j \in 1..n : i < j => calls[i].now <= calls[j].now

\* The last sweep was less than a window ago, and a key it left had been used in the
\* window before it.
SweepSound(calls, n) ==
  LET l == Limiters(calls)[n] IN
  /\ n > 0 => calls[n].now - Window < l.lastSweep
  /\ l.lastSweep = 0 \/ \E j \in 1..n : l.lastSweep = calls[j].now
  /\ AllInOrder(calls, n) =>
       \A k \in Keys : l.hits[k] # {} =>
         \E m \in 1..n : calls[m].key = k /\ calls[m].now > l.lastSweep - Window

LEMMA SweepStep ==
  ASSUME NEW calls \in History, NEW n \in 1..MaxCalls, SweepSound(calls, n - 1)
  PROVE  SweepSound(calls, n)
<1> DEFINE before == Limiters(calls)[n - 1]
           t == calls[n].now
           swept == Sweep(before, calls, t)
           after == Limiters(calls)[n]
<1>0. n \in Nat /\ n > 0 /\ t \in Int /\ t > Window /\ Window \in Nat /\ Window > 0
  BY CallTyped
<1>1. before \in Limiter /\ before.lastSweep \in Int
  BY HitsAfter DEF Limiter
<1>2. after.lastSweep = swept.lastSweep
  BY HitsAfter
<1>3. \/ t - before.lastSweep < Window /\ swept = before
      \/ /\ swept.lastSweep = t
         /\ \A k \in Keys :
              swept.hits[k] # {} => \E m \in before.hits[k] : calls[m].now > t - Window
  BY DEF Sweep, Live
<1> HIDE DEF swept
<1>4. t - Window < after.lastSweep
  BY <1>0, <1>1, <1>2, <1>3
<1>5. after.lastSweep = 0 \/ \E j \in 1..n : after.lastSweep = calls[j].now
  <2>1. CASE swept = before
    <3>1. before.lastSweep = 0 \/ \E j \in 1..n - 1 : before.lastSweep = calls[j].now
      BY DEF SweepSound
    <3> QED
      BY <1>0, <1>2, <2>1, <3>1
  <2>2. CASE swept.lastSweep = t
    BY <1>0, <1>2, <2>2
  <2> QED
    BY <1>3, <2>1, <2>2
<1>6. ASSUME AllInOrder(calls, n), NEW k \in Keys, after.hits[k] # {}
      PROVE  \E m \in 1..n : calls[m].key = k /\ calls[m].now > after.lastSweep - Window
  <2>1. CASE k = calls[n].key
    <3>1. after.lastSweep <= t
      <4>1. CASE after.lastSweep = 0
        BY <1>0, <4>1
      <4>2. ASSUME NEW j \in 1..n, after.lastSweep = calls[j].now PROVE after.lastSweep <= t
        <5>1. j < n \/ j = n
          BY <1>0
        <5> QED
          BY <1>0, <1>6, <4>2, <5>1 DEF AllInOrder
      <4> QED
        BY <1>5, <4>1, <4>2
    <3>2. after.lastSweep \in Int
      BY HitsAfter DEF Limiter
    <3> QED
      BY <1>0, <2>1, <3>1, <3>2
  <2>2. CASE k # calls[n].key
    <3>1. after.hits[k] = swept.hits[k]
      BY <2>2, HitsAfter DEF swept
    <3>2. CASE swept = before
      <4>1. AllInOrder(calls, n - 1)
        BY <1>0, <1>6 DEF AllInOrder
      <4>2. PICK m \in 1..n - 1 : calls[m].key = k /\ calls[m].now > before.lastSweep - Window
        BY <1>6, <3>1, <3>2, <4>1 DEF SweepSound
      <4> QED
        BY <1>0, <1>2, <3>2, <4>2
    <3>3. CASE swept # before
      <4>1. PICK m \in before.hits[k] : calls[m].now > t - Window
        BY <1>3, <1>6, <3>1, <3>3
      <4>2. m \in 1..n - 1 /\ calls[m].key = k
        <5>1. n - 1 \in 0..MaxCalls
          BY RateLimitAssumption DEF RateLimitAssumption
        <5> QED
          BY <5>1, <4>1, HitsAreSound DEF HitsSound
      <4>3. after.lastSweep = t
        BY <1>2, <1>3, <3>3
      <4> QED
        BY <1>0, <4>1, <4>2, <4>3
    <3> QED
      BY <3>2, <3>3
  <2> QED
    BY <2>1, <2>2
<1> QED
  BY <1>4, <1>5, <1>6 DEF SweepSound

LEMMA SweepsAreSound ==
  ASSUME NEW calls \in History
  PROVE  \A n \in 0..MaxCalls : SweepSound(calls, n)
<1> DEFINE P == {n \in 0..MaxCalls : SweepSound(calls, n)}
<1>0. MaxCalls \in Nat
  BY RateLimitAssumption DEF RateLimitAssumption
<1>1. 0 \in P
  BY <1>0, LimitersFold DEF NewLimiter, SweepSound
<1>2. \A n \in 0..MaxCalls : n \in P /\ n < MaxCalls => n + 1 \in P
  <2> SUFFICES ASSUME NEW n \in 0..MaxCalls, SweepSound(calls, n), n < MaxCalls
               PROVE  n + 1 \in P
    OBVIOUS
  <2>1. n + 1 \in 1..MaxCalls /\ n + 1 \in 0..MaxCalls /\ (n + 1) - 1 = n
    BY <1>0
  <2>2. SweepSound(calls, n + 1)
    BY <2>1, SweepStep
  <2> QED
    BY <2>1, <2>2
<1> HIDE DEF P
<1>3. \A n \in 0..MaxCalls : n \in P
  BY <1>0, <1>1, <1>2, Reaches
<1> QED
  BY <1>3 DEF P

\* While calls are served in the order of their times, the limiter holds hits of keys
\* that were used in the last two windows only.
THEOREM IdleKeysGo == IdleKeysAreForgotten
<1> SUFFICES ASSUME NEW calls \in History, NEW n \in 1..MaxCalls, NEW k \in Keys,
                    AllInOrder(calls, n), Limiters(calls)[n].hits[k] # {}
             PROVE  \E m \in 1..n : calls[m].key = k
                                    /\ calls[m].now > calls[n].now - 2 * Window
  BY DEF IdleKeysAreForgotten, AllInOrder, History
<1>0. n \in 0..MaxCalls /\ n > 0
  BY RateLimitAssumption DEF RateLimitAssumption
<1>1. SweepSound(calls, n)
  BY <1>0, SweepsAreSound
<1>2. PICK m \in 1..n :
        calls[m].key = k /\ calls[m].now > Limiters(calls)[n].lastSweep - Window
  BY <1>1 DEF SweepSound
<1>3. calls[n].now - Window < Limiters(calls)[n].lastSweep
  BY <1>0, <1>1 DEF SweepSound
<1>4. m \in 1..MaxCalls
  BY RateLimitAssumption DEF RateLimitAssumption
<1>5. calls[m].now \in Int /\ calls[n].now \in Int /\ Window \in Nat
  BY <1>4, CallTyped
<1>6. Limiters(calls)[n].lastSweep \in Int
  BY HitsAfter DEF Limiter
<1> QED
  BY <1>2, <1>3, <1>5, <1>6

\* Every history of sign-ins is limited as it should be.
THEOREM SignInsStayLimited == SessionsSpec => []SignInsAreLimited
<1>1. SignInsAreLimited
  BY VerdictsAreExact, IdleKeysGo DEF SignInsAreLimited, LimiterSound
<1> QED
  BY <1>1, PTL
=============================================================================
