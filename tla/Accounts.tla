------------------------------ MODULE Accounts ------------------------------
(***************************************************************************)
(* Accounts and how a sign-in finds its own (Register, Login and           *)
(* WorkOSCallback of handlers/auth.go, UpsertFromWorkOS of                 *)
(* repository/users.go).                                                   *)
(*                                                                         *)
(* No sign-in is a transaction: each statement sees what the others have   *)
(* committed by then, and writes by the id of the row it read.  Unique     *)
(* indexes on the address and on a link that is not empty are all that     *)
(* makes a write fail.  Users of AuthKit can change their address there,   *)
(* and an address one has given up can become another's.                   *)
(*                                                                         *)
(* Migration 9 adds the column of the link without a default, and a row    *)
(* that has NULL there cannot be read into models.User.                    *)
(***************************************************************************)
EXTENDS Integers, FiniteSets

CONSTANTS
  Users,        \* ids of accounts
  Identities,   \* users of AuthKit
  Addresses,
  Attempts,     \* sign-ins under way at a time
  Nobody, NoAddress,
  Unset         \* the NULL of an account that is older than links

ASSUME AccountsAssumption ==
  /\ Nobody \notin Identities \cup Users /\ Unset \notin Identities \cup {Nobody}
  /\ NoAddress \notin Addresses

VARIABLES
  user,       \* rows of users
  authkit,    \* AuthKit is configured, and password sign-in is off
  vouched,    \* the address AuthKit has for each of its users
  attempt,
  home,       \* the account of its own each identity was last signed in to
  displaced   \* identities whose account was linked to another one

vars == <<user, authkit, vouched, attempt, home, displaced>>

Row == [email : Addresses \cup {NoAddress}, password : BOOLEAN, link : Identities \cup {Nobody, Unset}]
NoRow == [email |-> NoAddress, password |-> FALSE, link |-> Nobody]

\* `seen' is the row of the account as it was read.
Attempt == [pc : {"new", "exchanged", "update", "by_email", "link", "insert", "register"},
            id : Identities \cup {Nobody}, email : Addresses \cup {NoAddress},
            user : Users \cup {Nobody}, seen : Row]
Fresh == [pc |-> "new", id |-> Nobody, email |-> NoAddress, user |-> Nobody, seen |-> NoRow]

TypeOK ==
  /\ user \in [Users -> Row]
  /\ authkit \in BOOLEAN
  /\ vouched \in [Identities -> Addresses \cup {NoAddress}]
  /\ attempt \in [Attempts -> Attempt]
  /\ home \in [Identities -> Users \cup {Nobody}]
  /\ displaced \subseteq Identities

Init ==
  /\ \E old \in SUBSET Users, e \in Addresses :
       /\ \A u, v \in old : u = v
       /\ user = [u \in Users |-> IF u \in old
                    THEN [email |-> e, password |-> TRUE, link |-> Unset] ELSE NoRow]
  /\ authkit \in BOOLEAN
  /\ vouched = [i \in Identities |-> NoAddress]
  /\ attempt = [a \in Attempts |-> Fresh]
  /\ home = [i \in Identities |-> Nobody]
  /\ displaced = {}

Stored(u) == user[u] # NoRow
WithLink(i) == {u \in Users : Stored(u) /\ user[u].link = i}
WithEmail(e) == {u \in Users : Stored(u) /\ user[u].email = e}
Unreadable(u) == user[u].link = Unset

Goes(a, pc) == attempt' = [attempt EXCEPT ![a].pc = pc]
Reads(a, pc, u) == attempt' = [attempt EXCEPT ![a].pc = pc, ![a].user = u, ![a].seen = user[u]]
Ends(a) == attempt' = [attempt EXCEPT ![a] = Fresh]

\* A 409 or a 500; another try meets the same answer as long as the rows stay as they are.
Fails(a) == Ends(a) /\ UNCHANGED <<user, authkit, vouched, home, displaced>>

\* A session for the account, which by now can be linked to someone else; a new attempt
\* takes the place of this one.
Answers(a, u) ==
  LET i == attempt[a].id IN
  /\ Ends(a)
  /\ IF i # Nobody /\ user'[u].link = i
       THEN home' = [home EXCEPT ![i] = u] /\ displaced' = displaced \ {i}
       ELSE UNCHANGED <<home, displaced>>

-----------------------------------------------------------------------------
(* AuthKit *)

\* An address is vouched for one user at a time.
ChangeAddress(i) ==
  /\ \E e \in Addresses \cup {NoAddress} :
       /\ e = NoAddress \/ \A j \in Identities : vouched[j] # e
       /\ vouched' = [vouched EXCEPT ![i] = e]
  /\ UNCHANGED <<user, authkit, attempt, home, displaced>>

\* serve starts with another configuration; requests under way are lost.
Reconfigure ==
  /\ authkit' = ~authkit
  /\ attempt' = [a \in Attempts |-> Fresh]
  /\ UNCHANGED <<user, vouched, home, displaced>>

-----------------------------------------------------------------------------
(* WorkOSCallback *)

\* AuthenticateWithCode: the user and the address AuthKit has for it now.
Exchange(a, i) ==
  /\ authkit /\ attempt[a].pc = "new" /\ vouched[i] # NoAddress
  /\ attempt' = [attempt EXCEPT ![a].pc = "exchanged", ![a].id = i, ![a].email = vouched[i]]
  /\ UNCHANGED <<user, authkit, vouched, home, displaced>>

\* Mutant of ByIdentity: an account that has no link is everybody's.
ByNoIdentity(a) ==
  LET found == WithLink(attempt[a].id) \cup WithLink(Nobody) IN
  /\ attempt[a].pc = "exchanged"
  /\ \/ \E u \in found : Reads(a, "update", u) /\ UNCHANGED <<home, displaced>>
     \/ found = {} /\ Goes(a, "by_email") /\ UNCHANGED <<home, displaced>>
  /\ UNCHANGED <<user, authkit, vouched>>

\* GetByWorkOSUserID: the account is updated when the address is another, or the name.
ByIdentity(a) ==
  LET found == WithLink(attempt[a].id) IN
  /\ attempt[a].pc = "exchanged"
  /\ \/ \E u \in found : Reads(a, "update", u) /\ UNCHANGED <<home, displaced>>
     \/ \E u \in found : user[u].email = attempt[a].email /\ UNCHANGED user /\ Answers(a, u)
     \/ found = {} /\ Goes(a, "by_email") /\ UNCHANGED <<home, displaced>>
  /\ UNCHANGED <<user, authkit, vouched>>

\* Mutant of UpdateProfile: every column is written back as it was read.
UpdateRow(a) ==
  LET u == attempt[a].user  e == attempt[a].email  i == attempt[a].id IN
  /\ attempt[a].pc = "update"
  /\ IF WithEmail(e) \ {u} # {} \/ WithLink(i) \ {u} # {}
       THEN Fails(a)
       ELSE /\ user' = [user EXCEPT ![u] = [attempt[a].seen EXCEPT !.email = e]]
            /\ Answers(a, u)
            /\ UNCHANGED <<authkit, vouched>>

\* UPDATE users SET name, email WHERE id: while the address is another account's, every
\* sign-in of the identity that has it now ends here.
UpdateProfile(a) ==
  LET u == attempt[a].user  e == attempt[a].email IN
  /\ attempt[a].pc = "update"
  /\ IF WithEmail(e) \ {u} # {}
       THEN Fails(a)
       ELSE /\ user' = [user EXCEPT ![u].email = e]
            /\ Answers(a, u)
            /\ UNCHANGED <<authkit, vouched>>

\* Mutant of ByEmail: accounts with a password are linked like others.
ByEmailAnyhow(a) ==
  LET found == WithEmail(attempt[a].email) IN
  /\ attempt[a].pc = "by_email"
  /\ \/ \E u \in found : Reads(a, "link", u)
     \/ found = {} /\ Goes(a, "insert")
  /\ UNCHANGED <<user, authkit, vouched, home, displaced>>

\* GetByEmail: an account that cannot be read is a 500, one with a password a 409.
ByEmail(a) ==
  LET found == WithEmail(attempt[a].email) IN
  /\ attempt[a].pc = "by_email"
  /\ \/ \E u \in found : (Unreadable(u) \/ user[u].password) /\ Ends(a)
     \/ \E u \in found : ~Unreadable(u) /\ ~user[u].password /\ Reads(a, "link", u)
     \/ found = {} /\ Goes(a, "insert")
  /\ UNCHANGED <<user, authkit, vouched, home, displaced>>

\* LinkWorkOSUser: UPDATE users SET workos_user_id, name WHERE id, whoever was linked.
Link(a) ==
  LET u == attempt[a].user  i == attempt[a].id IN
  /\ attempt[a].pc = "link"
  /\ IF WithLink(i) \ {u} # {}
       THEN Fails(a)
       ELSE /\ user' = [user EXCEPT ![u].link = i]
            /\ Ends(a)
            /\ home' = [home EXCEPT ![i] = u]
            /\ displaced' = (displaced \cup {user[u].link}) \ {i, Nobody}
            /\ UNCHANGED <<authkit, vouched>>

\* The unique indexes.
Taken(a) ==
  \/ WithEmail(attempt[a].email) # {}
  \/ attempt[a].id # Nobody /\ WithLink(attempt[a].id) # {}

\* Create, for AuthKit and for Register.
Insert(a) ==
  LET x == attempt[a] IN
  /\ x.pc \in {"insert", "register"}
  /\ \/ Taken(a) /\ Fails(a)
     \/ /\ ~Taken(a)
        /\ \E u \in Users :
             /\ ~Stored(u)
             /\ user' = [user EXCEPT ![u] = [email |-> x.email, link |-> x.id,
                                             password |-> x.pc = "register"]]
             /\ Answers(a, u)
        /\ UNCHANGED <<authkit, vouched>>

-----------------------------------------------------------------------------
(* Passwords.  Login writes nothing: it reads the account and compares. *)

\* Register, up to EmailExists.
Register(a) ==
  /\ ~authkit /\ attempt[a].pc = "new"
  /\ \E e \in Addresses :
       /\ WithEmail(e) = {}
       /\ attempt' = [attempt EXCEPT ![a].pc = "register", ![a].email = e]
  /\ UNCHANGED <<user, authkit, vouched, home, displaced>>

Callback(a) == ByIdentity(a) \/ UpdateProfile(a) \/ ByEmail(a) \/ Link(a) \/ Insert(a)

Next ==
  \/ Reconfigure \/ \E i \in Identities : ChangeAddress(i)
  \/ \E a \in Attempts : Register(a) \/ Callback(a) \/ \E i \in Identities : Exchange(a, i)

Spec == Init /\ [][Next]_vars

-----------------------------------------------------------------------------
(* Correctness *)

\* One account for an address and for an identity; an account with a password has no
\* other way in; and one older than migration 9, whose owner has nothing but the
\* password, stays beyond the reach of every sign-in.
AccountsInv ==
  /\ TypeOK
  /\ \A e \in Addresses : Cardinality(WithEmail(e)) <= 1
  /\ \A i \in Identities : Cardinality(WithLink(i)) <= 1
  /\ \A u \in Users : user[u].password => user[u].link \in {Nobody, Unset}
  /\ \A u \in Users : Unreadable(u) =>
       user[u].password /\ \A a \in Attempts : attempt[a].user # u

\* Whoever signs in again comes to the same account, whatever has become of the
\* address, unless the account was linked to someone else meanwhile.
SameAccountAgain ==
  [][\A i \in Identities :
       home[i] # Nobody /\ home'[i] # home[i] => i \in displaced]_vars

\* What an attempt has read is out of date.
Outdated(a) ==
  \/ user[attempt[a].user] # attempt[a].seen
  \/ vouched[attempt[a].id] # attempt[a].email

\* A sign-in changes its own account alone, by link or by address, unless what it read
\* has changed between its statements: only then can it take an account from an
\* identity that still has its address, or write into another's.
OnlyOutdatedSignInsCross ==
  [][\A u \in Users : Stored(u) /\ user'[u] # user[u] =>
       \E a \in Attempts :
         /\ attempt[a].user = u /\ attempt[a].pc \in {"update", "link"}
         /\ \/ user[u].link = attempt[a].id
            \/ /\ ~user[u].password /\ user[u].email = attempt[a].email
               /\ user[u].link # Nobody => vouched[user[u].link] # user[u].email
            \/ Outdated(a)]_vars
=============================================================================
