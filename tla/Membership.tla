------------------------------ MODULE Membership ------------------------------
(***************************************************************************)
(* Who belongs to a house: its members' roles and its invitations          *)
(* (repository/houses.go, the invitation half of repository/reliability.go *)
(* and their handlers).                                                    *)
(*                                                                         *)
(* A request is two steps.  The handler reads the caller's role and the    *)
(* clock, then a transaction that locks the house row decides and writes.  *)
(* Whatever other requests commit in between, the second step still uses   *)
(* what the first one read.  Houses are independent: there is one here.    *)
(***************************************************************************)
CONSTANTS
  Users,          \* user accounts; an invitation addresses one by e-mail
  Founder,        \* creator of the house
  Invites,        \* identifiers of invitations, each used once
  Requests,       \* bound: requests in flight at the same time
  Roles,          \* "admin" and lesser roles
  NoUser, NoInvite

ASSUME MembershipAssumption ==
  /\ Founder \in Users /\ NoUser \notin Users
  /\ NoInvite \notin Invites
  /\ "admin" \in Roles /\ "none" \notin Roles

VARIABLES
  role,     \* house_members: the role of each user, "none" for strangers
  invite,   \* house_invitations
  link,     \* invitations whose outbox message holds their encrypted link
  overdue,  \* invitations whose expires_at has passed, whatever their status
  req       \* requests between their handler's checks and their transaction

vars == <<role, invite, link, overdue, req>>

Invitation == [status : {"absent", "pending", "accepted", "revoked", "expired"},
               email : Users \cup {NoUser}, role : Roles]
Request == [op : {"idle", "create", "list", "expire", "revoke", "accept",
                  "setrole", "remove"},
            actor : Users \cup {NoUser}, subject : Users \cup {NoUser},
            invite : Invites \cup {NoInvite}, role : Roles, overdue : SUBSET Invites,
            found : SUBSET Invites]

IdleRequest == [op |-> "idle", actor |-> NoUser, subject |-> NoUser,
                invite |-> NoInvite, role |-> "admin", overdue |-> {}, found |-> {}]

TypeOK ==
  /\ role \in [Users -> Roles \cup {"none"}]
  /\ invite \in [Invites -> Invitation]
  /\ link \subseteq Invites
  /\ overdue \subseteq Invites
  /\ req \in [Requests -> Request]
  /\ \A r \in Requests :
       /\ req[r].op \in {"create", "setrole", "remove"} => req[r].subject \in Users
       /\ req[r].op = "accept" => req[r].actor \in Users
       /\ req[r].op \in {"create", "revoke", "accept"} => req[r].invite \in Invites

\* CreateWithAdmin: the house and the membership of its creator appear together.
Init ==
  /\ role = [u \in Users |-> IF u = Founder THEN "admin" ELSE "none"]
  /\ invite = [i \in Invites |-> [status |-> "absent", email |-> NoUser, role |-> "admin"]]
  /\ link = {}
  /\ overdue = {}
  /\ req = [r \in Requests |-> IdleRequest]

Pending == {i \in Invites : invite[i].status = "pending"}

-----------------------------------------------------------------------------
(* Handlers: the checks made before the transaction *)

\* Ends request r, whatever its answer.
Done(r) == req' = [req EXCEPT ![r] = IdleRequest]

\* models.NewID: identifiers no row and no other request has.
FreshIds == {i \in Invites : /\ invite[i].status = "absent"
                            /\ \A r \in Requests : req[r].invite # i}

AdminRequest(op, a, s, i, ro) ==
  [op |-> op, actor |-> a,
   subject |-> IF op \in {"create", "setrole", "remove"} THEN s ELSE NoUser,
   invite |-> IF op \in {"create", "revoke"} THEN i ELSE NoInvite,
   role |-> IF op \in {"create", "setrole"} THEN ro ELSE "admin",
   overdue |-> overdue, found |-> {}]

\* Every house route but acceptance asks for an admin.
BeginAsAdmin(r) ==
  /\ req[r].op = "idle"
  /\ \E a \in Users, s \in Users, i \in Invites, ro \in Roles,
        op \in {"create", "list", "revoke", "setrole", "remove"} :
       /\ role[a] = "admin"
       /\ op = "revoke" => invite[i].status # "absent"
       /\ op = "create" => i \in FreshIds
       /\ req' = [req EXCEPT ![r] = AdminRequest(op, a, s, i, ro)]
  /\ UNCHANGED <<role, invite, link, overdue>>

\* Anyone who was given the link may try to accept.
BeginAccept(r) ==
  /\ req[r].op = "idle"
  /\ \E a \in Users, i \in Invites :
       /\ invite[i].status # "absent"
       /\ req' = [req EXCEPT ![r] =
            [op |-> "accept", actor |-> a, subject |-> NoUser, invite |-> i,
             role |-> "admin", overdue |-> overdue, found |-> {}]]
  /\ UNCHANGED <<role, invite, link, overdue>>

-----------------------------------------------------------------------------
(* Roles *)

\* Mutant of AnotherAdmin: the last admin counts as another one.
AnyAdmin(u) == \E v \in Users : role[v] = "admin"

\* ensureAnotherAdmin, called under the house lock for an admin u.
AnotherAdmin(u) == \E v \in Users \ {u} : role[v] = "admin"

\* An unknown member, or the last admin, leaves everything as it was.
UpdateMemberRole(r) ==
  LET u == req[r].subject IN
  /\ req[r].op = "setrole"
  /\ role' = IF /\ role[u] # "none"
                /\ role[u] = "admin" /\ req[r].role # "admin" => AnotherAdmin(u)
             THEN [role EXCEPT ![u] = req[r].role] ELSE role
  /\ Done(r)
  /\ UNCHANGED <<invite, link, overdue>>

RemoveMember(r) ==
  LET u == req[r].subject IN
  /\ req[r].op = "remove"
  /\ role' = IF role[u] = "admin" => AnotherAdmin(u)
             THEN [role EXCEPT ![u] = "none"] ELSE role
  /\ Done(r)
  /\ UNCHANGED <<invite, link, overdue>>

-----------------------------------------------------------------------------
(* Invitations *)

\* The invitations once those of S are marked as expired.
Expired(S) == [i \in Invites |-> IF i \in S THEN [invite[i] EXCEPT !.status = "expired"]
                                 ELSE invite[i]]

\* The pending invitations to the same address that are left once those expired
\* at the request's own instant are marked.
BlockedBy(r) == {i \in Pending \ req[r].overdue : invite[i].email = req[r].subject}

\* Mutant of CreateInvitation: the invitations found expired are passed over but
\* not marked.
CreateBesideOverdue(r) ==
  /\ req[r].op = "create"
  /\ \/ /\ BlockedBy(r) # {}
        /\ UNCHANGED <<invite, link>>
     \/ /\ BlockedBy(r) = {}
        /\ invite' = [invite EXCEPT ![req[r].invite] =
             [status |-> "pending", email |-> req[r].subject, role |-> req[r].role]]
        /\ link' = link \cup {req[r].invite}
  /\ Done(r)
  /\ UNCHANGED <<role, overdue>>

\* A refusal rolls the expiries back.
CreateInvitation(r) ==
  /\ req[r].op = "create"
  /\ \/ /\ BlockedBy(r) # {}
        /\ UNCHANGED <<invite, link>>
     \/ /\ BlockedBy(r) = {}
        /\ invite' = [Expired(Pending \cap req[r].overdue) EXCEPT ![req[r].invite] =
             [status |-> "pending", email |-> req[r].subject, role |-> req[r].role]]
        /\ link' = (link \ (Pending \cap req[r].overdue)) \cup {req[r].invite}
  /\ Done(r)
  /\ UNCHANGED <<role, overdue>>

\* ListInvitations, without the house lock: it selects the invitations to expire,
ListSelect(r) ==
  /\ req[r].op = "list"
  /\ req' = [req EXCEPT ![r].op = "expire", ![r].found = Pending \cap req[r].overdue]
  /\ UNCHANGED <<role, invite, link, overdue>>

\* then marks those still pending and erases the links of the selected ones.
ListExpire(r) ==
  /\ req[r].op = "expire"
  /\ invite' = Expired(Pending \cap req[r].overdue)
  /\ link' = link \ req[r].found
  /\ Done(r)
  /\ UNCHANGED <<role, overdue>>

\* Mutant of StillOpen: the status was checked before the house was locked.
OpenWhenAsked(r) == req[r].invite \notin req[r].overdue

\* Read again under the house lock.  Expiry is judged at the request's instant.
StillOpen(r) == req[r].invite \in Pending \ req[r].overdue

\* An expired invitation is marked in a transaction that is then rolled back.
RevokeInvitation(r) ==
  LET i == req[r].invite IN
  /\ req[r].op = "revoke"
  /\ \/ /\ StillOpen(r)
        /\ invite' = [invite EXCEPT ![i].status = "revoked"]
        /\ link' = link \ {i}
     \/ /\ ~StillOpen(r)
        /\ UNCHANGED <<invite, link>>
  /\ Done(r)
  /\ UNCHANGED <<role, overdue>>

\* Mutant of Joined: the insert overwrites the role of a member that is no admin.
JoinedAnew(u, i) == IF role[u] # "admin" THEN [role EXCEPT ![u] = invite[i].role] ELSE role

\* The membership insert does nothing for a user who already is a member.
Joined(u, i) == IF role[u] = "none" THEN [role EXCEPT ![u] = invite[i].role] ELSE role

\* Mutants of AcceptInvitation: a repeated acceptance inserts the membership
\* again; the link stays in the message.
AcceptRejoining(r) ==
  LET i == req[r].invite  u == req[r].actor IN
  /\ req[r].op = "accept"
  /\ \/ /\ invite[i].email = u /\ (StillOpen(r) \/ invite[i].status = "accepted")
        /\ role' = Joined(u, i)
        /\ invite' = [invite EXCEPT ![i].status = "accepted"]
        /\ link' = link \ {i}
     \/ /\ ~(invite[i].email = u /\ (StillOpen(r) \/ invite[i].status = "accepted"))
        /\ UNCHANGED <<role, invite, link>>
  /\ Done(r)
  /\ UNCHANGED overdue
AcceptKeepingLink(r) ==
  LET i == req[r].invite  u == req[r].actor IN
  /\ req[r].op = "accept"
  /\ \/ /\ invite[i].email = u /\ StillOpen(r)
        /\ role' = Joined(u, i)
        /\ invite' = [invite EXCEPT ![i].status = "accepted"]
     \/ /\ ~(invite[i].email = u /\ StillOpen(r))
        /\ UNCHANGED <<role, invite>>
  /\ Done(r)
  /\ UNCHANGED <<link, overdue>>

\* Only its addressee opens an invitation; a repeated acceptance is answered
\* again and changes nothing.
AcceptInvitation(r) ==
  LET i == req[r].invite  u == req[r].actor IN
  /\ req[r].op = "accept"
  /\ \/ /\ invite[i].email = u /\ StillOpen(r)
        /\ role' = Joined(u, i)
        /\ invite' = [invite EXCEPT ![i].status = "accepted"]
        /\ link' = link \ {i}
     \/ /\ ~(invite[i].email = u /\ StillOpen(r))
        /\ UNCHANGED <<role, invite, link>>
  /\ Done(r)
  /\ UNCHANGED overdue

\* The worker's check before a send, when it finds the invitation expired.
InvitationDeliveryAvailable(i) ==
  /\ i \in Pending \cap overdue
  /\ invite' = Expired({i})
  /\ link' = link \ {i}
  /\ UNCHANGED <<role, overdue, req>>

\* The worker settles the invitation's message: its link goes with it.
MessageSettled(i) ==
  /\ i \in link
  /\ link' = link \ {i}
  /\ UNCHANGED <<role, invite, overdue, req>>

\* Time passes expires_at.
BecomeOverdue(i) ==
  /\ invite[i].status # "absent" /\ i \notin overdue
  /\ overdue' = overdue \cup {i}
  /\ UNCHANGED <<role, invite, link, req>>

Next ==
  \/ \E r \in Requests :
       \/ BeginAsAdmin(r) \/ BeginAccept(r)
       \/ UpdateMemberRole(r) \/ RemoveMember(r)
       \/ CreateInvitation(r) \/ ListSelect(r) \/ ListExpire(r)
       \/ RevokeInvitation(r) \/ AcceptInvitation(r)
  \/ \E i \in Invites :
       InvitationDeliveryAvailable(i) \/ MessageSettled(i) \/ BecomeOverdue(i)

Spec == Init /\ [][Next]_vars

-----------------------------------------------------------------------------
(* Correctness *)

\* A house never loses its last admin, not even when two admins demote or
\* remove each other at once (ErrLastAdmin).
AlwaysAnAdmin == \E u \in Users : role[u] = "admin"

\* An invitation is decided once: of an acceptance, a revocation and an expiry
\* that race only one takes effect, and it stays.
VerdictsAreFinal ==
  [][\A i \in Invites : invite[i].status \notin {"absent", "pending"}
                          => invite'[i] = invite[i]]_vars

\* A stranger becomes a member only by an acceptance of theirs, asked for before the
\* invitation ran out, of an open invitation addressed to them and with its role: a
\* spent link readmits nobody, and one whose expiry was noticed and rolled back again
\* admits nobody who comes later.
JoinsByInvitation ==
  [][\A u \in Users : role[u] = "none" /\ role'[u] # "none" =>
       \E r \in Requests :
         LET i == req[r].invite IN
         /\ req[r].op = "accept" /\ req[r].actor = u
         /\ invite[i].status = "pending" /\ i \notin req[r].overdue
         /\ invite'[i].status = "accepted"
         /\ invite[i].email = u /\ invite[i].role = role'[u]]_vars

\* Nothing but a role update or a removal changes the role of a member: to
\* accept an invitation never demotes anybody.
RolesChangeOnRequest ==
  [][\A u \in Users : role[u] # "none" /\ role'[u] # role[u] =>
       \E r \in Requests : /\ req[r].op \in {"setrole", "remove"}
                           /\ req[r].subject = u /\ req'[r].op = "idle"]_vars

\* Whichever transaction decides an invitation also erases its link, and a list
\* that races a decision does not leave one behind.
LinkOnlyWhilePending == link \subseteq Pending

\* No invitation is expired before its time.
ExpiredMeansOverdue ==
  \A i \in Invites : invite[i].status = "expired" => i \in overdue

\* At most one invitation to an address is pending, overdue ones included: the mark
\* that a refused acceptance rolled back is made good before another invitation is
\* inserted, so idx_house_invitations_pending_email never refuses the insert.
OneInvitationPerAddress ==
  \A i, j \in Pending : invite[i].email = invite[j].email => i = j

\* A house keeps an admin, an invitation, the link the outbox holds of it and its
\* time agree, and no address has two of them open.
MembershipInv ==
  /\ TypeOK /\ AlwaysAnAdmin /\ LinkOnlyWhilePending /\ ExpiredMeansOverdue
  /\ OneInvitationPerAddress
=============================================================================
