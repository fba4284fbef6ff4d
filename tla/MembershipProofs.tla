---------------------------- MODULE MembershipProofs ----------------------------
(* What holds of a house for every number of users, invitations and requests *)
(* in flight.                                                                *)
EXTENDS Membership, TLAPS

\* What requests in flight know is older than the rows, never newer, and no two
\* creations have drawn the same identifier.
InFlight ==
  /\ \A i \in Invites : invite[i].status = "absent" => i \notin overdue
  /\ \A r \in Requests :
       /\ req[r].overdue \subseteq overdue
       /\ req[r].op = "expire" => Pending \cap req[r].overdue \subseteq req[r].found
       /\ req[r].op = "create" => invite[req[r].invite].status = "absent"
  /\ \A r, s \in Requests :
       r # s /\ req[r].op = "create" /\ req[s].op = "create"
         => req[r].invite # req[s].invite

\* The strengthening of the invariants that is inductive.
IInv == TypeOK /\ AlwaysAnAdmin /\ LinkOnlyWhilePending /\ ExpiredMeansOverdue
        /\ OneInvitationPerAddress /\ InFlight

-----------------------------------------------------------------------------
LEMMA DoneTyped ==
  ASSUME TypeOK, NEW r \in Requests, Done(r)
  PROVE  /\ req' \in [Requests -> Request]
         /\ \A s \in Requests :
              /\ req'[s].op \in {"create", "setrole", "remove"} => req'[s].subject \in Users
              /\ req'[s].op = "accept" => req'[s].actor \in Users
              /\ req'[s].op \in {"create", "revoke", "accept"} => req'[s].invite \in Invites
<1>1. IdleRequest \in Request
  BY MembershipAssumption DEF MembershipAssumption, IdleRequest, Request
<1>2. IdleRequest.op = "idle"
  BY DEF IdleRequest
<1>3. \A s \in Requests : req'[s] = IF s = r THEN IdleRequest ELSE req[s]
  BY DEF Done, TypeOK
<1>4. req' \in [Requests -> Request]
  BY <1>1 DEF Done, TypeOK
<1> QED
  BY <1>2, <1>3, <1>4 DEF TypeOK

LEMMA ExpiredTyped ==
  ASSUME TypeOK, NEW S
  PROVE  Expired(S) \in [Invites -> Invitation]
<1>1. \A j \in Invitation : [j EXCEPT !.status = "expired"] \in Invitation
  BY DEF Invitation
<1> QED
  BY <1>1 DEF Expired, TypeOK

LEMMA StatusTyped ==
  ASSUME TypeOK, NEW i \in Invites, NEW s \in {"accepted", "revoked"}
  PROVE  [invite EXCEPT ![i].status = s] \in [Invites -> Invitation]
<1>1. \A j \in Invitation : [j EXCEPT !.status = s] \in Invitation
  BY DEF Invitation
<1> QED
  BY <1>1 DEF TypeOK

\* Every variable keeps its type (the rows of houses.go and reliability.go).
THEOREM MembershipTypeCorrect == Spec => []TypeOK
<1>1. Init => TypeOK
  <2> SUFFICES ASSUME Init PROVE TypeOK
    OBVIOUS
  <2>1. IdleRequest \in Request /\ IdleRequest.op = "idle"
    BY MembershipAssumption DEF MembershipAssumption, IdleRequest, Request
  <2>2. [status |-> "absent", email |-> NoUser, role |-> "admin"] \in Invitation
    BY MembershipAssumption DEF MembershipAssumption, Invitation
  <2> QED
    BY <2>1, <2>2, MembershipAssumption DEF MembershipAssumption, Init, TypeOK
<1>2. TypeOK /\ [Next]_vars => TypeOK'
  <2> SUFFICES ASSUME TypeOK, [Next]_vars PROVE TypeOK'
    OBVIOUS
  <2>1. ASSUME NEW r \in Requests, BeginAsAdmin(r) PROVE TypeOK'
    <3>1. PICK a \in Users, s \in Users, i \in Invites, ro \in Roles,
               op \in {"create", "list", "revoke", "setrole", "remove"} :
            /\ role[a] = "admin"
            /\ op = "revoke" => invite[i].status # "absent"
            /\ op = "create" => i \in FreshIds
            /\ req' = [req EXCEPT ![r] = AdminRequest(op, a, s, i, ro)]
      BY <2>1 DEF BeginAsAdmin
    <3> DEFINE q == AdminRequest(op, a, s, i, ro)
    <3>2. /\ q \in Request
          /\ q.op \in {"create", "setrole", "remove"} => q.subject \in Users
          /\ q.op # "accept"
          /\ q.op \in {"create", "revoke"} => q.invite \in Invites
      BY MembershipAssumption DEF MembershipAssumption, TypeOK, Request, AdminRequest
    <3>3. req' = [req EXCEPT ![r] = q]
      BY <3>1
    <3> HIDE DEF q
    <3>4. req' \in [Requests -> Request] /\ \A v \in Requests : req'[v] = IF v = r THEN q ELSE req[v]
      BY <3>2, <3>3 DEF TypeOK
    <3> QED
      BY <2>1, <3>2, <3>4 DEF BeginAsAdmin, TypeOK
  <2>2. ASSUME NEW r \in Requests, BeginAccept(r) PROVE TypeOK'
    <3>1. PICK a \in Users, i \in Invites :
            req' = [req EXCEPT ![r] =
              [op |-> "accept", actor |-> a, subject |-> NoUser, invite |-> i,
               role |-> "admin", overdue |-> overdue, found |-> {}]]
      BY <2>2 DEF BeginAccept
    <3> DEFINE q == [op |-> "accept", actor |-> a, subject |-> NoUser, invite |-> i,
                     role |-> "admin", overdue |-> overdue, found |-> {}]
    <3>2. q \in Request /\ q.op = "accept" /\ q.actor \in Users /\ q.invite \in Invites
      BY MembershipAssumption DEF MembershipAssumption, TypeOK, Request
    <3>3. req' = [req EXCEPT ![r] = q]
      BY <3>1
    <3> HIDE DEF q
    <3>4. req' \in [Requests -> Request] /\ \A v \in Requests : req'[v] = IF v = r THEN q ELSE req[v]
      BY <3>2, <3>3 DEF TypeOK
    <3> QED
      BY <2>2, <3>2, <3>4 DEF BeginAccept, TypeOK
  <2>3. ASSUME NEW r \in Requests, UpdateMemberRole(r) PROVE TypeOK'
    <3>1. role' \in [Users -> Roles \cup {"none"}]
      BY <2>3 DEF UpdateMemberRole, TypeOK, Request
    <3> QED
      BY <2>3, <3>1, DoneTyped DEF UpdateMemberRole, TypeOK
  <2>4. ASSUME NEW r \in Requests, RemoveMember(r) PROVE TypeOK'
    <3>1. role' \in [Users -> Roles \cup {"none"}]
      BY <2>4 DEF RemoveMember, TypeOK
    <3> QED
      BY <2>4, <3>1, DoneTyped DEF RemoveMember, TypeOK
  <2>5. ASSUME NEW r \in Requests, CreateInvitation(r) PROVE TypeOK'
    <3>1. req[r].invite \in Invites
      BY <2>5 DEF CreateInvitation, TypeOK
    <3>2. [status |-> "pending", email |-> req[r].subject, role |-> req[r].role] \in Invitation
      BY <2>5 DEF CreateInvitation, TypeOK, Request, Invitation
    <3>3. invite' \in [Invites -> Invitation] /\ link' \subseteq Invites
      BY <2>5, <3>1, <3>2, ExpiredTyped DEF CreateInvitation, TypeOK
    <3> QED
      BY <2>5, <3>3, DoneTyped DEF CreateInvitation, TypeOK
  <2>6. ASSUME NEW r \in Requests, ListSelect(r) PROVE TypeOK'
    <3>1. \A q \in Request : \A S \in SUBSET Invites :
            LET p == [[q EXCEPT !.op = "expire"] EXCEPT !.found = S] IN
            p \in Request /\ p.op = "expire"
      BY DEF Request
    <3>2. Pending \cap req[r].overdue \in SUBSET Invites
      BY DEF Pending
    <3> DEFINE p == [[req[r] EXCEPT !.op = "expire"]
                       EXCEPT !.found = Pending \cap req[r].overdue]
    <3>3. p \in Request /\ p.op = "expire"
      BY <3>1, <3>2 DEF TypeOK
    <3>4. req' = [req EXCEPT ![r] = p]
      BY <2>6 DEF ListSelect, TypeOK
    <3> HIDE DEF p
    <3>5. req' \in [Requests -> Request] /\ \A v \in Requests : req'[v] = IF v = r THEN p ELSE req[v]
      BY <3>3, <3>4 DEF TypeOK
    <3> QED
      BY <2>6, <3>3, <3>5 DEF ListSelect, TypeOK
  <2>7. ASSUME NEW r \in Requests, ListExpire(r) PROVE TypeOK'
    BY <2>7, DoneTyped, ExpiredTyped DEF ListExpire, TypeOK
  <2>8. ASSUME NEW r \in Requests, RevokeInvitation(r) PROVE TypeOK'
    <3>1. req[r].invite \in Invites
      BY <2>8 DEF RevokeInvitation, TypeOK
    <3>2. invite' \in [Invites -> Invitation]
      <4>1. [invite EXCEPT ![req[r].invite].status = "revoked"] \in [Invites -> Invitation]
        BY <3>1, StatusTyped
      <4> QED
        BY <2>8, <4>1 DEF RevokeInvitation, TypeOK
    <3>3. link' \subseteq Invites
      BY <2>8 DEF RevokeInvitation, TypeOK
    <3> QED
      BY <2>8, <3>2, <3>3, DoneTyped DEF RevokeInvitation, TypeOK
  <2>9. ASSUME NEW r \in Requests, AcceptInvitation(r) PROVE TypeOK'
    <3>1. req[r].invite \in Invites /\ req[r].actor \in Users
      BY <2>9 DEF AcceptInvitation, TypeOK
    <3>2. invite' \in [Invites -> Invitation]
      <4>1. [invite EXCEPT ![req[r].invite].status = "accepted"] \in [Invites -> Invitation]
        BY <3>1, StatusTyped
      <4> QED
        BY <2>9, <4>1 DEF AcceptInvitation, TypeOK
    <3>4. link' \subseteq Invites
      BY <2>9 DEF AcceptInvitation, TypeOK
    <3>3. role' \in [Users -> Roles \cup {"none"}]
      BY <2>9, <3>1 DEF AcceptInvitation, Joined, TypeOK, Invitation
    <3> QED
      BY <2>9, <3>2, <3>3, <3>4, DoneTyped DEF AcceptInvitation, TypeOK
  <2>10. ASSUME NEW i \in Invites, InvitationDeliveryAvailable(i) PROVE TypeOK'
    BY <2>10, ExpiredTyped DEF InvitationDeliveryAvailable, TypeOK
  <2>11. ASSUME NEW i \in Invites, MessageSettled(i) PROVE TypeOK'
    BY <2>11 DEF MessageSettled, TypeOK
  <2>12. ASSUME NEW i \in Invites, BecomeOverdue(i) PROVE TypeOK'
    BY <2>12 DEF BecomeOverdue, TypeOK
  <2>13. CASE UNCHANGED vars
    BY <2>13 DEF vars, TypeOK
  <2> QED
    BY <2>1, <2>2, <2>3, <2>4, <2>5, <2>6, <2>7, <2>8, <2>9, <2>10, <2>11, <2>12,
       <2>13 DEF Next
<1> QED
  BY <1>1, <1>2, PTL DEF Spec

-----------------------------------------------------------------------------
LEMMA ExpiredRows ==
  ASSUME TypeOK, NEW S
  PROVE  \A j \in Invites :
           /\ j \in S => Expired(S)[j].status = "expired"
           /\ j \notin S => Expired(S)[j] = invite[j]
BY DEF Expired, TypeOK, Invitation

\* The requests and the clock only ever fall behind.
LEMMA DoneInFlight ==
  ASSUME TypeOK, InFlight, NEW r \in Requests, Done(r), UNCHANGED overdue,
         \A j \in Invites : /\ invite'[j].status = "absent" => invite[j].status = "absent"
                            /\ invite[j].status = "absent" => invite'[j].status = "absent"
                            /\ invite'[j].status = "pending" => invite[j].status = "pending"
  PROVE  InFlight'
<1>1. \A s \in Requests : req'[s] = IF s = r THEN IdleRequest ELSE req[s]
  BY DEF Done, TypeOK
<1>2. IdleRequest.op = "idle" /\ IdleRequest.overdue = {}
  BY DEF IdleRequest
<1>3. Pending' \subseteq Pending
  BY DEF Pending
<1>4. ASSUME NEW s \in Requests
      PROVE  /\ req'[s].overdue \subseteq overdue'
             /\ req'[s].op = "expire" => Pending' \cap req'[s].overdue \subseteq req'[s].found
             /\ req'[s].op = "create" => invite'[req'[s].invite].status = "absent"
  BY <1>1, <1>2, <1>3 DEF InFlight, TypeOK
<1>5. \A s, v \in Requests :
        s # v /\ req'[s].op = "create" /\ req'[v].op = "create"
          => req'[s].invite # req'[v].invite
  BY <1>1, <1>2 DEF InFlight
<1> QED
  BY <1>4, <1>5 DEF InFlight

LEMMA InFlightStep == TypeOK /\ InFlight /\ [Next]_vars => InFlight'
<1> SUFFICES ASSUME TypeOK, InFlight, [Next]_vars PROVE InFlight'
  OBVIOUS
<1>1. ASSUME NEW r \in Requests, NEW q,
             req' = [req EXCEPT ![r] = q], q.overdue = overdue, q.op # "expire",
             q.op = "create" => q.invite \in FreshIds,
             UNCHANGED <<role, invite, link, overdue>>
      PROVE  InFlight'
  <2>1. \A s \in Requests : req'[s] = IF s = r THEN q ELSE req[s]
    BY <1>1 DEF TypeOK
  <2>2. Pending' = Pending
    BY <1>1 DEF Pending
  <2>3. ASSUME NEW s \in Requests
        PROVE  /\ req'[s].overdue \subseteq overdue'
               /\ req'[s].op = "expire" => Pending' \cap req'[s].overdue \subseteq req'[s].found
               /\ req'[s].op = "create" => invite'[req'[s].invite].status = "absent"
    BY <1>1, <2>1, <2>2 DEF InFlight, FreshIds
  <2>4. \A s, v \in Requests :
          s # v /\ req'[s].op = "create" /\ req'[v].op = "create"
            => req'[s].invite # req'[v].invite
    BY <1>1, <2>1 DEF InFlight, FreshIds
  <2> QED
    BY <1>1, <2>3, <2>4 DEF InFlight
<1>2. ASSUME NEW r \in Requests, BeginAsAdmin(r) PROVE InFlight'
  <2>1. PICK a \in Users, s \in Users, i \in Invites, ro \in Roles,
             op \in {"create", "list", "revoke", "setrole", "remove"} :
          /\ role[a] = "admin"
          /\ op = "revoke" => invite[i].status # "absent"
          /\ op = "create" => i \in FreshIds
          /\ req' = [req EXCEPT ![r] = AdminRequest(op, a, s, i, ro)]
    BY <1>2 DEF BeginAsAdmin
  <2> DEFINE q == AdminRequest(op, a, s, i, ro)
  <2>2. /\ q.overdue = overdue /\ q.op # "expire"
        /\ q.op = "create" => q.invite \in FreshIds
    BY <2>1 DEF AdminRequest
  <2> HIDE DEF q
  <2> QED
    BY <1>1, <1>2, <2>1, <2>2 DEF BeginAsAdmin, q
<1>3. ASSUME NEW r \in Requests, BeginAccept(r) PROVE InFlight'
  <2>1. PICK a \in Users, i \in Invites :
          /\ invite[i].status # "absent"
          /\ req' = [req EXCEPT ![r] =
            [op |-> "accept", actor |-> a, subject |-> NoUser, invite |-> i,
             role |-> "admin", overdue |-> overdue, found |-> {}]]
    BY <1>3 DEF BeginAccept
  <2> DEFINE q == [op |-> "accept", actor |-> a, subject |-> NoUser, invite |-> i,
                   role |-> "admin", overdue |-> overdue, found |-> {}]
  <2>2. q.overdue = overdue /\ q.op # "expire" /\ q.op # "create"
    OBVIOUS
  <2>3. req' = [req EXCEPT ![r] = q]
    BY <2>1
  <2>4. UNCHANGED <<role, invite, link, overdue>>
    BY <1>3 DEF BeginAccept
  <2> HIDE DEF q
  <2> QED
    BY <1>1, <2>2, <2>3, <2>4
<1>4. ASSUME NEW r \in Requests, CreateInvitation(r) PROVE InFlight'
  <2>1. CASE UNCHANGED invite
    BY <1>4, <2>1, DoneInFlight DEF CreateInvitation
  <2>2. CASE invite' = [Expired(Pending \cap req[r].overdue) EXCEPT ![req[r].invite] =
               [status |-> "pending", email |-> req[r].subject, role |-> req[r].role]]
    <3> DEFINE i == req[r].invite
               S == Pending \cap req[r].overdue
    <3>1. i \in Invites /\ invite[i].status = "absent" /\ i \notin overdue
      BY <1>4 DEF CreateInvitation, InFlight, TypeOK
    <3>2. /\ invite'[i].status = "pending"
          /\ \A j \in Invites : j # i /\ j \in S => invite'[j].status = "expired"
          /\ \A j \in Invites : j # i /\ j \notin S => invite'[j] = invite[j]
      <4>1. Expired(S) \in [Invites -> Invitation]
        BY ExpiredTyped
      <4>2. \A j \in Invites : /\ j \in S => Expired(S)[j].status = "expired"
                               /\ j \notin S => Expired(S)[j] = invite[j]
        BY ExpiredRows
      <4> HIDE DEF S
      <4> QED
        BY <2>2, <3>1, <4>1, <4>2 DEF S
    <3>3. \A j \in S : invite[j].status = "pending"
      BY DEF Pending
    <3>4. \A s \in Requests : req'[s] = IF s = r THEN IdleRequest ELSE req[s]
      BY <1>4 DEF CreateInvitation, Done, TypeOK
    <3>5. IdleRequest.op = "idle" /\ IdleRequest.overdue = {}
      BY DEF IdleRequest
    <3>6. UNCHANGED overdue /\ req[r].op = "create"
      BY <1>4 DEF CreateInvitation
    <3>7. Pending' \subseteq Pending \cup {i}
      BY <3>2 DEF Pending
    <3> HIDE DEF S, i
    <3>8. \A j \in Invites : invite'[j].status = "absent" => invite[j].status = "absent"
      BY <3>2, <3>3
    <3>9. ASSUME NEW s \in Requests
          PROVE  /\ req'[s].overdue \subseteq overdue'
                 /\ req'[s].op = "expire" => Pending' \cap req'[s].overdue \subseteq req'[s].found
      BY <3>1, <3>4, <3>5, <3>6, <3>7 DEF InFlight
    <3>10. ASSUME NEW s \in Requests, req'[s].op = "create"
           PROVE  invite'[req'[s].invite].status = "absent"
      <4>1. s # r /\ req'[s] = req[s]
        BY <3>4, <3>5, <3>10
      <4>2. req[s].invite \in Invites /\ req[s].invite # i /\ invite[req[s].invite].status = "absent"
        BY <3>6, <3>10, <4>1 DEF InFlight, TypeOK, i
      <4>3. req[s].invite \notin S
        BY <3>3, <4>2
      <4> QED
        BY <3>2, <4>1, <4>2, <4>3
    <3>11. \A s, v \in Requests :
             s # v /\ req'[s].op = "create" /\ req'[v].op = "create"
               => req'[s].invite # req'[v].invite
      BY <3>4, <3>5 DEF InFlight
    <3> QED
      BY <3>6, <3>8, <3>9, <3>10, <3>11 DEF InFlight
  <2> QED
    BY <1>4, <2>1, <2>2 DEF CreateInvitation
<1>5. ASSUME NEW r \in Requests, ListSelect(r) PROVE InFlight'
  <2>1. /\ req'[r].op = "expire" /\ req'[r].overdue = req[r].overdue
        /\ req'[r].found = Pending \cap req[r].overdue
        /\ \A s \in Requests : s # r => req'[s] = req[s]
    BY <1>5 DEF ListSelect, TypeOK, Request
  <2>2. UNCHANGED <<invite, overdue>> /\ Pending' = Pending
    BY <1>5 DEF ListSelect, Pending
  <2>3. ASSUME NEW s \in Requests
        PROVE  /\ req'[s].overdue \subseteq overdue'
               /\ req'[s].op = "expire" => Pending' \cap req'[s].overdue \subseteq req'[s].found
               /\ req'[s].op = "create" => invite'[req'[s].invite].status = "absent"
    BY <2>1, <2>2 DEF InFlight
  <2>4. \A s, v \in Requests :
          s # v /\ req'[s].op = "create" /\ req'[v].op = "create"
            => req'[s].invite # req'[v].invite
    BY <2>1 DEF InFlight
  <2> QED
    BY <2>2, <2>3, <2>4 DEF InFlight
<1>6. ASSUME NEW S \in SUBSET Pending, invite' = Expired(S)
      PROVE  \A j \in Invites : /\ invite'[j].status = "absent" => invite[j].status = "absent"
                                /\ invite[j].status = "absent" => invite'[j].status = "absent"
                                /\ invite'[j].status = "pending" => invite[j].status = "pending"
  BY <1>6, ExpiredRows DEF Pending
<1>7. ASSUME NEW i \in Invites, NEW s \in {"accepted", "revoked"}, i \in Pending,
             invite' = [invite EXCEPT ![i].status = s]
      PROVE  \A j \in Invites : /\ invite'[j].status = "absent" => invite[j].status = "absent"
                                /\ invite[j].status = "absent" => invite'[j].status = "absent"
                                /\ invite'[j].status = "pending" => invite[j].status = "pending"
  BY <1>7 DEF Pending, TypeOK, Invitation
<1>8. ASSUME NEW r \in Requests, ListExpire(r) PROVE InFlight'
  BY <1>6, <1>8, DoneInFlight DEF ListExpire
<1>9. ASSUME NEW r \in Requests, RevokeInvitation(r) PROVE InFlight'
  <2>1. req[r].invite \in Invites
    BY <1>9 DEF RevokeInvitation, TypeOK
  <2>2. CASE UNCHANGED invite
    BY <1>9, <2>2, DoneInFlight DEF RevokeInvitation
  <2>3. CASE StillOpen(r) /\ invite' = [invite EXCEPT ![req[r].invite].status = "revoked"]
    <3>1. req[r].invite \in Pending
      BY <2>3 DEF StillOpen
    <3> QED
      BY <1>7, <1>9, <2>1, <2>3, <3>1, DoneInFlight DEF RevokeInvitation
  <2> QED
    BY <1>9, <2>2, <2>3 DEF RevokeInvitation
<1>10. ASSUME NEW r \in Requests, AcceptInvitation(r) PROVE InFlight'
  <2>1. req[r].invite \in Invites
    BY <1>10 DEF AcceptInvitation, TypeOK
  <2>2. CASE UNCHANGED invite
    BY <1>10, <2>2, DoneInFlight DEF AcceptInvitation
  <2>3. CASE StillOpen(r) /\ invite' = [invite EXCEPT ![req[r].invite].status = "accepted"]
    <3>1. req[r].invite \in Pending
      BY <2>3 DEF StillOpen
    <3> QED
      BY <1>7, <1>10, <2>1, <2>3, <3>1, DoneInFlight DEF AcceptInvitation
  <2> QED
    BY <1>10, <2>2, <2>3 DEF AcceptInvitation
<1>11. ASSUME NEW i \in Invites, InvitationDeliveryAvailable(i) PROVE InFlight'
  <2>1. Pending' \subseteq Pending
    BY <1>6, <1>11 DEF InvitationDeliveryAvailable, Pending
  <2>2. UNCHANGED <<req, overdue>>
    BY <1>11 DEF InvitationDeliveryAvailable
  <2>3. \A j \in Invites : /\ invite'[j].status = "absent" => invite[j].status = "absent"
                           /\ invite[j].status = "absent" => invite'[j].status = "absent"
    BY <1>6, <1>11 DEF InvitationDeliveryAvailable
  <2> QED
    BY <2>1, <2>2, <2>3 DEF InFlight, TypeOK
<1>12. ASSUME NEW i \in Invites, BecomeOverdue(i) PROVE InFlight'
  <2>1. Pending' = Pending
    BY <1>12 DEF BecomeOverdue, Pending
  <2> QED
    BY <1>12, <2>1 DEF BecomeOverdue, InFlight
<1>13. CASE UNCHANGED <<invite, overdue, req>>
  <2>1. Pending' = Pending
    BY <1>13 DEF Pending
  <2> QED
    BY <1>13, <2>1 DEF InFlight
<1>14. ASSUME NEW r \in Requests, UpdateMemberRole(r) \/ RemoveMember(r) PROVE InFlight'
  BY <1>14, DoneInFlight DEF UpdateMemberRole, RemoveMember
<1> QED
  BY <1>2, <1>3, <1>4, <1>5, <1>8, <1>9, <1>10, <1>11, <1>12, <1>13, <1>14
     DEF Next, vars, MessageSettled
-----------------------------------------------------------------------------

LEMMA AdminStep == TypeOK /\ AlwaysAnAdmin /\ [Next]_vars => AlwaysAnAdmin'
<1> SUFFICES ASSUME TypeOK, AlwaysAnAdmin, [Next]_vars PROVE AlwaysAnAdmin'
  OBVIOUS
<1>1. CASE UNCHANGED role
  BY <1>1 DEF AlwaysAnAdmin
<1>2. ASSUME NEW r \in Requests, UpdateMemberRole(r) PROVE AlwaysAnAdmin'
  <2>1. req[r].subject \in Users
    BY <1>2 DEF UpdateMemberRole, TypeOK
  <2>2. CASE role[req[r].subject] = "admin" /\ req[r].role # "admin"
    BY <1>2, <2>1, <2>2 DEF UpdateMemberRole, AnotherAdmin, AlwaysAnAdmin, TypeOK
  <2>3. CASE ~(role[req[r].subject] = "admin" /\ req[r].role # "admin")
    BY <1>2, <2>1, <2>3 DEF UpdateMemberRole, AlwaysAnAdmin, TypeOK
  <2> QED
    BY <2>2, <2>3
<1>3. ASSUME NEW r \in Requests, RemoveMember(r) PROVE AlwaysAnAdmin'
  <2>1. req[r].subject \in Users
    BY <1>3 DEF RemoveMember, TypeOK
  <2> QED
    BY <1>3, <2>1 DEF RemoveMember, AnotherAdmin, AlwaysAnAdmin, TypeOK
<1>4. ASSUME NEW r \in Requests, AcceptInvitation(r) PROVE AlwaysAnAdmin'
  BY <1>4 DEF AcceptInvitation, Joined, AlwaysAnAdmin, TypeOK
<1> QED
  BY <1>1, <1>2, <1>3, <1>4
     DEF Next, vars, BeginAsAdmin, BeginAccept, CreateInvitation, ListSelect, ListExpire,
         RevokeInvitation, InvitationDeliveryAvailable, MessageSettled, BecomeOverdue

LEMMA LinkStep ==
  TypeOK /\ LinkOnlyWhilePending /\ InFlight /\ [Next]_vars => LinkOnlyWhilePending'
<1> SUFFICES ASSUME TypeOK, LinkOnlyWhilePending, InFlight, [Next]_vars
             PROVE  LinkOnlyWhilePending'
  OBVIOUS
<1>1. CASE UNCHANGED invite /\ link' \subseteq link
  BY <1>1 DEF LinkOnlyWhilePending, Pending
<1>2. ASSUME NEW S \in SUBSET Pending, NEW T, S \subseteq T, invite' = Expired(S), link' = link \ T
      PROVE  LinkOnlyWhilePending'
  BY <1>2, ExpiredRows DEF LinkOnlyWhilePending, Pending
<1>3. ASSUME NEW i \in Invites, NEW s, invite' = [invite EXCEPT ![i].status = s],
             link' = link \ {i}
      PROVE  LinkOnlyWhilePending'
  BY <1>3 DEF LinkOnlyWhilePending, Pending, TypeOK
<1>4. ASSUME NEW r \in Requests, CreateInvitation(r) PROVE LinkOnlyWhilePending'
  <2>1. CASE UNCHANGED <<invite, link>>
    BY <1>1, <2>1
  <2>2. CASE /\ invite' = [Expired(Pending \cap req[r].overdue) EXCEPT ![req[r].invite] =
                  [status |-> "pending", email |-> req[r].subject, role |-> req[r].role]]
             /\ link' = (link \ (Pending \cap req[r].overdue)) \cup {req[r].invite}
    <3> DEFINE i == req[r].invite
               S == Pending \cap req[r].overdue
    <3>1. i \in Invites
      BY <1>4 DEF CreateInvitation, TypeOK
    <3>2. Expired(S) \in [Invites -> Invitation]
      BY ExpiredTyped
    <3>3. \A j \in Invites : j \notin S => Expired(S)[j] = invite[j]
      BY ExpiredRows
    <3> HIDE DEF S
    <3>4. /\ invite'[i].status = "pending"
          /\ \A j \in Invites : j # i /\ j \notin S => invite'[j] = invite[j]
      BY <2>2, <3>1, <3>2, <3>3 DEF S
    <3>5. link' = (link \ S) \cup {i}
      BY <2>2 DEF S
    <3> HIDE DEF i
    <3> QED
      BY <3>1, <3>4, <3>5 DEF LinkOnlyWhilePending, Pending
  <2> QED
    BY <1>4, <2>1, <2>2 DEF CreateInvitation
<1>5. ASSUME NEW r \in Requests, ListExpire(r) PROVE LinkOnlyWhilePending'
  <2>1. Pending \cap req[r].overdue \subseteq req[r].found
    BY <1>5 DEF ListExpire, InFlight
  <2> QED
    BY <1>2, <1>5, <2>1 DEF ListExpire
<1>6. ASSUME NEW r \in Requests, RevokeInvitation(r) PROVE LinkOnlyWhilePending'
  BY <1>1, <1>3, <1>6 DEF RevokeInvitation, TypeOK
<1>7. ASSUME NEW r \in Requests, AcceptInvitation(r) PROVE LinkOnlyWhilePending'
  BY <1>1, <1>3, <1>7 DEF AcceptInvitation, TypeOK
<1>8. ASSUME NEW i \in Invites, InvitationDeliveryAvailable(i) PROVE LinkOnlyWhilePending'
  BY <1>2, <1>8 DEF InvitationDeliveryAvailable
<1> QED
  BY <1>1, <1>4, <1>5, <1>6, <1>7, <1>8
     DEF Next, vars, BeginAsAdmin, BeginAccept, ListSelect, UpdateMemberRole,
         RemoveMember, MessageSettled, BecomeOverdue
LEMMA ExpiredStep ==
  TypeOK /\ ExpiredMeansOverdue /\ InFlight /\ [Next]_vars => ExpiredMeansOverdue'
<1> SUFFICES ASSUME TypeOK, ExpiredMeansOverdue, InFlight, [Next]_vars
             PROVE  ExpiredMeansOverdue'
  OBVIOUS
<1>1. CASE UNCHANGED invite /\ overdue \subseteq overdue'
  BY <1>1 DEF ExpiredMeansOverdue
<1>2. ASSUME NEW S \in SUBSET overdue, invite' = Expired(S), UNCHANGED overdue
      PROVE  ExpiredMeansOverdue'
  BY <1>2, ExpiredRows DEF ExpiredMeansOverdue
<1>3. ASSUME NEW r \in Requests, CreateInvitation(r) PROVE ExpiredMeansOverdue'
  <2>1. CASE UNCHANGED <<invite, overdue>>
    BY <1>1, <2>1
  <2>2. CASE invite' = [Expired(Pending \cap req[r].overdue) EXCEPT ![req[r].invite] =
                  [status |-> "pending", email |-> req[r].subject, role |-> req[r].role]]
    <3> DEFINE i == req[r].invite
               S == Pending \cap req[r].overdue
    <3>1. i \in Invites
      BY <1>3 DEF CreateInvitation, TypeOK
    <3>2. Expired(S) \in [Invites -> Invitation]
      BY ExpiredTyped
    <3>3. \A j \in Invites : j \notin S => Expired(S)[j] = invite[j]
      BY ExpiredRows
    <3>4. S \subseteq overdue /\ UNCHANGED overdue
      BY <1>3 DEF InFlight, CreateInvitation
    <3> HIDE DEF S
    <3>5. /\ invite'[i].status = "pending"
          /\ \A j \in Invites : j # i /\ j \notin S => invite'[j] = invite[j]
      BY <2>2, <3>1, <3>2, <3>3 DEF S
    <3> HIDE DEF i
    <3> QED
      BY <3>4, <3>5 DEF ExpiredMeansOverdue
  <2> QED
    BY <1>3, <2>1, <2>2 DEF CreateInvitation
<1>4. ASSUME NEW r \in Requests, ListExpire(r) PROVE ExpiredMeansOverdue'
  BY <1>2, <1>4 DEF ListExpire, InFlight
<1>5. ASSUME NEW i \in Invites, NEW s \in {"accepted", "revoked"},
             invite' = [invite EXCEPT ![i].status = s], UNCHANGED overdue
      PROVE  ExpiredMeansOverdue'
  BY <1>5 DEF ExpiredMeansOverdue, TypeOK, Invitation
<1>6. ASSUME NEW r \in Requests, RevokeInvitation(r) PROVE ExpiredMeansOverdue'
  BY <1>1, <1>5, <1>6 DEF RevokeInvitation, TypeOK
<1>7. ASSUME NEW r \in Requests, AcceptInvitation(r) PROVE ExpiredMeansOverdue'
  BY <1>1, <1>5, <1>7 DEF AcceptInvitation, TypeOK
<1>8. ASSUME NEW i \in Invites, InvitationDeliveryAvailable(i) PROVE ExpiredMeansOverdue'
  BY <1>2, <1>8 DEF InvitationDeliveryAvailable
<1>9. ASSUME NEW i \in Invites, BecomeOverdue(i) PROVE ExpiredMeansOverdue'
  BY <1>1, <1>9 DEF BecomeOverdue
<1> QED
  BY <1>1, <1>3, <1>4, <1>6, <1>7, <1>8, <1>9
     DEF Next, vars, BeginAsAdmin, BeginAccept, ListSelect, UpdateMemberRole,
         RemoveMember, MessageSettled

LEMMA AddressStep ==
  TypeOK /\ OneInvitationPerAddress /\ InFlight /\ [Next]_vars => OneInvitationPerAddress'
<1> SUFFICES ASSUME TypeOK, OneInvitationPerAddress, InFlight, [Next]_vars
             PROVE  OneInvitationPerAddress'
  OBVIOUS
\* Fewer invitations are pending, and under their old addresses.
<1>1. ASSUME \A j \in Pending' : j \in Pending /\ invite'[j].email = invite[j].email
      PROVE  OneInvitationPerAddress'
  BY <1>1 DEF OneInvitationPerAddress
<1>2. CASE UNCHANGED invite
  BY <1>1, <1>2 DEF Pending
<1>3. ASSUME NEW S, invite' = Expired(S) PROVE OneInvitationPerAddress'
  <2>1. \A j \in Pending' : j \in Pending /\ invite'[j].email = invite[j].email
    BY <1>3, ExpiredRows DEF Pending
  <2> QED
    BY <1>1, <2>1
<1>4. ASSUME NEW i \in Invites, NEW s \in {"accepted", "revoked"},
             invite' = [invite EXCEPT ![i].status = s]
      PROVE  OneInvitationPerAddress'
  <2>1. \A j \in Pending' : j \in Pending /\ invite'[j].email = invite[j].email
    BY <1>4 DEF Pending, TypeOK, Invitation
  <2> QED
    BY <1>1, <2>1
<1>5. ASSUME NEW r \in Requests, CreateInvitation(r) PROVE OneInvitationPerAddress'
  <2>1. CASE UNCHANGED invite
    BY <1>2, <2>1
  <2>2. CASE /\ BlockedBy(r) = {}
             /\ invite' = [Expired(Pending \cap req[r].overdue) EXCEPT ![req[r].invite] =
                  [status |-> "pending", email |-> req[r].subject, role |-> req[r].role]]
    <3> DEFINE i == req[r].invite
               S == Pending \cap req[r].overdue
    <3>1. i \in Invites
      BY <1>5 DEF CreateInvitation, TypeOK
    <3>2. Expired(S) \in [Invites -> Invitation]
      BY ExpiredTyped
    <3>3. \A j \in Invites : /\ j \in S => Expired(S)[j].status = "expired"
                             /\ j \notin S => Expired(S)[j] = invite[j]
      BY ExpiredRows
    <3> HIDE DEF S
    <3>4. /\ invite'[i].email = req[r].subject
          /\ \A j \in Invites : j # i => invite'[j] = Expired(S)[j]
      BY <2>2, <3>1, <3>2 DEF S
    <3>5. \A j \in Pending' : j # i =>
            /\ j \in Pending \ S /\ invite'[j].email = invite[j].email
            /\ invite[j].email # req[r].subject
      BY <2>2, <3>3, <3>4 DEF Pending, BlockedBy, S
    <3> HIDE DEF i
    <3> QED
      BY <3>4, <3>5 DEF OneInvitationPerAddress
  <2> QED
    BY <1>5, <2>1, <2>2 DEF CreateInvitation
<1>6. ASSUME NEW r \in Requests, ListExpire(r) PROVE OneInvitationPerAddress'
  BY <1>3, <1>6 DEF ListExpire
<1>7. ASSUME NEW r \in Requests, RevokeInvitation(r) PROVE OneInvitationPerAddress'
  BY <1>2, <1>4, <1>7 DEF RevokeInvitation, TypeOK
<1>8. ASSUME NEW r \in Requests, AcceptInvitation(r) PROVE OneInvitationPerAddress'
  BY <1>2, <1>4, <1>8 DEF AcceptInvitation, TypeOK
<1>9. ASSUME NEW i \in Invites, InvitationDeliveryAvailable(i) PROVE OneInvitationPerAddress'
  BY <1>3, <1>9 DEF InvitationDeliveryAvailable
<1> QED
  BY <1>2, <1>5, <1>6, <1>7, <1>8, <1>9
     DEF Next, vars, BeginAsAdmin, BeginAccept, ListSelect, UpdateMemberRole,
         RemoveMember, MessageSettled, BecomeOverdue

THEOREM Invariance == Spec => []IInv
<1>1. Init => IInv
  BY MembershipAssumption, SMT
     DEF Init, IInv, TypeOK, AlwaysAnAdmin, LinkOnlyWhilePending, ExpiredMeansOverdue,
         OneInvitationPerAddress, InFlight, Pending, Invitation, Request, IdleRequest
<1>2. IInv /\ TypeOK' /\ [Next]_vars => IInv'
  BY AdminStep, LinkStep, ExpiredStep, AddressStep, InFlightStep DEF IInv
<1> QED
  BY <1>1, <1>2, MembershipTypeCorrect, PTL DEF Spec

\* A house never loses its last admin.
THEOREM NeverWithoutAdmin == Spec => []AlwaysAnAdmin
BY Invariance, PTL DEF IInv

\* The outbox holds the acceptance link of a pending invitation only.
THEOREM NoLinkBehind == Spec => []LinkOnlyWhilePending
BY Invariance, PTL DEF IInv

\* An invitation is expired only once its time is over.
THEOREM NeverExpiredEarly == Spec => []ExpiredMeansOverdue
BY Invariance, PTL DEF IInv

\* An accepted, revoked or expired invitation stays what it is.
THEOREM DecidedOnce == Spec => VerdictsAreFinal
<1> DEFINE Open == \A i \in Invites : invite[i].status \notin {"absent", "pending"}
                                        => invite'[i] = invite[i]
<1>1. IInv /\ [Next]_vars => Open
  <2> SUFFICES ASSUME TypeOK, InFlight, [Next]_vars PROVE Open
    BY DEF IInv
  <2>1. CASE UNCHANGED invite
    BY <2>1
  <2>2. ASSUME NEW S \in SUBSET Pending, invite' = Expired(S) PROVE Open
    BY <2>2, ExpiredRows DEF Pending
  <2>3. ASSUME NEW i \in Pending, NEW s, invite' = [invite EXCEPT ![i].status = s] PROVE Open
    BY <2>3 DEF Pending, TypeOK
  <2>4. ASSUME NEW r \in Requests, CreateInvitation(r) PROVE Open
    <3>1. CASE invite' = [Expired(Pending \cap req[r].overdue) EXCEPT ![req[r].invite] =
                  [status |-> "pending", email |-> req[r].subject, role |-> req[r].role]]
      <4> DEFINE i == req[r].invite
                 S == Pending \cap req[r].overdue
      <4>1. invite[i].status = "absent"
        BY <2>4 DEF CreateInvitation, InFlight
      <4>2. \A j \in Invites : j \notin S => Expired(S)[j] = invite[j]
        BY ExpiredRows
      <4>3. \A j \in S : invite[j].status = "pending"
        BY DEF Pending
      <4>4. Expired(S) \in [Invites -> Invitation]
        BY ExpiredTyped
      <4> HIDE DEF S
      <4>5. \A j \in Invites : j # i /\ j \notin S => invite'[j] = invite[j]
        BY <3>1, <4>2, <4>4 DEF S
      <4> HIDE DEF i
      <4> QED
        BY <4>1, <4>3, <4>5
    <3> QED
      BY <2>1, <2>4, <3>1 DEF CreateInvitation
  <2>5. ASSUME NEW r \in Requests, ListExpire(r) PROVE Open
    BY <2>2, <2>5 DEF ListExpire
  <2>6. ASSUME NEW r \in Requests, RevokeInvitation(r) PROVE Open
    BY <2>1, <2>3, <2>6 DEF RevokeInvitation, StillOpen
  <2>7. ASSUME NEW r \in Requests, AcceptInvitation(r) PROVE Open
    BY <2>1, <2>3, <2>7 DEF AcceptInvitation, StillOpen
  <2>8. ASSUME NEW i \in Invites, InvitationDeliveryAvailable(i) PROVE Open
    BY <2>2, <2>8 DEF InvitationDeliveryAvailable
  <2> HIDE DEF Open
  <2> QED
    BY <2>1, <2>4, <2>5, <2>6, <2>7, <2>8
       DEF Next, vars, BeginAsAdmin, BeginAccept, ListSelect, UpdateMemberRole,
           RemoveMember, MessageSettled, BecomeOverdue
<1> QED
  BY <1>1, Invariance, PTL DEF Spec, VerdictsAreFinal

\* Nobody becomes a member but by accepting an open invitation of their own.
THEOREM OnlyInvitedJoin == Spec => JoinsByInvitation
<1> DEFINE Invited == \A u \in Users : role[u] = "none" /\ role'[u] # "none" =>
              \E r \in Requests :
                LET i == req[r].invite IN
                /\ req[r].op = "accept" /\ req[r].actor = u
                /\ invite[i].status = "pending" /\ i \notin req[r].overdue
                /\ invite'[i].status = "accepted"
                /\ invite[i].email = u /\ invite[i].role = role'[u]
<1>1. TypeOK /\ [Next]_vars => Invited
  <2> SUFFICES ASSUME TypeOK, [Next]_vars PROVE Invited
    OBVIOUS
  <2>1. CASE UNCHANGED role
    BY <2>1
  <2>2. ASSUME NEW r \in Requests, UpdateMemberRole(r) \/ RemoveMember(r) PROVE Invited
    BY <2>2 DEF UpdateMemberRole, RemoveMember, TypeOK
  <2>3. ASSUME NEW r \in Requests, AcceptInvitation(r), ~UNCHANGED role PROVE Invited
    <3> DEFINE i == req[r].invite
               u == req[r].actor
    <3>1. /\ i \in Pending /\ i \in Invites /\ i \notin req[r].overdue
          /\ req[r].op = "accept" /\ invite[i].email = u /\ role' = Joined(u, i)
      BY <2>3 DEF AcceptInvitation, StillOpen, Pending
    <3>2. invite' = [invite EXCEPT ![i].status = "accepted"]
      BY <2>3 DEF AcceptInvitation
    <3>3. invite'[i].status = "accepted" /\ invite[i].status = "pending"
      BY <3>1, <3>2 DEF TypeOK, Pending, Invitation
    <3>4. \A v \in Users : role'[v] # role[v] => v = u /\ role'[v] = invite[i].role
      BY <3>1 DEF Joined, TypeOK
    <3> QED
      BY <3>1, <3>3, <3>4
  <2> HIDE DEF Invited
  <2> QED
    BY <2>1, <2>2, <2>3
       DEF Next, vars, BeginAsAdmin, BeginAccept, CreateInvitation, ListSelect, ListExpire,
           RevokeInvitation, InvitationDeliveryAvailable, MessageSettled, BecomeOverdue
<1> QED
  BY <1>1, MembershipTypeCorrect, PTL DEF Spec, JoinsByInvitation

\* A member's role changes at the hand of an admin's request only.
THEOREM RolesAreStable == Spec => RolesChangeOnRequest
<1> DEFINE Asked == \A u \in Users : role[u] # "none" /\ role'[u] # role[u] =>
              \E r \in Requests : /\ req[r].op \in {"setrole", "remove"}
                                  /\ req[r].subject = u /\ req'[r].op = "idle"
<1>1. TypeOK /\ [Next]_vars => Asked
  <2> SUFFICES ASSUME TypeOK, [Next]_vars PROVE Asked
    OBVIOUS
  <2>1. CASE UNCHANGED role
    BY <2>1
  <2>2. ASSUME NEW r \in Requests, UpdateMemberRole(r) \/ RemoveMember(r) PROVE Asked
    <3>1. req'[r].op = "idle"
      BY <2>2 DEF UpdateMemberRole, RemoveMember, Done, TypeOK, IdleRequest
    <3>2. \A u \in Users : role'[u] # role[u] => u = req[r].subject
      BY <2>2 DEF UpdateMemberRole, RemoveMember, TypeOK
    <3> QED
      BY <2>2, <3>1, <3>2 DEF UpdateMemberRole, RemoveMember
  <2>3. ASSUME NEW r \in Requests, AcceptInvitation(r) PROVE Asked
    BY <2>3 DEF AcceptInvitation, Joined, TypeOK
  <2> HIDE DEF Asked
  <2> QED
    BY <2>1, <2>2, <2>3
       DEF Next, vars, BeginAsAdmin, BeginAccept, CreateInvitation, ListSelect, ListExpire,
           RevokeInvitation, InvitationDeliveryAvailable, MessageSettled, BecomeOverdue
<1> QED
  BY <1>1, MembershipTypeCorrect, PTL DEF Spec, RolesChangeOnRequest

\* Between them, racing creations and rolled-back expiries never leave two invitations
\* to one address open.
THEOREM OneOpenPerAddress == Spec => []OneInvitationPerAddress
BY Invariance, PTL DEF IInv

\* A house keeps an admin, and invitations, links and times agree, whoever decides
\* them at once.
THEOREM MembershipSound == Spec => []MembershipInv
BY MembershipTypeCorrect, NeverWithoutAdmin, NoLinkBehind, NeverExpiredEarly,
   OneOpenPerAddress, PTL DEF MembershipInv
=============================================================================
