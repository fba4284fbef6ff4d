---------------------------- MODULE Notifications ----------------------------
(***************************************************************************)
(* The push notifications of a house (repository/notifications.go): the    *)
(* devices its members registered, the deliveries planned for them and the *)
(* dispatch of those that are due.                                         *)
(*                                                                         *)
(* An occasion, an added expense or a due reminder, becomes one delivery   *)
(* for each member who wants it, and each delivery has a trigger of its    *)
(* own: a message of the outbox, at least once run and settled once (see   *)
(* MessageDelivery).  A dispatch is one transaction that locks the house   *)
(* and talks to the providers before it commits.  Availability is a flag   *)
(* that time raises; quiet hours only delay it.                            *)
(***************************************************************************)
EXTENDS Integers, FiniteSets

CONSTANTS
  Users, Devices,
  Owner,           \* the user each device was registered by
  Occasions,
  Category,        \* "expense_created" or "reminder", of each occasion
  Registrations,   \* calls of CreateSubscription; each has its own fresh id
  Earlier,         \* ids of calls that are over in the initial state
  Dispatchers,     \* worker processes
  MaxTries,        \* max_attempts of a trigger's job
  MaxUpsets,       \* bound: crashes, leases that run out under a worker, changes of
                   \* members and preferences, and further registrations, together
  NoId, NoWorker, NoOccasion, NoUser

Categories == {"expense_created", "reminder"}
DevicesOf(u) == {d \in Devices : Owner[d] = u}

Ids == Registrations \cup Earlier

ASSUME NotificationsAssumption ==
  /\ Owner \in [Devices -> Users]
  /\ Category \in [Occasions -> Categories]
  /\ NoId \notin Ids /\ NoWorker \notin Dispatchers
  /\ NoOccasion \notin Occasions /\ NoUser \notin Users
  /\ MaxTries \in Nat \ {0} /\ MaxUpsets \in Nat

VARIABLES
  member,     \* users in house_members
  prefs,      \* notification_preferences
  sub,        \* notification_subscriptions: the row of each device
  reg,        \* registrations between their first query and their upsert
  delivery,   \* notification_deliveries of each user and occasion
  trigger,    \* the outbox message and job of each delivery
  asked,      \* users an enqueueing transaction selected and has yet to write
  run,        \* what each worker holds in memory
  pushes,     \* history: pushes of an occasion a device received
  departed,   \* history: users who were removed
  undone,     \* history: pushes a provider accepted in dispatches that did not commit
  changes, lapses

noticeVars == <<member, prefs, sub, reg, delivery, trigger, asked, run, pushes, departed,
                undone, changes, lapses>>
planning == <<delivery, trigger, asked>>
history == <<pushes, departed, undone>>
house == <<member, prefs, departed, changes>>

\* `sealed' is the id the ciphertext is bound to: Decrypt fails under another.
Subscription == [state : {"absent", "active", "revoked"},
                 id : Ids \cup {NoId}, sealed : Ids \cup {NoId}]
Preferences == [enabled : SUBSET Categories, digest : BOOLEAN]
Delivery == [state : {"absent", "waiting", "dispatched"}, digest : BOOLEAN, due : BOOLEAN]
Trigger == [state : {"absent", "pending", "dispatched", "dead_lettered"},
            holder : Dispatchers \cup {NoWorker}, attempts : Nat]
Registration == [pc : {"unused", "read", "done"}, device : Devices, id : Ids]
Run == [pc : {"idle", "ready", "authorized", "sending", "completing", "failing"},
        u : Users \cup {NoUser}, o : Occasions \cup {NoOccasion},
        enabled : SUBSET Categories, rows : SUBSET Occasions,
        todo : SUBSET Devices, held : SUBSET Devices, ending : SUBSET Devices,
        attempts : Nat]

IdleRun == [pc |-> "idle", u |-> NoUser, o |-> NoOccasion, enabled |-> {}, rows |-> {},
            todo |-> {}, held |-> {}, ending |-> {}, attempts |-> 0]

NotificationsTypeOK ==
  /\ member \subseteq Users /\ departed \subseteq Users
  /\ prefs \in [Users -> Preferences]
  /\ sub \in [Devices -> Subscription]
  /\ reg \in [Registrations -> Registration]
  /\ delivery \in [Users -> [Occasions -> Delivery]]
  /\ trigger \in [Users -> [Occasions -> Trigger]]
  /\ asked \in [Occasions -> SUBSET Users]
  /\ run \in [Dispatchers -> Run]
  /\ \A w \in Dispatchers :
       run[w].pc # "idle" => run[w].u \in Users /\ run[w].o \in Occasions
  /\ pushes \in [Devices -> [Occasions -> Nat]]
  /\ undone \subseteq Devices \X Occasions
  /\ changes \in 0..MaxUpsets /\ lapses \in 0..MaxUpsets - changes

\* Users may have joined and registered devices before.
NotificationsInit ==
  /\ member \in SUBSET Users /\ departed = {}
  /\ prefs \in [Users -> [enabled : {Categories}, digest : BOOLEAN]]
  /\ sub \in [Devices -> {s \in Subscription :
       \/ s.state = "absent" /\ s.id = NoId /\ s.sealed = NoId
       \/ s.state = "active" /\ s.id \in Earlier /\ s.sealed = s.id}]
  /\ \E d \in Devices :
       reg = [r \in Registrations |-> [pc |-> "unused", device |-> d, id |-> r]]
  /\ delivery = [u \in Users |-> [o \in Occasions |->
                   [state |-> "absent", digest |-> FALSE, due |-> FALSE]]]
  /\ trigger = [u \in Users |-> [o \in Occasions |->
                  [state |-> "absent", holder |-> NoWorker, attempts |-> 0]]]
  /\ asked = [o \in Occasions |-> {}]
  /\ run = [w \in Dispatchers |-> IdleRun]
  /\ pushes = [d \in Devices |-> [o \in Occasions |-> 0]]
  /\ undone = {}
  /\ changes = 0 /\ lapses = 0

\* The workers whose dispatch holds the house row.  Whoever locks the house, or
\* inserts a row that refers to it, waits for them.
Dispatching == {w \in Dispatchers : run[w].pc \in {"authorized", "sending"}}

-----------------------------------------------------------------------------
(* Members and preferences *)

Changed == changes + lapses < MaxUpsets /\ changes' = changes + 1

RemoveMember(u) ==
  /\ u \in member /\ Dispatching = {} /\ Changed
  /\ member' = member \ {u} /\ departed' = departed \cup {u}
  /\ UNCHANGED <<prefs, sub, reg, planning, run, pushes, undone, lapses>>

AcceptInvitation(u) ==
  /\ u \notin member /\ Dispatching = {} /\ Changed
  /\ member' = member \cup {u}
  /\ UNCHANGED <<prefs, sub, reg, planning, run, history, lapses>>

PutPreferences(u) ==
  /\ Changed
  /\ \E p \in Preferences : p # prefs[u] /\ prefs' = [prefs EXCEPT ![u] = p]
  /\ UNCHANGED <<member, sub, reg, planning, run, history, lapses>>

-----------------------------------------------------------------------------
(* Subscriptions *)

\* The first registration of all is free.
FirstOrChanged ==
  IF \A d \in Devices, r \in Registrations : sub[d].id = NoId /\ reg[r].pc = "unused"
    THEN UNCHANGED changes ELSE Changed

\* CreateSubscription looks for the row of the device and encrypts under its id,
\* or under a new one; the handler has checked that the user is a member.
FindSubscription(r) ==
  /\ reg[r].pc = "unused"
  /\ \E d \in Devices :
       /\ Owner[d] \in member
       /\ reg' = [reg EXCEPT ![r] =
            [pc |-> "read", device |-> d,
             id |-> IF sub[d].state = "absent" THEN r ELSE sub[d].id]]
  /\ FirstOrChanged
  /\ UNCHANGED <<member, prefs, sub, planning, run, history, lapses>>

\* A new row waits for the house, an old one for the dispatch that selected it.
MayWrite(d) == IF sub[d].state = "absent" THEN Dispatching = {}
               ELSE \A w \in Dispatching : d \notin run[w].held

\* The upsert.  An existing row keeps its id, whatever id the ciphertext is for.
UpsertSubscription(r) ==
  LET d == reg[r].device IN
  /\ reg[r].pc = "read"
  /\ MayWrite(d)
  /\ sub' = [sub EXCEPT ![d] =
       [state |-> "active", sealed |-> reg[r].id,
        id |-> IF sub[d].state = "absent" THEN reg[r].id ELSE sub[d].id]]
  /\ reg' = [reg EXCEPT ![r].pc = "done"]
  /\ UNCHANGED <<member, prefs, planning, run, history, changes, lapses>>

\* Its handler checked membership, some time before.
RevokeSubscription(d) ==
  /\ Dispatching = {}
  /\ sub[d].state = "active"
  /\ sub' = [sub EXCEPT ![d].state = "revoked", ![d].sealed = NoId]
  /\ UNCHANGED <<member, prefs, reg, planning, run, history, changes, lapses>>

-----------------------------------------------------------------------------
(* Planning *)

\* EnqueueTx selects the members who want the occasion ...
SelectAudience(o) ==
  /\ asked[o] = {}
  /\ asked' = [asked EXCEPT ![o] = {u \in member : Category[o] \in prefs[u].enabled}]
  /\ asked' # asked
  /\ \E u \in asked'[o] : delivery[u][o].state = "absent"
  /\ UNCHANGED <<house, sub, reg, delivery, trigger, run, pushes, undone, lapses>>

\* Mutant of Planned: the deliveries of a digest share the trigger of the first.
PlannedTogether(u, o) ==
  [state |-> IF prefs[u].digest /\ \E p \in Occasions : trigger[u][p].state # "absent"
             THEN "absent" ELSE "pending", holder |-> NoWorker, attempts |-> 0]

\* "Each row keeps its own durable trigger."
Planned(u, o) == [state |-> "pending", holder |-> NoWorker, attempts |-> 0]

\* ... and inserts a delivery and its trigger for each who has none yet.
EnqueueTx(o) ==
  LET New(u) == u \in asked[o] /\ delivery[u][o].state = "absent" IN
  /\ asked[o] # {} /\ Dispatching = {}
  /\ delivery' = [u \in Users |-> IF New(u) THEN [delivery[u] EXCEPT ![o] =
                     [state |-> "waiting", digest |-> prefs[u].digest, due |-> FALSE]]
                   ELSE delivery[u]]
  /\ trigger' = [u \in Users |-> IF New(u) THEN [trigger[u] EXCEPT ![o] = Planned(u, o)]
                   ELSE trigger[u]]
  /\ asked' = [asked EXCEPT ![o] = {}]
  /\ UNCHANGED <<house, sub, reg, run, pushes, undone, lapses>>

\* available_at of the delivery, which is also its trigger's, is reached.
BecomeDue(u, o) ==
  /\ delivery[u][o].state = "waiting" /\ ~delivery[u][o].due
  /\ delivery' = [delivery EXCEPT ![u][o].due = TRUE]
  /\ UNCHANGED <<house, sub, reg, trigger, asked, run, pushes, undone, lapses>>

-----------------------------------------------------------------------------
(* Dispatch *)

GoesTo(w, pc) == run' = [run EXCEPT ![w].pc = pc]

Idle(w) == run' = [run EXCEPT ![w] = IdleRun]
Running(u, o) == \E w \in Dispatchers : run[w].u = u /\ run[w].o = o

\* A worker leases the job of a trigger.  It may be one that another worker is
\* still busy with, if that one's lease ran out.
Start(w) ==
  /\ run[w].pc = "idle"
  /\ \E u \in Users, o \in Occasions :
       /\ trigger[u][o].state = "pending" /\ delivery[u][o].due
       /\ IF Running(u, o) THEN changes + lapses < MaxUpsets /\ lapses' = lapses + 1
          ELSE UNCHANGED lapses
       /\ trigger' = [trigger EXCEPT ![u][o].holder = w, ![u][o].attempts = @ + 1]
       /\ run' = [run EXCEPT ![w] = [IdleRun EXCEPT !.pc = "ready", !.u = u, !.o = o,
                                     !.attempts = trigger[u][o].attempts + 1]]
  /\ UNCHANGED <<house, sub, reg, delivery, asked, pushes, undone>>

\* Mutant of Authorize: whoever was a member when the delivery was planned.
AuthorizeAnyone(w) ==
  /\ run[w].pc = "ready" /\ Dispatching = {}
  /\ run' = [run EXCEPT ![w].pc = "authorized", ![w].enabled = prefs[run[w].u].enabled]
  /\ UNCHANGED <<house, sub, reg, planning, pushes, undone, lapses>>

\* WithAuthorizedDispatch locks the house, then looks at membership and
\* preferences.
Authorize(w) ==
  /\ run[w].pc = "ready" /\ Dispatching = {}
  /\ run' = IF run[w].u \in member
            THEN [run EXCEPT ![w].pc = "authorized",
                             ![w].enabled = prefs[run[w].u].enabled]
            ELSE [run EXCEPT ![w].pc = "completing"]
  /\ UNCHANGED <<house, sub, reg, planning, pushes, undone, lapses>>

\* Mutant of DueRows: a row is pushed whether or not it was before.
DueRowsAnyway(w) == {run[w].o}

\* A digest takes every row that is due, any other trigger its own.
DueRows(w) ==
  LET u == run[w].u
      Undispatched == {o \in Occasions : delivery[u][o].state = "waiting"}
  IN IF delivery[u][run[w].o].digest
     THEN {o \in Undispatched : delivery[u][o].digest /\ delivery[u][o].due}
     ELSE Undispatched \cap {run[w].o}

\* The devices to push to, if a row is of a category still wanted.
Targets(w) ==
  IF \E o \in DueRows(w) : Category[o] \in run[w].enabled
  THEN {d \in DevicesOf(run[w].u) : sub[d].state = "active"} ELSE {}

\* The rows are locked until the transaction ends.
SelectRows(w) ==
  /\ run[w].pc = "authorized"
  /\ run' = IF DueRows(w) = {} THEN [run EXCEPT ![w].pc = "completing"]
            ELSE [run EXCEPT ![w].pc = "sending", ![w].rows = DueRows(w),
                             ![w].todo = Targets(w), ![w].held = Targets(w)]
  /\ UNCHANGED <<house, sub, reg, planning, pushes, undone, lapses>>

\* What providers have accepted in the dispatch so far: the devices, and the rows they
\* were told of.
Accepted(w) == run[w].held \ (run[w].todo \cup run[w].ending)
Wanted(w) == {o \in run[w].rows : Category[o] \in run[w].enabled}

\* The dispatch takes back everything, except what providers accepted.
RollBack(w) == undone' = undone \cup (Accepted(w) \X Wanted(w))

\* A device whose secret does not decrypt is quarantined.
Quarantine(w) ==
  /\ run[w].pc = "sending"
  /\ \E d \in run[w].todo :
       /\ sub[d].sealed # sub[d].id
       /\ run' = [run EXCEPT ![w].todo = @ \ {d}, ![w].ending = @ \cup {d}]
  /\ UNCHANGED <<house, sub, reg, planning, pushes, undone, lapses>>

\* The provider accepts the push, or answers that the device is gone.
Push(w) ==
  /\ run[w].pc = "sending"
  /\ \E d \in run[w].todo :
       /\ sub[d].sealed = sub[d].id
       /\ \/ /\ pushes' = [pushes EXCEPT ![d] = [o \in Occasions |->
                  IF o \in Wanted(w) THEN @[o] + 1 ELSE @[o]]]
             /\ run' = [run EXCEPT ![w].todo = @ \ {d}]
          \/ /\ run' = [run EXCEPT ![w].todo = @ \ {d}, ![w].ending = @ \cup {d}]
             /\ UNCHANGED pushes
  /\ UNCHANGED <<house, sub, reg, planning, undone, lapses>>

\* The locks are not granted in time, a provider answers with an error or the
\* commit fails.
DispatchRollsBack(w) ==
  /\ run[w].pc \in {"ready", "authorized", "sending"}
  /\ RollBack(w)
  /\ GoesTo(w, "failing")
  /\ UNCHANGED <<house, sub, reg, planning, pushes, lapses>>

Commit(w) ==
  LET q == run[w] IN
  /\ q.pc = "sending" /\ q.todo = {}
  /\ delivery' = [delivery EXCEPT ![q.u] = [o \in Occasions |->
       IF o \in q.rows THEN [@[o] EXCEPT !.state = "dispatched"] ELSE @[o]]]
  /\ sub' = [d \in Devices |-> IF d \in q.ending
               THEN [sub[d] EXCEPT !.state = "revoked", !.sealed = NoId] ELSE sub[d]]
  /\ GoesTo(w, "completing")
  /\ UNCHANGED <<house, reg, trigger, asked, pushes, undone, lapses>>

\* Only the last worker to lease the trigger may settle it (see OutboxJobs).
HoldsTrigger(w) == LET t == trigger[run[w].u][run[w].o] IN
  t.state = "pending" /\ t.holder = w /\ t.attempts = run[w].attempts

Settle(w, state) ==
  /\ trigger' = IF HoldsTrigger(w)
                THEN [trigger EXCEPT ![run[w].u][run[w].o].state = state,
                                     ![run[w].u][run[w].o].holder = NoWorker]
                ELSE trigger
  /\ Idle(w)
  /\ UNCHANGED <<house, sub, reg, delivery, asked, pushes, undone, lapses>>

Complete(w) == run[w].pc = "completing" /\ Settle(w, "dispatched")

Fail(w) ==
  /\ run[w].pc = "failing"
  /\ Settle(w, IF run[w].attempts >= MaxTries THEN "dead_lettered" ELSE "pending")

\* The process dies; a dispatch that had not committed is rolled back.
Crash(w) ==
  /\ run[w].pc # "idle" /\ changes + lapses < MaxUpsets
  /\ lapses' = lapses + 1
  /\ IF run[w].pc = "sending" THEN RollBack(w) ELSE UNCHANGED undone
  /\ Idle(w)
  /\ UNCHANGED <<house, sub, reg, planning, pushes>>

Dispatch(w) ==
  \/ Start(w) \/ Authorize(w) \/ SelectRows(w)
  \/ Quarantine(w) \/ Push(w) \/ DispatchRollsBack(w) \/ Commit(w)
  \/ Complete(w) \/ Fail(w)

NotificationsNext ==
  \/ \E u \in Users : RemoveMember(u) \/ AcceptInvitation(u) \/ PutPreferences(u)
  \/ \E r \in Registrations : FindSubscription(r) \/ UpsertSubscription(r)
  \/ \E d \in Devices : RevokeSubscription(d)
  \/ \E o \in Occasions : SelectAudience(o) \/ EnqueueTx(o)
  \/ \E u \in Users, o \in Occasions : BecomeDue(u, o)
  \/ \E w \in Dispatchers : Dispatch(w) \/ Crash(w)

NotificationsSpec == NotificationsInit /\ [][NotificationsNext]_noticeVars

-----------------------------------------------------------------------------
(* Correctness *)

\* "After removal or revocation returns no later dispatch can use that
\* capability" (WithAuthorizedDispatch): a device is pushed to only while its
\* owner is a member and its subscription active.  Nor is a capability replaced while a
\* dispatch tries it, so the verdict that it is gone or unreadable falls on the
\* registration it is about.
DispatchesAreAuthorized ==
  [][/\ \A d \in Devices : pushes'[d] # pushes[d] =>
          Owner[d] \in member /\ sub[d].state = "active"
     /\ \A w \in Dispatchers, d \in Devices :
          d \in run[w].held /\ run[w].pc = "sending" /\ run'[w].pc = "sending"
            => sub'[d] = sub[d]]_noticeVars

\* A device is told of an occasion once, however many triggers, digests and
\* workers meet, unless a dispatch was rolled back after a provider had accepted that
\* very push: the error can be that of another device, or of the commit.
ToldOnce ==
  \A d \in Devices, o \in Occasions :
    pushes[d][o] > 1 => <<d, o>> \in undone

\* "This prevents an enqueue concurrent with a snapshot from being stranded"
\* (EnqueueTx): a delivery that was not dispatched still has its trigger, or
\* its user was removed, or its attempts were used up.
NothingStranded ==
  \A u \in Users, o \in Occasions :
    delivery[u][o].state = "waiting" =>
      trigger[u][o].state \in {"pending", "dead_lettered"} \/ u \in departed

\* A subscription cannot be read only if two registrations that had found none of the
\* device overlapped: its row is of one and its ciphertext of the other.  Any later
\* registration repairs it.
UnreadableIfOverlapped ==
  \A d \in Devices : LET s == sub[d] IN
    s.state = "active" /\ s.sealed # s.id =>
      s.id \in Registrations /\ s.sealed \in Registrations /\ reg[s.sealed].id = s.sealed

\* Rows keep their shape, no delivery loses the trigger it waits for, and a secret is
\* sealed for the row that holds it.
NotificationsInv == NotificationsTypeOK /\ NothingStranded /\ UnreadableIfOverlapped
=============================================================================
