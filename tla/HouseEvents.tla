----------------------------- MODULE HouseEvents -----------------------------
(***************************************************************************)
(* The event log of a house and its readers (the house_events half of      *)
(* repository/reliability.go and HouseEventsHandler of                     *)
(* handlers/invitations.go), on PostgreSQL.                                *)
(*                                                                         *)
(* The sequence gives an event its cursor when its row is inserted; readers *)
(* see the row when its transaction commits, perhaps after rows with       *)
(* higher cursors.  What keeps a reader from passing an event that is yet  *)
(* to appear are the locks on the row of the house: the exclusive one of   *)
(* SELECT ... FOR UPDATE, and the shared one every row with a foreign key  *)
(* to the house takes when its insertion ends.                             *)
(***************************************************************************)
EXTENDS Integers, FiniteSets

CONSTANTS
  Users,
  Writers,      \* transactions, each of which inserts one event
  Kind,         \* how the transaction of each writer locks the house, see Kinds
  Clients,      \* readers of the log
  Streams,      \* those that keep a stream open; the others poll
  Who,          \* the user of each client
  PageLimit,    \* maxEventsPerPage
  MaxChanges,   \* bound: changes of membership, and connections that break
  Nobody

(***************************************************************************)
(* "locked": FOR UPDATE before anything else (invitations, expenses);      *)
(* "shared": rows with a foreign key before the event (an audit entry of a *)
(* household mutation, the deliveries of a reminder); "bare": the event    *)
(* alone (AppendHouseEvent, a reminder nobody wants).                      *)
(***************************************************************************)
Kinds == {"locked", "shared", "bare"}

ASSUME HouseEventsAssumption ==
  /\ IsFiniteSet(Writers)
  /\ Kind \in [Writers -> Kinds]
  /\ Streams \subseteq Clients
  /\ Who \in [Clients -> Users]
  /\ Writers \cap Clients = {} /\ Nobody \notin Writers \cup Clients
  /\ PageLimit \in Nat \ {0} /\ MaxChanges \in Nat

VARIABLES
  member,    \* users in house_members
  seq,       \* the last cursor the sequence gave
  event,     \* the transaction of each writer and the cursor of its event
  lock,      \* who holds the row of the house exclusively
  sharing,   \* writers that hold it shared
  client,    \* what each reader received, and its connection
  changes

vars == <<member, seq, event, lock, sharing, client, changes>>

Event == [state : {"open", "committed", "rolled_back"}, cursor : Nat]
\* `page' is what the snapshot of a stream has left to send.
Client == [pc : {"off", "open", "sending", "checked"}, cursor : Nat,
           got : SUBSET Writers, page : SUBSET Writers]

TypeOK ==
  /\ member \subseteq Users
  /\ seq \in Nat
  /\ event \in [Writers -> Event]
  /\ lock \in Writers \cup Clients \cup {Nobody}
  /\ sharing \subseteq Writers
  /\ client \in [Clients -> Client]
  /\ changes \in 0..MaxChanges
  /\ \A w \in Writers : lock = w => Kind[w] = "locked" /\ event[w].state = "open"
  /\ \A w \in sharing : Kind[w] # "locked" /\ event[w].state = "open"
  /\ \A c \in Clients : lock = c <=> client[c].pc = "sending"

Init ==
  /\ member = Users
  /\ seq = 0
  /\ event = [w \in Writers |-> [state |-> "open", cursor |-> 0]]
  /\ lock = Nobody
  /\ sharing = {}
  /\ client = [c \in Clients |-> [pc |-> "off", cursor |-> 0, got |-> {}, page |-> {}]]
  /\ changes = 0

\* Nothing stands in the way of SELECT ... FOR UPDATE.
Free == lock = Nobody /\ sharing = {}
Changed == changes < MaxChanges /\ changes' = changes + 1

-----------------------------------------------------------------------------
(* Members: both lock the house *)

RemoveMember(u) ==
  /\ u \in member /\ Free /\ Changed
  /\ member' = member \ {u}
  /\ UNCHANGED <<seq, event, lock, sharing, client>>

AcceptInvitation(u) ==
  /\ u \notin member /\ Free /\ Changed
  /\ member' = member \cup {u}
  /\ UNCHANGED <<seq, event, lock, sharing, client>>

-----------------------------------------------------------------------------
(* Writers *)

Open(w) == event[w].state = "open"
Drawn(w) == event[w].cursor > 0

LockHouse(w) ==
  /\ Open(w) /\ Kind[w] = "locked" /\ ~Drawn(w) /\ Free
  /\ lock' = w
  /\ UNCHANGED <<member, seq, event, sharing, client, changes>>

\* The check of a foreign key: of an earlier row, or of the event itself.
ShareHouse(w) ==
  /\ Open(w) /\ Kind[w] # "locked" /\ w \notin sharing
  /\ lock = Nobody
  /\ Kind[w] = "bare" <=> Drawn(w)
  /\ sharing' = sharing \cup {w}
  /\ UNCHANGED <<member, seq, event, lock, client, changes>>

MayDraw(w) == CASE Kind[w] = "locked" -> lock = w
                [] Kind[w] = "shared" -> w \in sharing
                [] Kind[w] = "bare" -> TRUE

\* insertHouseEventTx: the default of the column draws the cursor.
InsertHouseEvent(w) ==
  /\ Open(w) /\ ~Drawn(w) /\ MayDraw(w)
  /\ seq' = seq + 1
  /\ event' = [event EXCEPT ![w].cursor = seq + 1]
  /\ UNCHANGED <<member, lock, sharing, client, changes>>

End(w, state) ==
  /\ event' = [event EXCEPT ![w].state = state]
  /\ lock' = IF lock = w THEN Nobody ELSE lock
  /\ sharing' = sharing \ {w}
  /\ UNCHANGED <<member, seq, client, changes>>

Commit(w) ==
  /\ Open(w) /\ Drawn(w)
  /\ lock = w \/ w \in sharing
  /\ End(w, "committed")

\* A failed statement, or an AppendHouseEvent whose error its caller drops.  The
\* cursor is not used again.
RollBack(w) == Open(w) /\ End(w, "rolled_back")

-----------------------------------------------------------------------------
(* Readers *)

Ahead(c) == {w \in Writers : event[w].state = "committed"
                             /\ event[w].cursor > client[c].cursor}

\* Mutant of Page: a page that is one event short.
PageShort(c) ==
  {w \in Ahead(c) : Cardinality({v \in Ahead(c) : event[v].cursor <= event[w].cursor})
                      < PageLimit}

\* listHouseEvents.
Page(c) ==
  {w \in Ahead(c) : Cardinality({v \in Ahead(c) : event[v].cursor <= event[w].cursor})
                      <= PageLimit}

\* The highest cursor a client has seen once it received the events of S.
Advanced(c, S) ==
  CHOOSE n \in {client[c].cursor} \cup {event[w].cursor : w \in S} :
    \A w \in S : event[w].cursor <= n

Goto(c, pc) == client' = [client EXCEPT ![c].pc = pc, ![c].page = {}]

\* A stream starts after the last event its client received.
Connect(c) ==
  /\ c \in Streams /\ client[c].pc = "off"
  /\ Goto(c, "open")
  /\ UNCHANGED <<member, seq, event, lock, sharing, changes>>

\* Mutants of Snapshot: shared locks do not count; the stream of a user who is no
\* member waits.
SnapshotBesideShared(c) ==
  /\ c \in Streams /\ client[c].pc = "open" /\ lock = Nobody /\ Who[c] \in member
  /\ lock' = c
  /\ client' = [client EXCEPT ![c].pc = "sending", ![c].page = Page(c)]
  /\ UNCHANGED <<member, seq, event, sharing, changes>>

SnapshotWaiting(c) ==
  /\ c \in Streams /\ client[c].pc = "open" /\ Free
  /\ IF Who[c] \in member
       THEN /\ lock' = c
            /\ client' = [client EXCEPT ![c].pc = "sending", ![c].page = Page(c)]
       ELSE UNCHANGED <<lock, client>>
  /\ UNCHANGED <<member, seq, event, sharing, changes>>

\* WithAuthorizedHouseEvents locks the house, looks at membership and reads a page;
\* a user who is no member is answered, or the stream ends.
Snapshot(c) ==
  /\ c \in Streams /\ client[c].pc = "open" /\ Free
  /\ \/ /\ Who[c] \in member
        /\ lock' = c
        /\ client' = [client EXCEPT ![c].pc = "sending", ![c].page = Page(c)]
     \/ /\ Who[c] \notin member
        /\ Goto(c, "off")
        /\ UNCHANGED lock
  /\ UNCHANGED <<member, seq, event, sharing, changes>>

\* Sends the next event of the page.
Send(c) ==
  /\ client[c].pc = "sending"
  /\ \E w \in client[c].page :
       /\ \A v \in client[c].page : event[w].cursor <= event[v].cursor
       /\ client' = [client EXCEPT ![c].page = @ \ {w}, ![c].got = @ \cup {w},
                                   ![c].cursor = event[w].cursor]
  /\ UNCHANGED <<member, seq, event, lock, sharing, changes>>

Sent(c) ==
  /\ client[c].pc = "sending" /\ client[c].page = {}
  /\ lock' = Nobody
  /\ Goto(c, "open")
  /\ UNCHANGED <<member, seq, event, sharing, changes>>

\* The client disconnects, or a write fails or runs into its deadline.
Break(c) ==
  /\ client[c].pc \in {"open", "sending"} /\ Changed
  /\ lock' = IF lock = c THEN Nobody ELSE lock
  /\ Goto(c, "off")
  /\ UNCHANGED <<member, seq, event, sharing>>

\* A poll checks membership, then reads a page without any lock.
PollCheck(c) ==
  /\ c \notin Streams /\ client[c].pc = "off"
  /\ Who[c] \in member
  /\ Goto(c, "checked")
  /\ UNCHANGED <<member, seq, event, lock, sharing, changes>>

PollList(c) ==
  /\ client[c].pc = "checked"
  /\ client' = [client EXCEPT ![c].pc = "off", ![c].got = @ \cup Page(c),
                              ![c].cursor = Advanced(c, Page(c))]
  /\ UNCHANGED <<member, seq, event, lock, sharing, changes>>

\* Its answer is lost: the client will ask from the same cursor again.
PollLost(c) ==
  /\ client[c].pc = "checked"
  /\ Goto(c, "off")
  /\ UNCHANGED <<member, seq, event, lock, sharing, changes>>

Write(w) == LockHouse(w) \/ ShareHouse(w) \/ InsertHouseEvent(w) \/ Commit(w)
Stream(c) == Connect(c) \/ Send(c) \/ Sent(c)

Next ==
  \/ \E u \in Users : RemoveMember(u) \/ AcceptInvitation(u)
  \/ \E w \in Writers : Write(w) \/ RollBack(w)
  \/ \E c \in Clients : \/ Stream(c) \/ Snapshot(c) \/ Break(c)
                        \/ PollCheck(c) \/ PollList(c) \/ PollLost(c)

Spec == Init /\ [][Next]_vars

\* A transaction goes on while it can, a client reconnects and its stream ticks;
\* whoever waits for a row gets it, as the database queues them.
FairSpec ==
  /\ Spec
  /\ \A w \in Writers : /\ WF_vars(InsertHouseEvent(w) \/ Commit(w))
                        /\ SF_vars(ShareHouse(w))
  /\ \A c \in Clients : WF_vars(Stream(c)) /\ SF_vars(Snapshot(c))

-----------------------------------------------------------------------------
(* Correctness *)

\* The events a client can no longer receive although they are committed.
Skipped(c) == {w \in Writers : /\ event[w].state = "committed"
                               /\ event[w].cursor <= client[c].cursor
                               /\ w \notin client[c].got}

\* A stream passes no event of a transaction that held the house when it drew the
\* cursor; it can miss one that is appended alone.
StreamsSkipOnlyBare == \A c \in Streams : \A w \in Skipped(c) : Kind[w] = "bare"

\* Polling, which takes no lock, can also miss household events, but none that is
\* written under the exclusive lock.
PollsSkipNoneLocked == \A c \in Clients : \A w \in Skipped(c) : Kind[w] # "locked"

\* "A snapshot begun after a removal commit cannot be authorized"
\* (WithAuthorizedHouseEvents): nothing is streamed to a user who is no member.
StreamsOnlyToMembers ==
  [][\A c \in Streams : client'[c].got # client[c].got => Who[c] \in member]_vars

\* The log as streams see it: an event has its cursor for its place once its
\* transaction has committed, and the durable ones are those written under a lock.
Log == INSTANCE HouseLog WITH
  Events <- Writers, Durable <- {w \in Writers : Kind[w] # "bare"}, Readers <- Streams,
  place <- [w \in Writers |-> IF event[w].state = "committed" THEN event[w].cursor ELSE 0],
  got <- [c \in Streams |-> client[c].got]

\* HouseEvents implements HouseLog: although cursors are drawn before events can be seen,
\* and streams break off and start again, a stream delivers the log in order and to
\* members only, passes no event written under a lock, and delivers each in the end.
LogIsServed == Log!Spec /\ Log!Served

\* The stream of a removed user is closed ("SSE stream remained open after member
\* removal", TestHouseEventsSSEClosesAfterMemberRemoval), and serves nothing meanwhile.
RemovedStreamsClose ==
  /\ StreamsOnlyToMembers
  /\ \A c \in Streams :
       Who[c] \notin member ~> client[c].pc = "off" \/ Who[c] \in member

\* What a reader has passed without seeing it, in one invariant: the log, streams
\* and polls.
HouseEventsInv == TypeOK /\ StreamsSkipOnlyBare /\ PollsSkipNoneLocked
=============================================================================
