--------------------------- MODULE HouseEventsProofs ---------------------------
(* What readers of the event log cannot pass, for every number of writers,     *)
(* readers and events.                                                         *)
EXTENDS HouseEvents, Scheduler, FiniteSetTheorems, WellFoundedInduction, TLAPS

\* Cursors are drawn in order, and nobody has seen one that was not drawn.
CursorsSound ==
  /\ \A w \in Writers : event[w].cursor <= seq
  /\ \A v, w \in Writers : Drawn(v) /\ event[v].cursor = event[w].cursor => v = w
  /\ \A w \in Writers : event[w].state = "committed" => Drawn(w)
  /\ \A c \in Clients : client[c].cursor <= seq

\* What a lock on the house keeps others from.
LocksSound ==
  /\ lock # Nobody => sharing = {}
  /\ \A w \in Writers : Open(w) /\ Drawn(w) => /\ Kind[w] = "locked" => lock = w
                                               /\ Kind[w] = "shared" => w \in sharing
  /\ \A v, w \in Writers :
       Open(v) /\ Drawn(v) /\ Kind[v] = "locked" /\ event[w].state = "committed"
         => event[w].cursor < event[v].cursor

\* A stream that is sending still has to send, in their order, the first events ahead.
PagesSound ==
  \A c \in Clients :
    /\ client[c].pc \in {"open", "sending"} => c \in Streams
    /\ client[c].pc = "checked" => c \notin Streams
    /\ client[c].pc = "sending" =>
         /\ Who[c] \in member
         /\ client[c].page \subseteq Ahead(c)
         /\ \A w \in client[c].page, v \in Ahead(c) :
              event[v].cursor <= event[w].cursor => v \in client[c].page

\* The events a reader has passed and did not receive, if they are or may yet be
\* committed.
Passed(c) == {w \in Writers : /\ event[w].state # "rolled_back" /\ Drawn(w)
                              /\ event[w].cursor <= client[c].cursor
                              /\ w \notin client[c].got}
MayPass(c, w) == Kind[w] = "bare" \/ (c \notin Streams /\ Kind[w] = "shared")
PassedSound == \A c \in Clients : \A w \in Passed(c) : MayPass(c, w)

\* The strengthening of the invariants that is inductive.
IInv == TypeOK /\ CursorsSound /\ LocksSound /\ PagesSound /\ PassedSound

-----------------------------------------------------------------------------
(* Pages *)

LEMMA Least ==
  ASSUME NEW T, T \subseteq Nat, T # {}
  PROVE  \E x \in T : \A y \in T : x <= y
<1> DEFINE R == {ss \in Nat \X Nat : ss[1] < ss[2]}
<1>1. IsWellFoundedOn(R, Nat)
  BY NatLessThanWellFounded DEF OpToRel
<1>2. \A x, y \in Nat : y < x => <<y, x>> \in R
  OBVIOUS
<1> HIDE DEF R
<1>3. \E x \in T : \A y \in T : ~ (<<y, x>> \in R)
  BY <1>1, WFMin
<1>4. PICK x \in T : \A y \in T : ~ (<<y, x>> \in R)
  BY <1>3
<1>5. \A y \in T : y \in Nat /\ x \in Nat /\ ~ (y < x)
  BY <1>2, <1>4
<1> QED
  BY <1>5

LEMMA EventTyped ==
  ASSUME TypeOK, NEW w \in Writers
  PROVE  /\ event[w] \in Event /\ event[w].cursor \in Nat
         /\ event[w].state \in {"open", "committed", "rolled_back"}
BY DEF TypeOK, Event

LEMMA ClientTyped ==
  ASSUME TypeOK, NEW c \in Clients
  PROVE  /\ client[c] \in Client /\ client[c].cursor \in Nat
         /\ client[c].got \subseteq Writers /\ client[c].page \subseteq Writers
BY DEF TypeOK, Client

\* A client that received events has seen the highest of their cursors.
LEMMA AdvancedToHighest ==
  ASSUME TypeOK, CursorsSound, NEW c \in Clients, NEW S \in SUBSET Ahead(c)
  PROVE  /\ Advanced(c, S) \in {client[c].cursor} \cup {event[w].cursor : w \in S}
         /\ \A w \in S : event[w].cursor <= Advanced(c, S)
<1> DEFINE M == {client[c].cursor} \cup {event[w].cursor : w \in S}
           T == {seq - n : n \in M}
<1>1. \A n \in M : n \in Nat /\ n <= seq
  BY EventTyped, ClientTyped DEF CursorsSound, Ahead
<1>2. \A x \in T : \E n \in M : x = seq - n
  OBVIOUS
<1>3. \A n \in M : seq - n \in T
  OBVIOUS
<1>4. client[c].cursor \in M
  OBVIOUS
<1>5. \A w \in S : event[w].cursor \in M
  OBVIOUS
<1>6. seq \in Nat
  BY DEF TypeOK
<1> HIDE DEF M, T
<1>7. T \subseteq Nat /\ T # {}
  BY <1>1, <1>2, <1>3, <1>4, <1>6
<1>8. PICK x \in T : \A y \in T : x <= y
  BY <1>7, Least
<1>9. PICK n \in M : x = seq - n
  BY <1>2
<1>10. \A m \in M : m <= n
  BY <1>1, <1>3, <1>6, <1>8, <1>9
<1>11. \E m \in M : \A w \in S : event[w].cursor <= m
  BY <1>5, <1>10
<1>12. Advanced(c, S) = CHOOSE m \in M : \A w \in S : event[w].cursor <= m
  BY DEF Advanced, M
<1>13. Advanced(c, S) \in M /\ \A w \in S : event[w].cursor <= Advanced(c, S)
  BY <1>11, <1>12
<1> QED
  BY <1>13 DEF M

\* A page is made of the first events ahead.
LEMMA PagesAreFirst ==
  ASSUME TypeOK, NEW c \in Clients, NEW w \in Page(c), NEW v \in Ahead(c),
         event[v].cursor <= event[w].cursor
  PROVE  v \in Page(c)
<1> DEFINE Before(x) == {u \in Ahead(c) : event[u].cursor <= event[x].cursor}
<1>1. w \in Ahead(c) /\ Cardinality(Before(w)) <= PageLimit
  BY DEF Page
<1>2. Ahead(c) \subseteq Writers
  BY DEF Ahead
<1>3. \A u \in Ahead(c) : event[u].cursor \in Nat
  BY <1>2, EventTyped
<1>4. Before(v) \subseteq Before(w)
  BY <1>1, <1>3
<1>5. IsFiniteSet(Before(w))
  BY <1>2, FS_Subset, HouseEventsAssumption DEF HouseEventsAssumption
<1>6. /\ Cardinality(Before(v)) <= Cardinality(Before(w))
      /\ Cardinality(Before(v)) \in Nat /\ Cardinality(Before(w)) \in Nat
  <2> HIDE DEF Before
  <2>1. IsFiniteSet(Before(v)) /\ Cardinality(Before(v)) <= Cardinality(Before(w))
    BY <1>4, <1>5, FS_Subset
  <2> QED
    BY <1>5, <2>1, FS_CardinalityType
<1>7. Cardinality(Before(v)) <= PageLimit
  BY <1>1, <1>6, HouseEventsAssumption DEF HouseEventsAssumption
<1> QED
  BY <1>7 DEF Page

-----------------------------------------------------------------------------
(* Steps *)

LEMMA InitSound == Init => IInv
BY HouseEventsAssumption
   DEF HouseEventsAssumption, Init, IInv, TypeOK, Event, Client, CursorsSound, LocksSound,
       PagesSound, PassedSound, Passed, Drawn, Open

\* Membership changes while nobody holds the house.
LEMMA MembersKeep ==
  ASSUME IInv, NEW u \in Users, RemoveMember(u) \/ AcceptInvitation(u)
  PROVE  IInv'
<1>1. /\ Free /\ member' \subseteq Users /\ changes' \in 0..MaxChanges
      /\ UNCHANGED <<seq, event, lock, sharing, client>>
  BY HouseEventsAssumption
     DEF HouseEventsAssumption, RemoveMember, AcceptInvitation, Changed, IInv, TypeOK
<1>2. \A c \in Clients : client[c].pc # "sending"
  BY <1>1, HouseEventsAssumption DEF HouseEventsAssumption, Free, IInv, TypeOK
<1>3. TypeOK'
  BY <1>1 DEF IInv, TypeOK
<1>4. CursorsSound' /\ LocksSound' /\ PassedSound'
  BY <1>1 DEF IInv, CursorsSound, LocksSound, PassedSound, Passed, MayPass, Drawn, Open
<1>5. PagesSound'
  BY <1>1, <1>2 DEF IInv, PagesSound
<1> QED
  BY <1>3, <1>4, <1>5 DEF IInv

LEMMA LockHouseKeeps ==
  ASSUME IInv, NEW w \in Writers, LockHouse(w)
  PROVE  IInv'
<1>1. /\ Open(w) /\ Kind[w] = "locked" /\ ~Drawn(w) /\ Free /\ lock' = w
      /\ UNCHANGED <<member, seq, event, sharing, client, changes>>
  BY DEF LockHouse
<1>2. TypeOK'
  BY <1>1, HouseEventsAssumption DEF HouseEventsAssumption, IInv, TypeOK, Free, Open
<1>3. CursorsSound' /\ PassedSound' /\ PagesSound'
  BY <1>1 DEF IInv, CursorsSound, PassedSound, Passed, MayPass, PagesSound, Ahead, Drawn
<1>4. LocksSound'
  BY <1>1, HouseEventsAssumption
     DEF HouseEventsAssumption, IInv, LocksSound, Free, Drawn, Open
<1> QED
  BY <1>2, <1>3, <1>4 DEF IInv

LEMMA ShareHouseKeeps ==
  ASSUME IInv, NEW w \in Writers, ShareHouse(w)
  PROVE  IInv'
<1>1. /\ Open(w) /\ Kind[w] # "locked" /\ lock = Nobody /\ sharing' = sharing \cup {w}
      /\ UNCHANGED <<member, seq, event, lock, client, changes>>
  BY DEF ShareHouse
<1>2. TypeOK'
  BY <1>1, HouseEventsAssumption DEF HouseEventsAssumption, IInv, TypeOK, Open
<1>3. CursorsSound' /\ PassedSound' /\ PagesSound'
  BY <1>1 DEF IInv, CursorsSound, PassedSound, Passed, MayPass, PagesSound, Ahead, Drawn
<1>4. LocksSound'
  BY <1>1 DEF IInv, LocksSound, Drawn, Open
<1> QED
  BY <1>2, <1>3, <1>4 DEF IInv

\* The cursor drawn is beyond what anybody has seen.
LEMMA InsertKeeps ==
  ASSUME IInv, NEW w \in Writers, InsertHouseEvent(w)
  PROVE  IInv'
<1>1. /\ Open(w) /\ ~Drawn(w) /\ MayDraw(w) /\ seq' = seq + 1
      /\ event' = [event EXCEPT ![w].cursor = seq + 1]
      /\ UNCHANGED <<member, lock, sharing, client, changes>>
  BY DEF InsertHouseEvent
<1>2. seq \in Nat /\ event[w] \in Event
  BY EventTyped DEF IInv, TypeOK
<1>3. /\ event' \in [Writers -> Event]
      /\ \A v \in Writers : /\ event'[v].state = event[v].state
                            /\ event'[v].cursor = IF v = w THEN seq + 1 ELSE event[v].cursor
  BY <1>1, <1>2 DEF IInv, TypeOK, Event
<1>4. /\ \A v \in Writers : event[v].cursor \in Nat /\ event[v].cursor <= seq
      /\ \A c \in Clients : client[c].cursor \in Nat /\ client[c].cursor <= seq
  BY EventTyped, ClientTyped DEF IInv, CursorsSound
<1>5. TypeOK'
  BY <1>1, <1>2, <1>3 DEF IInv, TypeOK
<1>6. CursorsSound'
  <2>1. \A v \in Writers : event'[v].cursor <= seq'
    BY <1>1, <1>2, <1>3, <1>4
  <2>2. \A v, x \in Writers :
          event'[v].cursor > 0 /\ event'[v].cursor = event'[x].cursor => v = x
    BY <1>1, <1>2, <1>3, <1>4 DEF IInv, CursorsSound, Drawn
  <2>3. \A v \in Writers : event'[v].state = "committed" => event'[v].cursor > 0
    BY <1>2, <1>3, <1>4 DEF IInv, CursorsSound, Drawn
  <2>4. \A c \in Clients : client'[c].cursor <= seq'
    BY <1>1, <1>2, <1>4
  <2> QED
    BY <2>1, <2>2, <2>3, <2>4 DEF CursorsSound, Drawn
<1>7. LocksSound'
  <2>1. \A v \in Writers : event'[v].state = "open" /\ event'[v].cursor > 0 =>
          /\ Kind[v] = "locked" => lock = v
          /\ Kind[v] = "shared" => v \in sharing
    BY <1>1, <1>3, <1>4 DEF IInv, LocksSound, Open, Drawn, MayDraw
  <2>2. \A v, x \in Writers :
          /\ event'[v].state = "open" /\ event'[v].cursor > 0 /\ Kind[v] = "locked"
          /\ event'[x].state = "committed"
          => event'[x].cursor < event'[v].cursor
    BY <1>1, <1>2, <1>3, <1>4 DEF IInv, LocksSound, Open, Drawn
  <2> QED
    BY <1>1, <2>1, <2>2 DEF IInv, LocksSound, Open, Drawn
<1>8. \A c \in Clients : Ahead(c)' = Ahead(c) /\ Passed(c)' = Passed(c)
  BY <1>1, <1>2, <1>3, <1>4 DEF Ahead, Passed, Open, Drawn
<1>9. PagesSound'
  BY <1>1, <1>3, <1>8 DEF IInv, PagesSound, Ahead, Open
<1>10. PassedSound'
  BY <1>8 DEF IInv, PassedSound, MayPass
<1> QED
  BY <1>5, <1>6, <1>7, <1>9, <1>10 DEF IInv

\* A transaction ends: what was passed and is committed is what was passed before.
LEMMA EndKeeps ==
  ASSUME IInv, NEW w \in Writers, NEW state \in {"committed", "rolled_back"},
         Open(w), state = "committed" => Drawn(w) /\ (lock = w \/ w \in sharing),
         End(w, state)
  PROVE  IInv'
<1>1. /\ event' = [event EXCEPT ![w].state = state]
      /\ lock' = IF lock = w THEN Nobody ELSE lock
      /\ sharing' = sharing \ {w}
      /\ UNCHANGED <<member, seq, client, changes>>
  BY DEF End
<1>2. /\ event' \in [Writers -> Event]
      /\ \A v \in Writers : /\ event'[v].state = IF v = w THEN state ELSE event[v].state
                            /\ event'[v].cursor = event[v].cursor
                            /\ event'[v].cursor \in Nat
  BY <1>1, EventTyped DEF IInv, TypeOK, Event
<1>3. \A c \in Clients : lock' = c <=> lock = c
  BY <1>1, HouseEventsAssumption DEF HouseEventsAssumption
<1>4. TypeOK'
  <2>1. lock' \in Writers \cup Clients \cup {Nobody} /\ sharing' \subseteq Writers
    BY <1>1 DEF IInv, TypeOK
  <2>2. \A v \in Writers : lock' = v => Kind[v] = "locked" /\ event'[v].state = "open"
    BY <1>1, <1>2, HouseEventsAssumption DEF HouseEventsAssumption, IInv, TypeOK
  <2>3. \A v \in sharing' : Kind[v] # "locked" /\ event'[v].state = "open"
    BY <1>1, <1>2 DEF IInv, TypeOK
  <2> QED
    BY <1>1, <1>2, <1>3, <2>1, <2>2, <2>3 DEF IInv, TypeOK
<1>5. CursorsSound'
  BY <1>1, <1>2 DEF IInv, CursorsSound, Drawn, Open
<1>6. LocksSound'
  <2>1. lock' # Nobody => sharing' = {}
    BY <1>1 DEF IInv, LocksSound
  <2>2. ASSUME NEW v \in Writers, event'[v].state = "open", event'[v].cursor > 0
        PROVE  /\ v # w /\ Open(v) /\ Drawn(v)
               /\ Kind[v] = "locked" => lock' = v
               /\ Kind[v] = "shared" => v \in sharing'
    BY <1>1, <1>2, <2>2 DEF IInv, LocksSound, Open, Drawn
  <2>3. ASSUME NEW v \in Writers, NEW x \in Writers,
               event'[v].state = "open", event'[v].cursor > 0, Kind[v] = "locked",
               event'[x].state = "committed"
        PROVE  event'[x].cursor < event'[v].cursor
    <3>1. v # w /\ Open(v) /\ Drawn(v) /\ lock = v /\ sharing = {}
      BY <2>2, <2>3, HouseEventsAssumption DEF HouseEventsAssumption, IInv, LocksSound
    <3>2. x # w
      BY <1>2, <2>3, <3>1
    <3> QED
      BY <1>2, <2>3, <3>1, <3>2 DEF IInv, LocksSound
  <2> QED
    BY <2>1, <2>2, <2>3 DEF LocksSound, Open, Drawn
<1>7. \A c \in Clients : client[c].pc = "sending" => Ahead(c)' = Ahead(c)
  <2> SUFFICES ASSUME NEW c \in Clients, client[c].pc = "sending"
               PROVE  Ahead(c)' = Ahead(c)
    OBVIOUS
  <2>1. lock = c /\ lock # w /\ sharing = {}
    BY HouseEventsAssumption DEF HouseEventsAssumption, IInv, TypeOK, LocksSound
  <2>2. state # "committed"
    BY <2>1
  <2> QED
    BY <1>1, <1>2, <2>2 DEF Ahead, Open
<1>8. PagesSound'
  BY <1>1, <1>2, <1>7 DEF IInv, PagesSound, Ahead
<1>9. PassedSound'
  <2>1. \A c \in Clients : Passed(c)' \subseteq Passed(c)
    BY <1>1, <1>2 DEF Passed, Drawn, Open
  <2> QED
    BY <2>1 DEF IInv, PassedSound, MayPass
<1> QED
  BY <1>4, <1>5, <1>6, <1>8, <1>9 DEF IInv

\* What one reader does; the others are as they were.
LEMMA ReaderMoves ==
  ASSUME IInv, NEW c \in Clients, NEW k \in Client, client' = [client EXCEPT ![c] = k],
         lock' \in {lock, c, Nobody},
         lock' = lock \/ Free \/ lock = c,
         lock' = c <=> k.pc = "sending",
         UNCHANGED <<seq, event, sharing>>, member' = member, changes' \in 0..MaxChanges,
         k.cursor <= seq,
         k.pc \in {"open", "sending"} => c \in Streams,
         k.pc = "checked" => c \notin Streams,
         k.pc = "sending" =>
           /\ Who[c] \in member
           /\ k.page \subseteq {w \in Writers : /\ event[w].state = "committed"
                                               /\ event[w].cursor > k.cursor}
           /\ \A w \in k.page, v \in Writers :
                /\ event[v].state = "committed" /\ event[v].cursor > k.cursor
                /\ event[v].cursor <= event[w].cursor
                => v \in k.page,
         \A w \in Writers : /\ event[w].state # "rolled_back" /\ Drawn(w)
                            /\ event[w].cursor <= k.cursor /\ w \notin k.got
                            => MayPass(c, w)
  PROVE  IInv'
<1>1. /\ client' \in [Clients -> Client]
      /\ \A d \in Clients : client'[d] = IF d = c THEN k ELSE client[d]
  BY DEF IInv, TypeOK
<1>2. \A d \in Clients : d # c => (lock' = d <=> lock = d)
  BY HouseEventsAssumption DEF HouseEventsAssumption, Free
<1>3. \A w \in Writers : lock' = w => lock = w
  BY HouseEventsAssumption DEF HouseEventsAssumption
<1>4. TypeOK'
  <2>1. \A d \in Clients : lock' = d <=> client'[d].pc = "sending"
    BY <1>1, <1>2 DEF IInv, TypeOK
  <2>2. lock' \in Writers \cup Clients \cup {Nobody}
    BY DEF IInv, TypeOK
  <2> QED
    BY <1>1, <1>3, <2>1, <2>2 DEF IInv, TypeOK
<1>5. CursorsSound'
  BY <1>1 DEF IInv, CursorsSound, Drawn
<1>6. LocksSound'
  <2>1. lock' # Nobody => sharing' = {}
    BY DEF IInv, LocksSound, Free
  <2>2. \A w \in Writers : lock = w => lock' = w
    BY HouseEventsAssumption DEF HouseEventsAssumption, Free
  <2> QED
    BY <2>1, <2>2 DEF IInv, LocksSound, Open, Drawn
<1>7. PagesSound'
  <2> SUFFICES ASSUME NEW d \in Clients
               PROVE  /\ client'[d].pc \in {"open", "sending"} => d \in Streams
                      /\ client'[d].pc = "checked" => d \notin Streams
                      /\ client'[d].pc = "sending" =>
                           /\ Who[d] \in member
                           /\ client'[d].page \subseteq Ahead(d)'
                           /\ \A w \in client'[d].page, v \in Ahead(d)' :
                                event'[v].cursor <= event'[w].cursor => v \in client'[d].page
    BY DEF PagesSound
  <2>1. CASE d = c
    BY <1>1, <2>1 DEF Ahead
  <2>2. CASE d # c
    BY <1>1, <2>2 DEF IInv, PagesSound, Ahead
  <2> QED
    BY <2>1, <2>2
<1>8. PassedSound'
  <2> SUFFICES ASSUME NEW d \in Clients, NEW w \in Passed(d)' PROVE MayPass(d, w)
    BY DEF PassedSound, MayPass
  <2>1. CASE d = c
    BY <1>1, <2>1 DEF Passed, Drawn
  <2>2. CASE d # c
    BY <1>1, <2>2 DEF IInv, PassedSound, Passed, Drawn
  <2> QED
    BY <2>1, <2>2
<1> QED
  BY <1>4, <1>5, <1>6, <1>7, <1>8 DEF IInv

\* A reader that changes only where it is, and lets go of the house if it held it.
LEMMA GotoKeeps ==
  ASSUME IInv, NEW c \in Clients, NEW pc \in {"off", "open", "checked"},
         Goto(c, pc), lock' = IF lock = c THEN Nobody ELSE lock,
         pc = "open" => c \in Streams, pc = "checked" => c \notin Streams,
         UNCHANGED <<member, seq, event, sharing>>, changes' \in 0..MaxChanges
  PROVE  IInv'
<1>1. PICK k : k = [client[c] EXCEPT !.pc = pc, !.page = {}]
  OBVIOUS
<1>2. /\ k \in Client /\ k.pc = pc /\ k.cursor = client[c].cursor /\ k.got = client[c].got
  BY <1>1, ClientTyped DEF IInv, Client
<1>3. client' = [client EXCEPT ![c] = k]
  BY <1>1 DEF Goto, IInv, TypeOK
<1>4. lock' # c
  BY HouseEventsAssumption DEF HouseEventsAssumption
<1>5. k.cursor <= seq
  BY <1>2 DEF IInv, CursorsSound
<1>6. \A w \in Writers : /\ event[w].state # "rolled_back" /\ Drawn(w)
                         /\ event[w].cursor <= k.cursor /\ w \notin k.got
                         => MayPass(c, w)
  BY <1>2 DEF IInv, PassedSound, Passed
<1> QED
  BY <1>2, <1>3, <1>4, <1>5, <1>6, ReaderMoves

LEMMA SnapshotKeeps ==
  ASSUME IInv, NEW c \in Clients, Snapshot(c)
  PROVE  IInv'
<1>1. /\ c \in Streams /\ client[c].pc = "open" /\ Free
      /\ UNCHANGED <<member, seq, event, sharing, changes>>
  BY DEF Snapshot
<1>2. changes' \in 0..MaxChanges
  BY <1>1 DEF IInv, TypeOK
<1>3. CASE Goto(c, "off") /\ UNCHANGED lock
  <2>1. lock' = IF lock = c THEN Nobody ELSE lock
    BY <1>1, <1>3 DEF Free
  <2> QED
    BY <1>1, <1>2, <1>3, <2>1, GotoKeeps
<1>4. CASE /\ Who[c] \in member /\ lock' = c
           /\ client' = [client EXCEPT ![c].pc = "sending", ![c].page = Page(c)]
  <2>1. PICK k : k = [client[c] EXCEPT !.pc = "sending", !.page = Page(c)]
    OBVIOUS
  <2>2. Page(c) \subseteq Ahead(c) /\ Page(c) \subseteq Writers
    BY DEF Page, Ahead
  <2>3. /\ k \in Client /\ k.pc = "sending" /\ k.cursor = client[c].cursor
        /\ k.got = client[c].got /\ k.page = Page(c)
    BY <2>1, <2>2, ClientTyped DEF IInv, Client
  <2>4. client' = [client EXCEPT ![c] = k]
    BY <1>4, <2>1 DEF IInv, TypeOK
  <2>5. k.page \subseteq {w \in Writers : /\ event[w].state = "committed"
                                          /\ event[w].cursor > k.cursor}
    BY <2>2, <2>3 DEF Ahead
  <2>6. \A w \in k.page, v \in Writers :
          /\ event[v].state = "committed" /\ event[v].cursor > k.cursor
          /\ event[v].cursor <= event[w].cursor
          => v \in k.page
    <3> SUFFICES ASSUME NEW w \in Page(c), NEW v \in Ahead(c),
                        event[v].cursor <= event[w].cursor
                 PROVE  v \in Page(c)
      BY <2>3 DEF Ahead
    <3> QED
      BY PagesAreFirst DEF IInv
  <2>7. k.cursor <= seq
    BY <2>3 DEF IInv, CursorsSound
  <2>8. \A w \in Writers : /\ event[w].state # "rolled_back" /\ Drawn(w)
                           /\ event[w].cursor <= k.cursor /\ w \notin k.got
                           => MayPass(c, w)
    BY <2>3 DEF IInv, PassedSound, Passed
  <2> QED
    BY <1>1, <1>2, <1>4, <2>3, <2>4, <2>5, <2>6, <2>7, <2>8, ReaderMoves
<1> QED
  BY <1>3, <1>4 DEF Snapshot

\* The next event of a page is the next of all that can still appear, except of those
\* that no lock ordered.
LEMMA SendKeeps ==
  ASSUME IInv, NEW c \in Clients, Send(c)
  PROVE  IInv'
<1>1. /\ client[c].pc = "sending" /\ lock = c
      /\ UNCHANGED <<member, seq, event, lock, sharing, changes>>
  BY DEF Send, IInv, TypeOK
<1>2. PICK w \in client[c].page :
        /\ \A v \in client[c].page : event[w].cursor <= event[v].cursor
        /\ client' = [client EXCEPT ![c].page = @ \ {w}, ![c].got = @ \cup {w},
                                    ![c].cursor = event[w].cursor]
  BY DEF Send
<1>3. /\ c \in Streams /\ Who[c] \in member
      /\ w \in Writers /\ event[w].state = "committed"
      /\ event[w].cursor > client[c].cursor /\ client[c].page \subseteq Ahead(c)
  BY <1>1 DEF IInv, PagesSound, Ahead
<1>4. PICK k : k = [client[c] EXCEPT !.page = @ \ {w}, !.got = @ \cup {w},
                                     !.cursor = event[w].cursor]
  OBVIOUS
<1>5. /\ k \in Client /\ k.pc = "sending" /\ k.cursor = event[w].cursor
      /\ k.got = client[c].got \cup {w} /\ k.page = client[c].page \ {w}
  BY <1>1, <1>3, <1>4, ClientTyped, EventTyped DEF IInv, Client
<1>6. client' = [client EXCEPT ![c] = k]
  BY <1>2, <1>4 DEF IInv, TypeOK
<1>7. \A v \in Writers : event[v].cursor \in Nat
  BY EventTyped DEF IInv
<1>8. /\ client[c].cursor \in Nat
      /\ \A v \in Writers : Drawn(v) /\ event[v].cursor = event[w].cursor => v = w
      /\ event[w].cursor <= seq /\ seq \in Nat
  BY <1>3, ClientTyped DEF IInv, CursorsSound, TypeOK
<1>9. \A x \in client[c].page, v \in Writers :
        /\ event[v].state = "committed" /\ event[v].cursor > client[c].cursor
        /\ event[v].cursor <= event[x].cursor
        => v \in client[c].page
  BY <1>1 DEF IInv, PagesSound, Ahead
<1>10. \A v \in client[c].page : v = w \/ event[v].cursor > event[w].cursor
  BY <1>2, <1>3, <1>7, <1>8 DEF Ahead, Drawn
<1>11. k.page \subseteq {v \in Writers : /\ event[v].state = "committed"
                                        /\ event[v].cursor > k.cursor}
  BY <1>3, <1>5, <1>10 DEF Ahead
<1>12. \A x \in k.page, v \in Writers :
         /\ event[v].state = "committed" /\ event[v].cursor > k.cursor
         /\ event[v].cursor <= event[x].cursor
         => v \in k.page
  BY <1>3, <1>5, <1>7, <1>8, <1>9
<1>13. ASSUME NEW v \in Writers, event[v].state # "rolled_back", Drawn(v),
              event[v].cursor <= k.cursor, v \notin k.got
       PROVE  MayPass(c, v)
  <2>1. CASE event[v].cursor <= client[c].cursor
    BY <1>5, <1>13, <2>1 DEF IInv, PassedSound, Passed
  <2>2. CASE event[v].cursor > client[c].cursor /\ event[v].state = "committed"
    <3>1. v \in client[c].page
      BY <1>5, <1>9, <1>13, <2>2
    <3> QED
      BY <1>3, <1>5, <1>7, <1>10, <1>13, <3>1
  <2>3. CASE event[v].state = "open"
    <3>1. lock # v /\ sharing = {}
      BY <1>1, HouseEventsAssumption DEF HouseEventsAssumption, IInv, LocksSound
    <3>2. Kind[v] \notin {"locked", "shared"}
      BY <1>13, <2>3, <3>1 DEF IInv, LocksSound, Open
    <3> QED
      BY <3>2, HouseEventsAssumption DEF HouseEventsAssumption, Kinds, MayPass
  <2> QED
    BY <1>7, <1>8, <1>13, <2>1, <2>2, <2>3, EventTyped DEF IInv
<1>14. changes' \in 0..MaxChanges /\ k.cursor <= seq
  BY <1>1, <1>5, <1>8 DEF IInv, TypeOK
<1> QED
  BY <1>1, <1>3, <1>5, <1>6, <1>11, <1>12, <1>13, <1>14, ReaderMoves

\* A poll passes what has yet to appear, but nothing of who holds the house alone.
LEMMA PollKeeps ==
  ASSUME IInv, NEW c \in Clients, PollList(c)
  PROVE  IInv'
<1> DEFINE n == Advanced(c, Page(c))
<1>1. /\ client[c].pc = "checked" /\ c \notin Streams /\ lock # c
      /\ UNCHANGED <<member, seq, event, lock, sharing, changes>>
  BY DEF PollList, IInv, PagesSound, TypeOK
<1>2. PICK k : k = [client[c] EXCEPT !.pc = "off", !.got = @ \cup Page(c), !.cursor = n]
  OBVIOUS
<1>3. Page(c) \subseteq Ahead(c) /\ Page(c) \subseteq Writers
  BY DEF Page, Ahead
<1>4. /\ n \in {client[c].cursor} \cup {event[w].cursor : w \in Page(c)}
      /\ \A w \in Page(c) : event[w].cursor <= n
  BY <1>3, AdvancedToHighest DEF IInv
<1>5. client' = [client EXCEPT ![c] = k]
  BY <1>2 DEF PollList, IInv, TypeOK
<1> HIDE DEF n
<1>6. /\ \A v \in Writers : event[v].cursor \in Nat /\ event[v].cursor <= seq
      /\ client[c].cursor \in Nat /\ client[c].cursor <= seq /\ seq \in Nat
  BY EventTyped, ClientTyped DEF IInv, CursorsSound, TypeOK
<1>7. n \in Nat /\ n <= seq
  BY <1>3, <1>4, <1>6
<1>8. /\ k \in Client /\ k.pc = "off" /\ k.cursor = n
      /\ k.got = client[c].got \cup Page(c)
  BY <1>2, <1>3, <1>7, ClientTyped DEF IInv, Client
<1>9. ASSUME NEW v \in Writers, event[v].state # "rolled_back", Drawn(v),
             event[v].cursor <= n, v \notin k.got
      PROVE  MayPass(c, v)
  <2>1. CASE n = client[c].cursor
    BY <1>8, <1>9, <2>1 DEF IInv, PassedSound, Passed
  <2>2. ASSUME NEW w \in Page(c), n = event[w].cursor PROVE MayPass(c, v)
    <3>1. w \in Writers /\ event[w].state = "committed"
      BY <1>3 DEF Ahead
    <3>2. CASE event[v].cursor <= client[c].cursor
      BY <1>8, <1>9, <3>2 DEF IInv, PassedSound, Passed
    <3>3. CASE event[v].cursor > client[c].cursor /\ event[v].state = "committed"
      <4>1. v \in Page(c)
        BY <1>9, <2>2, <3>3, PagesAreFirst DEF IInv, Ahead
      <4> QED
        BY <1>8, <1>9, <4>1
    <3>4. CASE event[v].state = "open"
      <4>1. Kind[v] # "locked"
        BY <1>6, <1>9, <2>2, <3>1, <3>4 DEF IInv, LocksSound, Open
      <4> QED
        BY <1>1, <4>1, HouseEventsAssumption
        DEF HouseEventsAssumption, Kinds, MayPass
    <3> QED
      BY <1>6, <1>9, <3>2, <3>3, <3>4, EventTyped DEF IInv
  <2> QED
    BY <1>4, <2>1, <2>2
<1>10. changes' \in 0..MaxChanges /\ k.cursor <= seq
  BY <1>1, <1>7, <1>8 DEF IInv, TypeOK
<1> QED
  BY <1>1, <1>5, <1>8, <1>9, <1>10, ReaderMoves

LEMMA ConnectionKeeps ==
  ASSUME IInv, NEW c \in Clients,
         Connect(c) \/ Sent(c) \/ Break(c) \/ PollCheck(c) \/ PollLost(c)
  PROVE  IInv'
<1>1. lock = c <=> client[c].pc = "sending"
  BY DEF IInv, TypeOK
<1>2. changes' \in 0..MaxChanges /\ UNCHANGED <<member, seq, event, sharing>>
  BY HouseEventsAssumption
  DEF HouseEventsAssumption, Connect, Sent, Break, PollCheck, PollLost, Changed, IInv,
      TypeOK
<1>3. lock' = IF lock = c THEN Nobody ELSE lock
  BY <1>1 DEF Connect, Sent, Break, PollCheck, PollLost
<1>4. \E pc \in {"off", "open", "checked"} :
        /\ Goto(c, pc)
        /\ pc = "open" => c \in Streams
        /\ pc = "checked" => c \notin Streams
  BY DEF Connect, Sent, Break, PollCheck, PollLost, IInv, PagesSound
<1> QED
  BY <1>2, <1>3, <1>4, GotoKeeps

LEMMA StepSound == IInv /\ [Next]_vars => IInv'
<1> SUFFICES ASSUME IInv, [Next]_vars PROVE IInv'
  OBVIOUS
<1>1. ASSUME NEW u \in Users, RemoveMember(u) \/ AcceptInvitation(u) PROVE IInv'
  BY <1>1, MembersKeep
<1>2. ASSUME NEW w \in Writers, Write(w) \/ RollBack(w) PROVE IInv'
  BY <1>2, LockHouseKeeps, ShareHouseKeeps, InsertKeeps, EndKeeps
     DEF Write, Commit, RollBack
<1>3. ASSUME NEW c \in Clients,
             \/ Stream(c) \/ Snapshot(c) \/ Break(c)
             \/ PollCheck(c) \/ PollList(c) \/ PollLost(c)
      PROVE  IInv'
  BY <1>3, ConnectionKeeps, SnapshotKeeps, SendKeeps, PollKeeps DEF Stream
<1>4. CASE UNCHANGED vars
  BY <1>4
  DEF vars, IInv, TypeOK, CursorsSound, LocksSound, PagesSound, PassedSound, Passed,
      MayPass, Ahead, Drawn, Open
<1> QED
  BY <1>1, <1>2, <1>3, <1>4 DEF Next

LEMMA Inductive == Spec => []IInv
BY InitSound, StepSound, PTL DEF Spec

-----------------------------------------------------------------------------

\* Whatever a stream has passed without sending it was appended alone, and whatever a
\* poll has passed was not written under the exclusive lock (WithAuthorizedHouseEvents,
\* listHouseEvents).
THEOREM ReadersSkipNothingLocked == Spec => []HouseEventsInv
<1>1. IInv => HouseEventsInv
  <2> SUFFICES ASSUME IInv PROVE StreamsSkipOnlyBare /\ PollsSkipNoneLocked
    BY DEF IInv, HouseEventsInv
  <2>1. \A c \in Clients : Skipped(c) \subseteq Passed(c)
    BY DEF IInv, CursorsSound, Skipped, Passed
  <2>2. \A c \in Streams : c \in Clients
    BY HouseEventsAssumption DEF HouseEventsAssumption
  <2> QED
    BY <2>1, <2>2
    DEF IInv, PassedSound, MayPass, StreamsSkipOnlyBare, PollsSkipNoneLocked
<1> QED
  BY <1>1, Inductive, PTL

\* "A snapshot begun after a removal commit cannot be authorized"
\* (WithAuthorizedHouseEvents): a removal waits for the snapshot that is being sent.
THEOREM NothingStreamedToOthers == Spec => StreamsOnlyToMembers
<1>1. IInv /\ [Next]_vars =>
        [\A c \in Streams : client'[c].got # client[c].got => Who[c] \in member]_vars
  <2> SUFFICES ASSUME IInv, Next, NEW c \in Streams, client'[c].got # client[c].got
               PROVE  Who[c] \in member
    OBVIOUS
  <2>1. c \in Clients /\ client \in [Clients -> Client]
    BY HouseEventsAssumption DEF HouseEventsAssumption, IInv, TypeOK
  <2>2. PICK d \in Clients : Send(d) \/ PollList(d)
    <3>1. client' # client
      OBVIOUS
    <3>2. ASSUME NEW d \in Clients, NEW k, k.got = client[d].got,
                 client' = [client EXCEPT ![d] = k]
          PROVE  FALSE
      BY <2>1, <3>2
    <3>3. ASSUME NEW d \in Clients, NEW pc, Goto(d, pc) PROVE FALSE
      <4>1. PICK k : k = [client[d] EXCEPT !.pc = pc, !.page = {}]
        OBVIOUS
      <4>2. k.got = client[d].got /\ client' = [client EXCEPT ![d] = k]
        BY <2>1, <3>3, <4>1, ClientTyped DEF Goto, IInv, Client
      <4> QED
        BY <3>2, <4>2
    <3>4. ASSUME NEW d \in Clients, Snapshot(d) PROVE FALSE
      <4>1. PICK k : k = [client[d] EXCEPT !.pc = "sending", !.page = Page(d)]
        OBVIOUS
      <4>2. k.got = client[d].got
        BY <4>1, ClientTyped DEF IInv, Client
      <4>3. client' # [client EXCEPT ![d] = k]
        BY <3>2, <4>2
      <4> QED
        BY <2>1, <3>3, <3>4, <4>1, <4>3 DEF Snapshot
    <3>5. \A d \in Clients :
            ~ (Connect(d) \/ Sent(d) \/ Break(d) \/ PollCheck(d) \/ PollLost(d))
      BY <3>3 DEF Connect, Sent, Break, PollCheck, PollLost
    <3>6. \A u \in Users : ~ (RemoveMember(u) \/ AcceptInvitation(u))
      BY <3>1 DEF RemoveMember, AcceptInvitation
    <3>7. \A w \in Writers : ~ (Write(w) \/ RollBack(w))
      BY <3>1
      DEF Write, LockHouse, ShareHouse, InsertHouseEvent, Commit, RollBack, End
    <3> QED
      BY <3>4, <3>5, <3>6, <3>7 DEF Next, Stream
  <2>3. d = c
    BY <2>1, <2>2 DEF Send, PollList
  <2>4. client[c].pc = "sending"
    BY <2>2, <2>3 DEF Send, PollList, IInv, PagesSound
  <2> QED
    BY <2>1, <2>4 DEF IInv, PagesSound
<1> QED
  BY <1>1, Inductive, PTL DEF Spec, StreamsOnlyToMembers

-----------------------------------------------------------------------------
(* Streams follow the log. *)

\* A stream has received events up to its cursor only.
Received == \A c \in Streams : \A w \in client[c].got :
              event[w].state = "committed" /\ event[w].cursor <= client[c].cursor

\* What readers do besides receiving events.
LEMMA ReadersStay ==
  ASSUME IInv, NEW d \in Clients,
         \/ Connect(d) \/ Snapshot(d) \/ Sent(d) \/ Break(d) \/ PollCheck(d) \/ PollLost(d)
  PROVE  /\ UNCHANGED <<member, event>>
         /\ \A c \in Clients : /\ client'[c].got = client[c].got
                               /\ client'[c].cursor = client[c].cursor
<1>1. client \in [Clients -> Client]
  BY DEF IInv, TypeOK
<1>2. ASSUME NEW pc, Goto(d, pc), NEW c \in Clients
      PROVE  client'[c].got = client[c].got /\ client'[c].cursor = client[c].cursor
  BY <1>1, <1>2 DEF Goto, Client
<1>3. ASSUME client' = [client EXCEPT ![d].pc = "sending", ![d].page = Page(d)],
             NEW c \in Clients
      PROVE  client'[c].got = client[c].got /\ client'[c].cursor = client[c].cursor
  BY <1>1, <1>3 DEF Client
<1> QED
  BY <1>2, <1>3 DEF Connect, Snapshot, Sent, Break, PollCheck, PollLost

\* A stream that sends takes the next event of all it has ahead.
LEMMA SendSends ==
  ASSUME IInv, NEW d \in Clients, Send(d)
  PROVE  /\ d \in Streams /\ Who[d] \in member /\ UNCHANGED <<member, event>>
         /\ \E w \in Ahead(d) :
              /\ \A v \in Ahead(d) : event[w].cursor <= event[v].cursor
              /\ client'[d].got = client[d].got \cup {w}
              /\ client'[d].cursor = event[w].cursor
              /\ \A c \in Clients : c # d => client'[c] = client[c]
<1>1. client[d].pc = "sending" /\ UNCHANGED <<member, event>>
  BY DEF Send
<1>2. PICK w \in client[d].page :
        /\ \A v \in client[d].page : event[w].cursor <= event[v].cursor
        /\ client' = [client EXCEPT ![d].page = @ \ {w}, ![d].got = @ \cup {w},
                                    ![d].cursor = event[w].cursor]
  BY DEF Send
<1>3. /\ d \in Streams /\ Who[d] \in member
      /\ client[d].page \subseteq Ahead(d)
      /\ \A x \in client[d].page, v \in Ahead(d) :
           event[v].cursor <= event[x].cursor => v \in client[d].page
  BY <1>1 DEF IInv, PagesSound
<1>4. /\ client'[d].got = client[d].got \cup {w} /\ client'[d].cursor = event[w].cursor
      /\ \A c \in Clients : c # d => client'[c] = client[c]
  BY <1>2 DEF IInv, TypeOK, Client
<1>5. \A v \in Ahead(d) : event[w].cursor <= event[v].cursor
  <2> SUFFICES ASSUME NEW v \in Ahead(d), ~ (event[w].cursor <= event[v].cursor)
               PROVE  FALSE
    OBVIOUS
  <2>1. event[w].cursor \in Nat /\ event[v].cursor \in Nat
    BY <1>2, <1>3, EventTyped DEF IInv, Ahead
  <2>2. v \in client[d].page
    BY <1>2, <1>3, <2>1
  <2> QED
    BY <1>2, <2>2
<1> QED
  BY <1>1, <1>2, <1>3, <1>4, <1>5

LEMMA PollStays ==
  ASSUME IInv, NEW d \in Clients, PollList(d)
  PROVE  UNCHANGED <<member, event>> /\ \A c \in Streams : client'[c] = client[c]
<1>1. d \notin Streams /\ \A c \in Streams : c \in Clients
  BY HouseEventsAssumption DEF HouseEventsAssumption, PollList, IInv, PagesSound
<1> QED
  BY <1>1 DEF PollList, IInv, TypeOK

\* Until it commits nothing of a writer is in the log.
LEMMA WritersWait ==
  ASSUME IInv, NEW w \in Writers,
         LockHouse(w) \/ ShareHouse(w) \/ InsertHouseEvent(w) \/ RollBack(w)
  PROVE  /\ UNCHANGED <<member, client>>
         /\ \A v \in Writers : /\ event'[v].state = "committed" <=> event[v].state = "committed"
                               /\ event[v].state = "committed" => event'[v].cursor = event[v].cursor
<1>1. event \in [Writers -> Event]
  BY DEF IInv, TypeOK
<1> QED
  BY <1>1 DEF LockHouse, ShareHouse, InsertHouseEvent, RollBack, End, Open, Event

\* What commits is ahead of every stream, unless it was appended alone.
LEMMA CommitsAhead ==
  ASSUME IInv, Received, NEW w \in Writers, Commit(w)
  PROVE  /\ UNCHANGED <<member, client>> /\ Drawn(w) /\ event[w].state = "open"
         /\ event' = [event EXCEPT ![w].state = "committed"]
         /\ Kind[w] # "bare" => \A c \in Streams : \A v \in client[c].got :
                                  event[v].cursor < event[w].cursor
<1>1. /\ UNCHANGED <<member, client>> /\ Drawn(w) /\ event[w].state = "open"
      /\ event' = [event EXCEPT ![w].state = "committed"]
  BY DEF Commit, End, Open
<1>2. ASSUME Kind[w] # "bare", NEW c \in Streams, NEW v \in client[c].got
      PROVE  event[v].cursor < event[w].cursor
  <2>1. c \in Clients
    BY HouseEventsAssumption DEF HouseEventsAssumption
  <2>2. w \notin client[c].got
    BY <1>1 DEF Received
  <2>3. ~ (event[w].cursor <= client[c].cursor)
    BY <1>1, <1>2, <2>1, <2>2 DEF IInv, PassedSound, Passed, MayPass
  <2>4. event[v].cursor <= client[c].cursor /\ v \in Writers
    BY <2>1, ClientTyped DEF Received, IInv
  <2>5. event[v].cursor \in Nat /\ event[w].cursor \in Nat /\ client[c].cursor \in Nat
    BY <2>1, <2>4, EventTyped, ClientTyped DEF IInv
  <2> QED
    BY <2>3, <2>4, <2>5
<1> QED
  BY <1>1, <1>2

LEMMA ReceivedStep == IInv /\ Received /\ [Next]_vars => Received'
<1> SUFFICES ASSUME IInv, Received, [Next]_vars PROVE Received'
  OBVIOUS
<1>0. /\ \A c \in Streams : c \in Clients /\ client[c].got \subseteq Writers
      /\ event \in [Writers -> Event]
  BY HouseEventsAssumption, ClientTyped DEF HouseEventsAssumption, IInv, TypeOK
<1>1. ASSUME \A c \in Streams : /\ client'[c].got = client[c].got
                                /\ client'[c].cursor = client[c].cursor,
             \A v \in Writers : event[v].state = "committed" =>
               event'[v].state = "committed" /\ event'[v].cursor = event[v].cursor
      PROVE  Received'
  BY <1>0, <1>1 DEF Received
<1>2. ASSUME NEW u \in Users, RemoveMember(u) \/ AcceptInvitation(u) PROVE Received'
  BY <1>1, <1>2 DEF RemoveMember, AcceptInvitation
<1>3. ASSUME NEW w \in Writers,
             LockHouse(w) \/ ShareHouse(w) \/ InsertHouseEvent(w) \/ RollBack(w)
      PROVE  Received'
  BY <1>1, <1>3, WritersWait
<1>4. ASSUME NEW w \in Writers, Commit(w) PROVE Received'
  <2>1. UNCHANGED client /\ event' = [event EXCEPT ![w].state = "committed"]
    BY <1>4, CommitsAhead
  <2>2. \A v \in Writers : event[v].state = "committed" =>
               event'[v].state = "committed" /\ event'[v].cursor = event[v].cursor
    BY <1>0, <2>1 DEF Event
  <2> QED
    BY <1>1, <2>1, <2>2
<1>5. ASSUME NEW d \in Clients,
             \/ Connect(d) \/ Snapshot(d) \/ Sent(d) \/ Break(d) \/ PollCheck(d) \/ PollLost(d)
      PROVE  Received'
  BY <1>0, <1>1, <1>5, ReadersStay
<1>6. ASSUME NEW d \in Clients, PollList(d) PROVE Received'
  BY <1>1, <1>6, PollStays
<1>7. ASSUME NEW d \in Clients, Send(d) PROVE Received'
  <2>1. /\ d \in Streams /\ UNCHANGED event
        /\ \E w \in Ahead(d) : /\ client'[d].got = client[d].got \cup {w}
                               /\ client'[d].cursor = event[w].cursor
                               /\ \A c \in Clients : c # d => client'[c] = client[c]
    BY <1>7, SendSends
  <2>2. PICK w \in Ahead(d) : /\ client'[d].got = client[d].got \cup {w}
                              /\ client'[d].cursor = event[w].cursor
                              /\ \A c \in Clients : c # d => client'[c] = client[c]
    BY <2>1
  <2> SUFFICES ASSUME NEW c \in Streams, NEW v \in client'[c].got
               PROVE  event[v].state = "committed" /\ event[v].cursor <= client'[c].cursor
    BY <2>1 DEF Received
  <2>3. CASE c # d
    BY <1>0, <2>2, <2>3 DEF Received
  <2>4. CASE c = d /\ v = w
    BY <2>2, <2>4, EventTyped DEF Ahead, IInv
  <2>5. CASE c = d /\ v # w
    <3>1. v \in client[d].got /\ v \in Writers
      BY <1>0, <2>1, <2>2, <2>5
    <3>2. event[v].state = "committed" /\ event[v].cursor <= client[d].cursor
      BY <2>1, <3>1 DEF Received
    <3>3. w \in Writers /\ event[w].cursor > client[d].cursor
      BY DEF Ahead
    <3>4. event[v].cursor \in Nat /\ event[w].cursor \in Nat /\ client[d].cursor \in Nat
      BY <3>1, <3>3, EventTyped, ClientTyped DEF IInv
    <3> QED
      BY <2>2, <2>5, <3>2, <3>3, <3>4
  <2> QED
    BY <2>3, <2>4, <2>5
<1>8. CASE UNCHANGED vars
  BY <1>1, <1>8 DEF vars
<1> QED
  BY <1>2, <1>3, <1>4, <1>5, <1>6, <1>7, <1>8 DEF Next, Write, Stream

\* The place of an event in the log.
Place(w) == IF event[w].state = "committed" THEN event[w].cursor ELSE 0

LEMMA LogStep == IInv /\ Received /\ [Next]_vars => [Log!Next]_(Log!vars)
<1> SUFFICES ASSUME IInv, Received, [Next]_vars PROVE Log!Next \/ UNCHANGED Log!vars
  OBVIOUS
<1>0. /\ \A c \in Streams : c \in Clients /\ client[c].got \subseteq Writers
      /\ event \in [Writers -> Event] /\ member \subseteq Users
  BY HouseEventsAssumption, ClientTyped DEF HouseEventsAssumption, IInv, TypeOK
<1>1. ASSUME UNCHANGED member,
             \A c \in Streams : client'[c].got = client[c].got,
             \A v \in Writers : Place(v)' = Place(v)
      PROVE  UNCHANGED Log!vars
  BY <1>1 DEF Log!vars, Place
<1>2. ASSUME NEW u \in Users, RemoveMember(u) \/ AcceptInvitation(u) PROVE Log!Next
  <2>1. member' \in SUBSET Users /\ UNCHANGED <<client, event>>
    BY <1>0, <1>2 DEF RemoveMember, AcceptInvitation
  <2>2. Log!Admit
    BY <2>1 DEF Log!Admit
  <2> QED
    BY <2>2 DEF Log!Next
<1>3. ASSUME NEW w \in Writers,
             LockHouse(w) \/ ShareHouse(w) \/ InsertHouseEvent(w) \/ RollBack(w)
      PROVE  UNCHANGED Log!vars
  <2>1. UNCHANGED <<member, client>> /\ \A v \in Writers : Place(v)' = Place(v)
    BY <1>3, WritersWait DEF Place
  <2> QED
    BY <1>1, <2>1
<1>4. ASSUME NEW w \in Writers, Commit(w) PROVE Log!Next
  <2>1. /\ UNCHANGED <<member, client>> /\ Drawn(w) /\ event[w].state = "open"
        /\ event' = [event EXCEPT ![w].state = "committed"]
        /\ Kind[w] # "bare" => \A c \in Streams : \A v \in client[c].got :
                                 event[v].cursor < event[w].cursor
    BY <1>4, CommitsAhead
  <2>2. event' \in [Writers -> Event] /\ event'[w].state = "committed"
        /\ event'[w].cursor = event[w].cursor
        /\ \A v \in Writers : v # w => event'[v] = event[v]
    BY <1>0, <2>1 DEF Event
  <2>3. /\ Place(w) = 0 /\ Place(w)' = event[w].cursor /\ event[w].cursor \in Nat
        /\ event[w].cursor # 0
    BY <2>1, <2>2, EventTyped DEF Place, Drawn, IInv
  <2>4. \A v \in Writers : Place(v)' \in Nat
    BY <2>2 DEF Place, Event
  <2>5. \A v \in Writers \ {w} : Place(v)' = Place(v) /\ Place(v)' # Place(w)'
    <3> SUFFICES ASSUME NEW v \in Writers \ {w}
                 PROVE  Place(v)' = Place(v) /\ Place(v)' # Place(w)'
      OBVIOUS
    <3>1. Place(v)' = Place(v)
      BY <2>2 DEF Place
    <3>2. event[v].cursor # event[w].cursor
      BY <2>1 DEF IInv, CursorsSound
    <3> QED
      BY <2>3, <3>1, <3>2 DEF Place
  <2>6. Kind[w] # "bare" => \A c \in Streams : \A v \in client[c].got : Place(v) < Place(w)'
    <3> SUFFICES ASSUME Kind[w] # "bare", NEW c \in Streams, NEW v \in client[c].got
                 PROVE  Place(v) < Place(w)'
      OBVIOUS
    <3>1. Place(v) = event[v].cursor
      BY DEF Received, Place
    <3> QED
      BY <2>1, <2>3, <3>1
  <2>7. Log!Append(w)
    <3>1. ~Log!Logged(w) /\ Log!Logged(w)'
      BY <2>3 DEF Log!Logged, Place
    <3>2. [v \in Writers |-> Place(v)]' \in [Writers -> Nat]
      BY <2>4
    <3>3. \A v \in Writers \ {w} :
            /\ [x \in Writers |-> Place(x)]'[v] = [x \in Writers |-> Place(x)][v]
            /\ [x \in Writers |-> Place(x)]'[v] # [x \in Writers |-> Place(x)]'[w]
      BY <2>5
    <3>4. w \in {v \in Writers : Kind[v] # "bare"} =>
            \A c \in Streams : \A v \in [d \in Streams |-> client[d].got][c] :
              [x \in Writers |-> Place(x)][v] < [x \in Writers |-> Place(x)]'[w]
      BY <1>0, <2>6
    <3>5. UNCHANGED <<member, [d \in Streams |-> client[d].got]>>
      BY <2>1
    <3> QED
      BY <3>1, <3>2, <3>3, <3>4, <3>5 DEF Log!Append, Place
  <2> QED
    BY <2>7 DEF Log!Next
<1>5. ASSUME NEW d \in Clients,
             \/ Connect(d) \/ Snapshot(d) \/ Sent(d) \/ Break(d) \/ PollCheck(d) \/ PollLost(d)
      PROVE  UNCHANGED Log!vars
  <2>1. UNCHANGED <<member, event>> /\ \A c \in Streams : client'[c].got = client[c].got
    BY <1>0, <1>5, ReadersStay
  <2> QED
    BY <1>1, <2>1 DEF Place
<1>6. ASSUME NEW d \in Clients, PollList(d) PROVE UNCHANGED Log!vars
  <2>1. UNCHANGED <<member, event>> /\ \A c \in Streams : client'[c].got = client[c].got
    BY <1>6, PollStays
  <2> QED
    BY <1>1, <2>1 DEF Place
<1>7. ASSUME NEW d \in Clients, Send(d) PROVE Log!Next
  <2>1. /\ d \in Streams /\ Who[d] \in member /\ UNCHANGED <<member, event>>
        /\ \E w \in Ahead(d) :
             /\ \A v \in Ahead(d) : event[w].cursor <= event[v].cursor
             /\ client'[d].got = client[d].got \cup {w}
             /\ \A c \in Clients : c # d => client'[c] = client[c]
    BY <1>7, SendSends
  <2>2. PICK w \in Ahead(d) :
          /\ \A v \in Ahead(d) : event[w].cursor <= event[v].cursor
          /\ client'[d].got = client[d].got \cup {w}
          /\ \A c \in Clients : c # d => client'[c] = client[c]
    BY <2>1
  <2>3. /\ w \in Writers /\ event[w].state = "committed" /\ event[w].cursor > client[d].cursor
        /\ event[w].cursor \in Nat /\ client[d].cursor \in Nat
    BY EventTyped, ClientTyped DEF Ahead, IInv
  <2>4. Place(w) = event[w].cursor /\ Place(w) # 0
    BY <2>3 DEF Place
  <2>5. \A v \in client[d].got : Place(v) < Place(w)
    <3> SUFFICES ASSUME NEW v \in client[d].got PROVE Place(v) < Place(w)
      OBVIOUS
    <3>1. /\ Place(v) = event[v].cursor /\ event[v].cursor <= client[d].cursor
          /\ v \in Writers
      BY <1>0, <2>1 DEF Received, Place
    <3>2. event[v].cursor \in Nat
      BY <3>1, EventTyped DEF IInv
    <3> QED
      BY <2>3, <2>4, <3>1, <3>2
  <2>6. \A v \in Writers : Kind[v] # "bare" /\ Place(v) # 0 /\ Place(v) < Place(w)
                             => v \in client[d].got
    <3> SUFFICES ASSUME NEW v \in Writers, Kind[v] # "bare", Place(v) # 0,
                        Place(v) < Place(w), v \notin client[d].got
                 PROVE  FALSE
      OBVIOUS
    <3>1. event[v].state = "committed" /\ Place(v) = event[v].cursor /\ event[v].cursor \in Nat
      BY EventTyped DEF Place, IInv
    <3>2. ~ (event[v].cursor <= client[d].cursor)
      BY <2>1, <3>1 DEF IInv, CursorsSound, PassedSound, Passed, MayPass
    <3>3. v \in Ahead(d)
      BY <2>3, <3>1, <3>2 DEF Ahead
    <3>4. event[w].cursor <= event[v].cursor
      BY <2>2, <3>3
    <3> QED
      BY <2>3, <2>4, <3>1, <3>4
  <2>7. Log!Deliver(d, w)
    <3>1. Log!Logged(w)
      BY <2>3, <2>4 DEF Log!Logged, Place
    <3>2. \A v \in [c \in Streams |-> client[c].got][d] :
            [x \in Writers |-> Place(x)][v] < [x \in Writers |-> Place(x)][w]
      BY <1>0, <2>1, <2>3, <2>5
    <3>3. \A v \in {x \in Writers : Kind[x] # "bare"} :
            /\ [x \in Writers |-> Place(x)][v] # 0
            /\ [x \in Writers |-> Place(x)][v] < [x \in Writers |-> Place(x)][w]
            => v \in [c \in Streams |-> client[c].got][d]
      BY <2>1, <2>3, <2>6
    <3>4. [c \in Streams |-> client[c].got]' =
            [[c \in Streams |-> client[c].got] EXCEPT ![d] = @ \cup {w}]
      BY <1>0, <2>1, <2>2
    <3>5. UNCHANGED <<member, [x \in Writers |-> Place(x)]>>
      BY <2>1 DEF Place
    <3> QED
      BY <2>1, <3>1, <3>2, <3>3, <3>4, <3>5 DEF Log!Deliver, Log!Logged, Place
  <2> QED
    BY <2>1, <2>3, <2>7 DEF Log!Next
<1>8. CASE UNCHANGED vars
  BY <1>1, <1>8 DEF vars, Place
<1> QED
  BY <1>2, <1>3, <1>4, <1>5, <1>6, <1>7, <1>8 DEF Next, Write, Stream

\* Streams implement HouseLog: what a client receives on one, however often it breaks off,
\* is the log in order, without a gap among the events written under a lock
\* (WithAuthorizedHouseEvents).  That each of those comes in the end is left to TLC.
THEOREM StreamsFollowLog == Spec => Log!Spec
<1>1. Init => Log!Init /\ Received
  <2> SUFFICES ASSUME Init PROVE Log!Init /\ Received
    OBVIOUS
  <2>1. \A c \in Streams : client[c].got = {}
    BY HouseEventsAssumption DEF HouseEventsAssumption, Init
  <2> QED
    BY <2>1 DEF Init, Log!Init, Received
<1> QED
  BY <1>1, ReceivedStep, LogStep, Inductive, PTL DEF Spec, Log!Spec

-----------------------------------------------------------------------------
(* The scheduler, which appends to the events of a house when its own are due. *)

\* The occurrence a worker has claimed is the next one of its event, which nobody else
\* has claimed or can change.
RunSound(w) ==
  run[w].pc = "claimed" =>
    /\ run[w].event \in Events /\ Stored(run[w].event)
    /\ run[w].at # Never /\ run[w].at = scheduled[run[w].event].next

RunsSound ==
  /\ \A w \in Workers : RunSound(w)
  /\ \A v, w \in Workers :
       /\ run[v].pc = "claimed" /\ run[w].pc = "claimed"
       /\ run[v].event = run[w].event
       => v = w

\* A save that was worked out brings the first occurrence since then.
SaversSound ==
  \A s \in Savers : saver[s].pc = "ready" =>
    /\ saver[s].event \in Events
    /\ saver[s].next = After(saver[s].rule, saver[s].from - 1)

\* An occurrence that is still ahead has been announced for earlier edits only.
AheadOf(e, o) == scheduled[e].next # Never /\ o >= scheduled[e].next
Announced ==
  \A e \in Events, o \in Times :
    /\ due[e][o] <= 1 + edits[e] /\ reminded[e][o] <= 1
    /\ AheadOf(e, o) => due[e][o] <= edits[e]
    /\ scheduled[e].state = "absent" => due[e][o] = 0

SchedulerIInv ==
  /\ SchedulerTypeOK
  /\ RunsSound /\ SaversSound /\ Announced /\ NothingPassedOver

\* recurrence.Next: the first occurrence after t, if there is one.
LEMMA FirstAfter ==
  ASSUME NEW rule \in SUBSET Times, NEW t \in Int
  PROVE  LET n == After(rule, t) IN
         /\ n \in Times \cup {Never}
         /\ n # Never => n \in rule /\ n > t
         /\ \A o \in rule : o > t => n # Never /\ n <= o
<1> DEFINE later == {o \in rule : o > t}
           n == After(rule, t)
<1>1. \A o \in rule : o \in Nat /\ o > 0 /\ o \in Times
  BY DEF Times
<1>2. CASE later = {}
  BY <1>2 DEF After, Never
<1>3. CASE later # {}
  <2>1. \E x \in later : \A y \in later : x <= y
    BY <1>1, <1>3, Least
  <2>2. n = CHOOSE o \in later : \A p \in later : o <= p
    BY <1>3 DEF After
  <2>3. n \in later /\ \A p \in later : n <= p
    BY <2>1, <2>2
  <2> QED
    BY <1>1, <2>3 DEF Never
<1> QED
  BY <1>2, <1>3

LEMMA SchedulerInitHolds == SchedulerInit => SchedulerIInv
<1> SUFFICES ASSUME SchedulerInit PROVE SchedulerIInv
  OBVIOUS
<1>1. 0 \in 0..MaxTime /\ 0 \in 0..MaxCrashes
  BY SchedulerAssumption DEF SchedulerAssumption
<1>2. /\ run \in [Workers -> Run] /\ \A w \in Workers : run[w].pc = "idle"
      /\ saver \in [Savers -> Saver] /\ \A s \in Savers : saver[s].pc = "new"
  BY <1>1 DEF SchedulerInit, Run, Idle, Saver, Fresh,
              Never
<1>3. /\ scheduled \in [Events -> ScheduledEvent]
      /\ \A e \in Events : scheduled[e].next = Never /\ scheduled[e].state = "absent"
  BY DEF SchedulerInit, ScheduledEvent, Never
<1>4. SchedulerTypeOK
  BY <1>1, <1>2, <1>3 DEF SchedulerInit, SchedulerTypeOK
<1>5. RunsSound /\ SaversSound
  BY <1>2 DEF RunsSound, RunSound, SaversSound
<1>6. Announced
  BY <1>3 DEF SchedulerInit, Announced, AheadOf
<1>7. NothingPassedOver
  BY <1>3 DEF NothingPassedOver, Stored
<1> QED
  BY <1>4, <1>5, <1>6, <1>7 DEF SchedulerIInv

\* A step of a run that fires nothing.
LEMMA RunGoes ==
  ASSUME SchedulerIInv, NEW w \in Workers, NEW q \in Run,
         run' = [run EXCEPT ![w] = q],
         UNCHANGED <<clock, scheduled, saver, due, reminded, edits, since>>,
         crashes' \in 0..MaxCrashes,
         q.pc = "claimed" =>
           /\ q.event \in Events /\ Stored(q.event) /\ ~Locked(q.event)
           /\ q.at # Never /\ q.at = scheduled[q.event].next
  PROVE  SchedulerIInv'
<1> USE DEF SchedulerIInv
<1>1. run'[w] = q /\ \A v \in Workers : v # w => run'[v] = run[v]
  BY DEF SchedulerTypeOK
<1>2. SchedulerTypeOK'
  BY DEF SchedulerTypeOK
<1>3. \A v \in Workers : RunSound(v)'
  BY <1>1 DEF RunsSound, RunSound, Stored
<1>4. \A v, u \in Workers :
        /\ run'[v].pc = "claimed" /\ run'[u].pc = "claimed"
        /\ run'[v].event = run'[u].event
        => v = u
  BY <1>1 DEF RunsSound, Locked
<1>5. SaversSound' /\ Announced' /\ NothingPassedOver'
  BY DEF SaversSound, Announced, AheadOf, NothingPassedOver, Stored
<1> QED
  BY <1>2, <1>3, <1>4, <1>5 DEF RunsSound

LEMMA ScheduleRuns ==
  ASSUME SchedulerIInv, NEW w \in Workers,
         Start(w) \/ Claim(w) \/ NothingDue(w) \/ Crash(w)
  PROVE  SchedulerIInv'
<1> USE DEF SchedulerIInv
<1>1. /\ run[w] \in Run /\ clock \in 0..MaxTime /\ crashes \in 0..MaxCrashes
      /\ MaxTime \in Nat /\ MaxCrashes \in Nat
  BY SchedulerAssumption DEF SchedulerTypeOK, SchedulerAssumption
<1>2. Idle \in Run /\ Idle.pc = "idle"
  BY <1>1 DEF Idle, Run, Never
<1>3. CASE Start(w)
  <2> DEFINE q == [run[w] EXCEPT !.pc = "started", !.now = clock]
  <2>1. q \in Run /\ q.pc = "started" /\ run' = [run EXCEPT ![w] = q]
    BY <1>1, <1>3 DEF Start, Run, SchedulerTypeOK
  <2> HIDE DEF q
  <2> QED
    BY <1>1, <1>3, <2>1, RunGoes DEF Start
<1>4. CASE Claim(w)
  <2>1. PICK e \in Events :
          /\ IsDue(e, run[w].now) /\ ~Locked(e)
          /\ run' = [run EXCEPT ![w].pc = "claimed", ![w].event = e,
                                ![w].at = scheduled[e].next]
    BY <1>4 DEF Claim
  <2> DEFINE q == [run[w] EXCEPT !.pc = "claimed", !.event = e, !.at = scheduled[e].next]
  <2>2. scheduled[e].next \in Times \cup {Never}
    BY DEF SchedulerTypeOK, ScheduledEvent
  <2>3. /\ q \in Run /\ run' = [run EXCEPT ![w] = q]
        /\ q.pc = "claimed" /\ q.event = e /\ q.at = scheduled[e].next
    BY <1>1, <2>1, <2>2 DEF Run, SchedulerTypeOK
  <2>4. q.at # Never /\ Stored(e)
    BY <1>1, <2>1, <2>3 DEF IsDue, Never, Run
  <2> HIDE DEF q
  <2> QED
    BY <1>1, <1>4, <2>1, <2>3, <2>4, RunGoes DEF Claim
<1>5. CASE NothingDue(w)
  BY <1>1, <1>2, <1>5, RunGoes DEF NothingDue
<1>6. CASE Crash(w)
  <2>1. crashes' \in 0..MaxCrashes
    BY <1>1, <1>6 DEF Crash
  <2> QED
    BY <1>2, <1>6, <2>1, RunGoes DEF Crash
<1> QED
  BY <1>3, <1>4, <1>5, <1>6

LEMMA ScheduleTicks == ASSUME SchedulerIInv, Tick PROVE SchedulerIInv'
<1> USE DEF SchedulerIInv
<1>1. clock' \in 0..MaxTime
  BY SchedulerAssumption DEF Tick, SchedulerTypeOK, SchedulerAssumption
<1>2. SchedulerTypeOK'
  BY <1>1 DEF Tick, SchedulerTypeOK
<1> QED
  BY <1>2 DEF Tick, RunsSound, RunSound, SaversSound, Announced, AheadOf,
              NothingPassedOver, Stored

\* A request goes on and the events stay as they are.
LEMMA SaverGoes ==
  ASSUME SchedulerIInv, NEW s \in Savers, NEW q \in Saver,
         saver' = [saver EXCEPT ![s] = q],
         q.pc = "ready" => /\ q.event \in Events
                           /\ q.next = After(q.rule, q.from - 1),
         UNCHANGED <<clock, scheduled, run, due, reminded, edits, since, crashes>>
  PROVE  SchedulerIInv'
<1> USE DEF SchedulerIInv
<1>1. saver'[s] = q /\ \A r \in Savers : r # s => saver'[r] = saver[r]
  BY DEF SchedulerTypeOK
<1>2. SchedulerTypeOK'
  BY DEF SchedulerTypeOK
<1>3. SaversSound'
  BY <1>1 DEF SaversSound
<1> QED
  BY <1>2, <1>3, SchedulerAssumption DEF RunsSound, RunSound, Announced, AheadOf,
                    NothingPassedOver, Stored, SchedulerAssumption

LEMMA FreshSaver ==
  LET q == [Fresh EXCEPT !.pc = "done"] IN q \in Saver /\ q.pc = "done"
<1>1. 0 \in 0..MaxTime
  BY SchedulerAssumption DEF SchedulerAssumption
<1>2. Fresh \in Saver
  BY <1>1 DEF Fresh, Saver, Never
<1> QED
  BY <1>2 DEF Saver

LEMMA SchedulePrepares ==
  ASSUME SchedulerIInv, NEW s \in Savers, Prepare(s) \/ SaveNothing(s)
  PROVE  SchedulerIInv'
<1> USE DEF SchedulerIInv
<1>1. CASE Prepare(s)
  <2>1. PICK e \in Events, rule \in Rules, enabled \in BOOLEAN :
          saver' = [saver EXCEPT ![s] =
            [pc |-> "ready", event |-> e, rule |-> rule, enabled |-> enabled,
             next |-> After(rule, clock - 1), from |-> clock]]
    BY <1>1 DEF Prepare
  <2> DEFINE q == [pc |-> "ready", event |-> e, rule |-> rule, enabled |-> enabled,
                   next |-> After(rule, clock - 1), from |-> clock]
  <2>2. rule \in SUBSET Times
    BY DEF Rules
  <2>3. clock \in 0..MaxTime /\ clock - 1 \in Int
    BY DEF SchedulerTypeOK
  <2>4. After(rule, clock - 1) \in Times \cup {Never}
    BY <2>2, <2>3, FirstAfter
  <2>5. q \in Saver
    BY <2>2, <2>3, <2>4 DEF Saver
  <2>6. q.event \in Events /\ q.next = After(q.rule, q.from - 1)
    OBVIOUS
  <2> HIDE DEF q
  <2> QED
    BY <1>1, <2>1, <2>5, <2>6, SaverGoes DEF Prepare, q
<1>2. CASE SaveNothing(s)
  <2> DEFINE q == [Fresh EXCEPT !.pc = "done"]
  <2>1. q \in Saver /\ q.pc = "done"
    BY FreshSaver
  <2>2. saver' = [saver EXCEPT ![s] = q]
    BY <1>2 DEF SaveNothing
  <2> HIDE DEF q
  <2> QED
    BY <1>2, <2>1, <2>2, SaverGoes DEF SaveNothing
<1> QED
  BY <1>1, <1>2

LEMMA ScheduleSaves ==
  ASSUME SchedulerIInv, NEW s \in Savers, Save(s)
  PROVE  SchedulerIInv'
<1> USE DEF SchedulerIInv
<1> DEFINE q == saver[s]
           e == q.event
           new == [state |-> "stored", rule |-> q.rule, next |-> q.next, enabled |-> q.enabled]
<1>1. q \in Saver /\ e \in Events /\ q.next = After(q.rule, q.from - 1)
  BY DEF Save, SchedulerTypeOK, SaversSound
<1>2. /\ scheduled' = [scheduled EXCEPT ![e] = new]
      /\ since' = [since EXCEPT ![e] = q.from]
      /\ edits' = [edits EXCEPT ![e] = IF Stored(e) THEN @ + 1 ELSE @]
      /\ UNCHANGED <<clock, run, due, reminded, crashes>>
      /\ ~Locked(e) /\ scheduled[e].state # "deleted"
  BY DEF Save
<1>3. new \in ScheduledEvent /\ q.from \in 0..MaxTime /\ q.from - 1 \in Int
  BY <1>1 DEF Saver, ScheduledEvent
<1>4. /\ q.next # Never => q.next \in q.rule
      /\ \A o \in q.rule : o > q.from - 1 => q.next # Never /\ q.next <= o
      /\ q.rule \subseteq Times
  <2>1. q.rule \in SUBSET Times
    BY <1>1 DEF Saver
  <2>2. PICK t \in Int : t = q.from - 1
    BY <1>3
  <2>3. LET n == After(q.rule, t) IN
        /\ n # Never => n \in q.rule
        /\ \A o \in q.rule : o > t => n # Never /\ n <= o
    BY <2>1, FirstAfter
  <2>4. q.next = After(q.rule, t)
    BY <1>1, <2>2
  <2> QED
    BY <2>1, <2>2, <2>3, <2>4
<1>5. /\ scheduled'[e].state = "stored" /\ scheduled'[e].rule = q.rule
      /\ scheduled'[e].next = q.next
      /\ \A f \in Events : f # e => scheduled'[f] = scheduled[f]
  BY <1>1, <1>2 DEF SchedulerTypeOK
<1>6. /\ since'[e] = q.from /\ edits'[e] \in Nat
      /\ edits'[e] = IF Stored(e) THEN edits[e] + 1 ELSE edits[e]
      /\ \A f \in Events : f # e => since'[f] = since[f] /\ edits'[f] = edits[f]
  BY <1>1, <1>2 DEF SchedulerTypeOK
<1> HIDE DEF new
<1>7. SchedulerTypeOK'
  <2>1. /\ scheduled' \in [Events -> ScheduledEvent]
        /\ since' \in [Events -> 0..MaxTime] /\ edits' \in [Events -> Nat]
    BY <1>1, <1>2, <1>3 DEF SchedulerTypeOK
  <2>2. saver' \in [Savers -> Saver]
    BY FreshSaver DEF Save, SchedulerTypeOK
  <2>3. \A f \in Events : scheduled'[f].next # Never
                            => scheduled'[f].next \in scheduled'[f].rule
    BY <1>4, <1>5 DEF SchedulerTypeOK
  <2> QED
    BY <1>2, <2>1, <2>2, <2>3 DEF SchedulerTypeOK
<1>8. SaversSound'
  <2>1. saver'[s].pc = "done" /\ \A r \in Savers : r # s => saver'[r] = saver[r]
    BY FreshSaver DEF Save, SchedulerTypeOK
  <2> QED
    BY <2>1 DEF SaversSound
<1>9. RunsSound'
  <2>1. \A w \in Workers : run[w].pc = "claimed" => run[w].event # e
    BY <1>2 DEF Locked
  <2> QED
    BY <1>2, <1>5, <2>1 DEF RunsSound, RunSound, Stored
<1>10. Announced'
  <2> SUFFICES ASSUME NEW f \in Events, NEW o \in Times
               PROVE  /\ due[f][o] <= 1 + edits'[f] /\ reminded[f][o] <= 1
                      /\ AheadOf(f, o)' => due[f][o] <= edits'[f]
                      /\ scheduled'[f].state = "absent" => due[f][o] = 0
    BY <1>2 DEF Announced
  <2>1. /\ due[f][o] <= 1 + edits[f] /\ reminded[f][o] <= 1
        /\ AheadOf(f, o) => due[f][o] <= edits[f]
        /\ scheduled[f].state = "absent" => due[f][o] = 0
        /\ due[f][o] \in Nat /\ edits[f] \in Nat
    BY DEF Announced, SchedulerTypeOK
  <2>2. CASE f # e
    BY <1>5, <1>6, <2>1, <2>2 DEF AheadOf
  <2>3. CASE f = e /\ Stored(e)
    BY <1>5, <1>6, <2>1, <2>3
  <2>4. CASE f = e /\ ~Stored(e)
    <3>1. scheduled[e].state = "absent"
      BY <1>1, <1>2, <2>4 DEF Stored, SchedulerTypeOK, ScheduledEvent
    <3> QED
      BY <1>5, <1>6, <2>1, <2>4, <3>1
  <2> QED
    BY <2>2, <2>3, <2>4
<1>11. NothingPassedOver'
  <2> SUFFICES ASSUME NEW f \in Events, Stored(f)', NEW o \in scheduled'[f].rule,
                      o >= since'[f],
                      scheduled'[f].next = Never \/ o < scheduled'[f].next
               PROVE  due[f][o] > 0 /\ reminded[f][o] = 1
    BY <1>2 DEF NothingPassedOver, Never
  <2>1. CASE f # e
    BY <1>5, <1>6, <2>1 DEF NothingPassedOver, Stored
  <2>2. CASE f = e
    <3>1. o \in q.rule /\ o \in Nat
      BY <1>4, <1>5, <2>2 DEF Times
    <3>2. o > q.from - 1
      BY <1>3, <1>6, <2>2, <3>1
    <3>3. q.next # Never /\ q.next <= o
      BY <1>4, <3>1, <3>2
    <3>4. q.next \in Nat
      BY <1>4, <3>3 DEF Times
    <3> QED
      BY <1>5, <2>2, <3>1, <3>3, <3>4
  <2> QED
    BY <2>1, <2>2
<1> QED
  BY <1>7, <1>8, <1>9, <1>10, <1>11

LEMMA ScheduleDeletes ==
  ASSUME SchedulerIInv, NEW e \in Events, DeleteScheduledEvent(e)
  PROVE  SchedulerIInv'
<1> USE DEF SchedulerIInv
<1>1. /\ scheduled' = [scheduled EXCEPT ![e].state = "deleted"]
      /\ ~Locked(e)
      /\ UNCHANGED <<clock, saver, run, due, reminded, edits, since, crashes>>
  BY DEF DeleteScheduledEvent
<1>2. /\ \A f \in Events : f # e => scheduled'[f] = scheduled[f]
      /\ scheduled'[e].state = "deleted" /\ scheduled'[e].next = scheduled[e].next
      /\ scheduled'[e].rule = scheduled[e].rule
      /\ scheduled' \in [Events -> ScheduledEvent]
  <2> DEFINE gone == [scheduled[e] EXCEPT !.state = "deleted"]
  <2>1. scheduled[e] \in ScheduledEvent /\ scheduled' = [scheduled EXCEPT ![e] = gone]
    BY <1>1 DEF SchedulerTypeOK
  <2>2. /\ gone \in ScheduledEvent /\ gone.state = "deleted"
        /\ gone.next = scheduled[e].next /\ gone.rule = scheduled[e].rule
    BY <2>1 DEF ScheduledEvent
  <2> HIDE DEF gone
  <2> QED
    BY <2>1, <2>2 DEF SchedulerTypeOK
<1>3. SchedulerTypeOK'
  BY <1>1, <1>2 DEF SchedulerTypeOK
<1>4. RunsSound'
  BY <1>1, <1>2 DEF RunsSound, RunSound, Stored, Locked
<1>5. SaversSound'
  BY <1>1 DEF SaversSound
<1>6. Announced'
  BY <1>1, <1>2 DEF Announced, AheadOf
<1>7. NothingPassedOver'
  BY <1>1, <1>2 DEF NothingPassedOver, Stored
<1> QED
  BY <1>3, <1>4, <1>5, <1>6, <1>7

LEMMA ScheduleFires ==
  ASSUME SchedulerIInv, NEW w \in Workers, Fire(w)
  PROVE  SchedulerIInv'
<1> USE DEF SchedulerIInv
<1> DEFINE e == run[w].event
           o == run[w].at
           next == After(scheduled[e].rule, o)
<1>1. /\ run[w].pc = "claimed" /\ e \in Events /\ Stored(e)
      /\ o # Never /\ o = scheduled[e].next
  BY DEF RunsSound, RunSound, Fire
<1>2. /\ scheduled[e] \in ScheduledEvent /\ scheduled[e].rule \subseteq Times
      /\ o \in scheduled[e].rule
  BY <1>1 DEF SchedulerTypeOK, ScheduledEvent
<1>3. o \in Times /\ o \in Int
  BY <1>2 DEF Times
<1>4. /\ reminded' = [reminded EXCEPT ![e][o] = IF @ = 0 THEN 1 ELSE @]
      /\ due' = [due EXCEPT ![e][o] = @ + 1]
      /\ scheduled' = [scheduled EXCEPT ![e].next = next, ![e].enabled = next # Never]
      /\ run' = [run EXCEPT ![w] = Idle]
      /\ UNCHANGED <<clock, saver, edits, since, crashes>>
  BY DEF Fire, Remind
<1>5. /\ next \in Times \cup {Never}
      /\ next # Never => next \in scheduled[e].rule /\ next > o
      /\ \A p \in scheduled[e].rule : p > o => next # Never /\ next <= p
  BY <1>2, <1>3, FirstAfter
<1> HIDE DEF next
<1>6. /\ scheduled'[e].state = scheduled[e].state /\ scheduled'[e].rule = scheduled[e].rule
      /\ scheduled'[e].next = next
      /\ \A f \in Events : f # e => scheduled'[f] = scheduled[f]
      /\ scheduled' \in [Events -> ScheduledEvent]
  BY <1>1, <1>2, <1>4, <1>5 DEF SchedulerTypeOK, ScheduledEvent
<1>7. /\ run'[w].pc = "idle" /\ \A v \in Workers : v # w => run'[v] = run[v]
      /\ run' \in [Workers -> Run]
  BY <1>4, SchedulerAssumption DEF SchedulerTypeOK, Idle, Run, Never,
              SchedulerAssumption
<1>8. ASSUME NEW f \in Events, NEW p \in Times
      PROVE  /\ due[f][p] \in Nat /\ reminded[f][p] \in Nat /\ edits[f] \in Nat
             /\ due'[f][p] = IF f = e /\ p = o THEN due[f][p] + 1 ELSE due[f][p]
             /\ reminded'[f][p] = IF f = e /\ p = o /\ reminded[f][p] = 0
                                  THEN 1 ELSE reminded[f][p]
  BY <1>1, <1>3, <1>4 DEF SchedulerTypeOK
<1>9. /\ due' \in [Events -> [Times -> Nat]]
      /\ reminded' \in [Events -> [Times -> Nat]]
  BY <1>1, <1>3, <1>4 DEF SchedulerTypeOK
<1>10. SchedulerTypeOK'
  <2>1. \A f \in Events : scheduled'[f].next # Never
                            => scheduled'[f].next \in scheduled'[f].rule
    BY <1>5, <1>6 DEF SchedulerTypeOK
  <2> QED
    BY <1>4, <1>6, <1>7, <1>9, <2>1 DEF SchedulerTypeOK
<1>11. RunsSound'
  <2>1. \A v \in Workers : v # w /\ run[v].pc = "claimed" => run[v].event # e
    BY <1>1 DEF RunsSound
  <2> QED
    BY <1>6, <1>7, <2>1 DEF RunsSound, RunSound, Stored
<1>12. SaversSound'
  BY <1>4 DEF SaversSound
<1>13. Announced'
  <2> SUFFICES ASSUME NEW f \in Events, NEW p \in Times
               PROVE  /\ due'[f][p] <= 1 + edits[f] /\ reminded'[f][p] <= 1
                      /\ AheadOf(f, p)' => due'[f][p] <= edits[f]
                      /\ scheduled'[f].state = "absent" => due'[f][p] = 0
    BY <1>4 DEF Announced
  <2>1. /\ due[f][p] <= 1 + edits[f] /\ reminded[f][p] <= 1
        /\ AheadOf(f, p) => due[f][p] <= edits[f]
        /\ scheduled[f].state = "absent" => due[f][p] = 0
    BY DEF Announced
  <2>2. p \in Nat /\ o \in Nat /\ (next # Never => next \in Nat)
    BY <1>3, <1>5 DEF Times, Never
  <2>3. CASE f # e
    BY <1>6, <1>8, <2>1, <2>3 DEF AheadOf
  <2>4. CASE f = e /\ p = o
    <3>1. AheadOf(f, p) /\ ~AheadOf(f, p)' /\ scheduled'[f].state # "absent"
      BY <1>1, <1>5, <1>6, <2>2, <2>4 DEF AheadOf, Stored
    <3> QED
      BY <1>8, <2>1, <2>4, <3>1
  <2>5. CASE f = e /\ p # o
    <3>1. AheadOf(f, p)' => AheadOf(f, p)
      BY <1>1, <1>5, <1>6, <2>2, <2>5 DEF AheadOf
    <3> QED
      BY <1>6, <1>8, <2>1, <2>5, <3>1
  <2> QED
    BY <2>3, <2>4, <2>5
<1>14. NothingPassedOver'
  <2> SUFFICES ASSUME NEW f \in Events, Stored(f)', NEW p \in scheduled'[f].rule,
                      p >= since[f],
                      scheduled'[f].next = Never \/ p < scheduled'[f].next
               PROVE  due'[f][p] > 0 /\ reminded'[f][p] = 1
    BY <1>4 DEF NothingPassedOver, Never
  <2>1. p \in Times /\ p \in Nat /\ p \in scheduled[f].rule
        /\ Stored(f)
    <3>1. p \in scheduled[f].rule /\ Stored(f)
      BY <1>6 DEF Stored
    <3>2. p \in Times
      BY <3>1 DEF SchedulerTypeOK, ScheduledEvent
    <3> QED
      BY <3>1, <3>2 DEF Times
  <2>2. o \in Nat /\ (next # Never => next \in Nat)
    BY <1>3, <1>5 DEF Times, Never
  <2>3. CASE f = e /\ p > o
    BY <1>5, <1>6, <2>1, <2>2, <2>3
  <2>4. CASE f = e /\ p = o
    <3>1. reminded[f][p] <= 1 /\ reminded[f][p] \in Nat /\ due[f][p] \in Nat
      BY <1>8, <2>1 DEF Announced
    <3> QED
      BY <1>8, <2>1, <2>4, <3>1
  <2>5. CASE f # e \/ p < o
    <3>1. scheduled[f].next = Never \/ p < scheduled[f].next
      BY <1>1, <1>6, <2>5
    <3>2. due[f][p] > 0 /\ reminded[f][p] = 1
      BY <2>1, <3>1 DEF NothingPassedOver, Never
    <3>3. ~(f = e /\ p = o)
      BY <2>1, <2>2, <2>5
    <3> QED
      BY <1>8, <2>1, <3>2, <3>3
  <2> QED
    BY <2>1, <2>2, <2>3, <2>4, <2>5
<1> QED
  BY <1>10, <1>11, <1>12, <1>13, <1>14

LEMMA SchedulerNextKeeps == SchedulerIInv /\ [SchedulerNext]_schedulerVars => SchedulerIInv'
<1> SUFFICES ASSUME SchedulerIInv, [SchedulerNext]_schedulerVars PROVE SchedulerIInv'
  OBVIOUS
<1>1. CASE UNCHANGED schedulerVars
  BY <1>1
  DEF SchedulerIInv, schedulerVars, SchedulerTypeOK, RunsSound, RunSound, SaversSound,
      Announced, AheadOf, NothingPassedOver, Stored
<1> QED
  BY <1>1, ScheduleTicks, SchedulePrepares, ScheduleSaves, ScheduleDeletes, ScheduleRuns,
     ScheduleFires
  DEF SchedulerNext, RunDueScheduledEvent

LEMMA SchedulerInductive == SchedulerSpec => []SchedulerIInv
  BY SchedulerInitHolds, SchedulerNextKeeps, PTL DEF SchedulerSpec

\* No occurrence of a schedule is passed over, none is reminded of twice, and workers
\* announce each once for every edit.
THEOREM SchedulerSound ==
  SchedulerSpec => []SchedulerInv
<1>1. SchedulerIInv => SchedulerInv
  BY DEF SchedulerIInv, Announced, SchedulerInv, RemindedOnce,
         DueOncePerEdit
<1> QED
  BY <1>1, SchedulerInductive, PTL
=============================================================================
