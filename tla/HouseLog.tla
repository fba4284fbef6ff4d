------------------------------ MODULE HouseLog ------------------------------
(***************************************************************************)
(* What the event log of a house promises to those who keep a stream open: *)
(* its events come in the order of the log, only to members, and no        *)
(* durable one is left out; once it is in the log it comes, while its      *)
(* reader remains a member.  Cursors, locks, pages, transactions and       *)
(* connections do not appear.  HouseEvents implements this specification   *)
(* for its streams.                                                        *)
(***************************************************************************)
EXTENDS Naturals

CONSTANTS
  Users,
  Events,
  Durable,   \* the events no reader may miss
  Readers,
  Who        \* the user of each reader

VARIABLES
  member,    \* users who may read
  place,     \* the place of each event in the log, 0 while it is not there
  got        \* events each reader has received

vars == <<member, place, got>>

Logged(e) == place[e] # 0

Init ==
  /\ member = Users
  /\ place = [e \in Events |-> 0]
  /\ got = [c \in Readers |-> {}]

Admit ==
  /\ member' \in SUBSET Users
  /\ UNCHANGED <<place, got>>

\* Where an event appears is up to the log, but a durable one never behind a reader.
Append(e) ==
  /\ ~Logged(e) /\ Logged(e)'
  /\ place' \in [Events -> Nat]
  /\ \A f \in Events \ {e} : place'[f] = place[f] /\ place'[f] # place'[e]
  /\ e \in Durable => \A c \in Readers : \A f \in got[c] : place[f] < place'[e]
  /\ UNCHANGED <<member, got>>

Deliver(c, e) ==
  /\ Logged(e) /\ Who[c] \in member
  /\ \A f \in got[c] : place[f] < place[e]
  /\ \A f \in Durable : Logged(f) /\ place[f] < place[e] => f \in got[c]
  /\ got' = [got EXCEPT ![c] = @ \cup {e}]
  /\ UNCHANGED <<member, place>>

Next ==
  \/ Admit
  \/ \E e \in Events : Append(e) \/ \E c \in Readers : Deliver(c, e)

Spec == Init /\ [][Next]_vars

\* Durable events come in the end.
Served ==
  \A c \in Readers, e \in Durable : Logged(e) ~> e \in got[c] \/ Who[c] \notin member
=============================================================================
