------------------------------ MODULE Scheduler ------------------------------
(***************************************************************************)
(* Scheduled house events (repository/scheduler.go, saveScheduledEvent of  *)
(* repository/notifications.go and the recurrence rules they follow), on   *)
(* PostgreSQL.                                                             *)
(*                                                                         *)
(* RunDueScheduledEvent is one transaction that locks the row of an event, *)
(* skipping the rows others have locked, and fires its next occurrence.    *)
(* The lease it writes is gone when it commits, so the lock is what keeps  *)
(* workers apart.  A save works out the next occurrence first and writes   *)
(* it later, when it gets the row.                                         *)
(***************************************************************************)
EXTENDS Integers, FiniteSets

CONSTANTS
  Events, Workers,
  Savers,       \* requests that create or edit an event
  MaxTime,      \* bound on the clock, and the last occurrence of a rule
  MaxCrashes,   \* bound on runs that roll back
  NoEvent

ASSUME SchedulerAssumption ==
  MaxTime \in Nat \ {0} /\ MaxCrashes \in Nat /\ NoEvent \notin Events

VARIABLES
  clock,
  scheduled,  \* scheduled_house_events
  saver,      \* the request of each saver
  run,        \* the run of each worker
  due,        \* committed scheduled_event.due events of each occurrence
  reminded,   \* reminders EnqueueTx planned for each occurrence
  edits,      \* edits saved of each event
  since,      \* the time the last save of each event counted from
  crashes

schedulerVars == <<clock, scheduled, saver, run, due, reminded, edits, since, crashes>>

Times == 1..MaxTime
Never == 0        \* next_occurrence_at IS NULL
Rules == (SUBSET Times) \ {{}}

ScheduledEvent == [state : {"absent", "stored", "deleted"}, rule : SUBSET Times,
                   next : Times \cup {Never}, enabled : BOOLEAN]
Saver == [pc : {"new", "ready", "done"}, event : Events \cup {NoEvent},
          rule : SUBSET Times, enabled : BOOLEAN,
          next : Times \cup {Never}, from : 0..MaxTime]
Run == [pc : {"idle", "started", "claimed"}, now : 0..MaxTime,
        event : Events \cup {NoEvent}, at : Times \cup {Never}]

Fresh == [pc |-> "new", event |-> NoEvent, rule |-> {}, enabled |-> FALSE,
          next |-> Never, from |-> 0]
Idle == [pc |-> "idle", now |-> 0, event |-> NoEvent, at |-> Never]

SchedulerTypeOK ==
  /\ clock \in 0..MaxTime
  /\ scheduled \in [Events -> ScheduledEvent]
  /\ saver \in [Savers -> Saver]
  /\ run \in [Workers -> Run]
  /\ due \in [Events -> [Times -> Nat]] /\ reminded \in [Events -> [Times -> Nat]]
  /\ edits \in [Events -> Nat]
  /\ since \in [Events -> 0..MaxTime]
  /\ crashes \in 0..MaxCrashes
  /\ \A e \in Events : scheduled[e].next # Never => scheduled[e].next \in scheduled[e].rule

SchedulerInit ==
  /\ clock = 0
  /\ scheduled = [e \in Events |-> [state |-> "absent", rule |-> {}, next |-> Never,
                                    enabled |-> FALSE]]
  /\ saver = [s \in Savers |-> Fresh]
  /\ run = [w \in Workers |-> Idle]
  /\ due = [e \in Events |-> [t \in Times |-> 0]]
  /\ reminded = [e \in Events |-> [t \in Times |-> 0]]
  /\ edits = [e \in Events |-> 0]
  /\ since = [e \in Events |-> 0]
  /\ crashes = 0

Tick ==
  /\ clock < MaxTime
  /\ clock' = clock + 1
  /\ UNCHANGED <<scheduled, saver, run, due, reminded, edits, since, crashes>>

\* recurrence.Next: the first occurrence after t.
After(rule, t) ==
  LET later == {o \in rule : o > t} IN
  IF later = {} THEN Never ELSE CHOOSE o \in later : \A p \in later : o <= p

Stored(e) == scheduled[e].state = "stored"
Locked(e) == \E w \in Workers : run[w].pc = "claimed" /\ run[w].event = e

-----------------------------------------------------------------------------
(* Requests *)

\* The rule is validated and the first occurrence that is not past is worked out.
\* An event to edit has been found; one to create has an id of its own.
Prepare(s) ==
  /\ saver[s].pc = "new"
  /\ \E e \in Events, rule \in Rules, enabled \in BOOLEAN :
       /\ \/ scheduled[e].state = "stored"
          \/ scheduled[e].state = "absent" /\ \A r \in Savers : saver[r].event # e
       /\ saver' = [saver EXCEPT ![s] =
            [pc |-> "ready", event |-> e, rule |-> rule, enabled |-> enabled,
             next |-> After(rule, clock - 1), from |-> clock]]
  /\ UNCHANGED <<clock, scheduled, run, due, reminded, edits, since, crashes>>

\* saveScheduledEvent: the INSERT, or the UPDATE once the row is free.
Save(s) ==
  LET e == saver[s].event IN
  /\ saver[s].pc = "ready" /\ scheduled[e].state # "deleted" /\ ~Locked(e)
  /\ scheduled' = [scheduled EXCEPT ![e] = [state |-> "stored", rule |-> saver[s].rule,
                   next |-> saver[s].next, enabled |-> saver[s].enabled]]
  /\ saver' = [saver EXCEPT ![s] = [Fresh EXCEPT !.pc = "done"]]
  /\ edits' = [edits EXCEPT ![e] = IF Stored(e) THEN @ + 1 ELSE @]
  /\ since' = [since EXCEPT ![e] = saver[s].from]
  /\ UNCHANGED <<clock, run, due, reminded, crashes>>

\* The event is gone: 404.
SaveNothing(s) ==
  /\ saver[s].pc = "ready" /\ scheduled[saver[s].event].state = "deleted"
  /\ saver' = [saver EXCEPT ![s] = [Fresh EXCEPT !.pc = "done"]]
  /\ UNCHANGED <<clock, scheduled, run, due, reminded, edits, since, crashes>>

DeleteScheduledEvent(e) ==
  /\ Stored(e) /\ ~Locked(e)
  /\ scheduled' = [scheduled EXCEPT ![e].state = "deleted"]
  /\ UNCHANGED <<clock, saver, run, due, reminded, edits, since, crashes>>

-----------------------------------------------------------------------------
(* RunDueScheduledEvent *)

Start(w) ==
  /\ run[w].pc = "idle"
  /\ run' = [run EXCEPT ![w].pc = "started", ![w].now = clock]
  /\ UNCHANGED <<clock, scheduled, saver, due, reminded, edits, since, crashes>>

IsDue(e, now) == Stored(e) /\ scheduled[e].enabled /\ scheduled[e].next \in 1..now

\* Mutant of Claim: the lock of another worker is not looked at.
ClaimLocked(w) ==
  /\ run[w].pc = "started"
  /\ \E e \in Events :
       /\ IsDue(e, run[w].now)
       /\ run' = [run EXCEPT ![w].pc = "claimed", ![w].event = e,
                                ![w].at = scheduled[e].next]
  /\ UNCHANGED <<clock, scheduled, saver, due, reminded, edits, since, crashes>>

\* SELECT ... ORDER BY next_occurrence_at, id LIMIT 1 FOR UPDATE SKIP LOCKED
Claim(w) ==
  /\ run[w].pc = "started"
  /\ \E e \in Events :
       /\ IsDue(e, run[w].now) /\ ~Locked(e)
       /\ \A f \in Events : IsDue(f, run[w].now) /\ ~Locked(f)
                              => scheduled[e].next <= scheduled[f].next
       /\ run' = [run EXCEPT ![w].pc = "claimed", ![w].event = e,
                                ![w].at = scheduled[e].next]
  /\ UNCHANGED <<clock, scheduled, saver, due, reminded, edits, since, crashes>>

NothingDue(w) ==
  /\ run[w].pc = "started"
  /\ \A e \in Events : ~IsDue(e, run[w].now) \/ Locked(e)
  /\ run' = [run EXCEPT ![w] = Idle]
  /\ UNCHANGED <<clock, scheduled, saver, due, reminded, edits, since, crashes>>

\* EnqueueTx: the unique index on the deliveries of an occurrence.
Remind(e, o) ==
  reminded' = [reminded EXCEPT ![e][o] = IF @ = 0 THEN 1 ELSE @]

\* Mutant of Fire: occurrences that are overdue are passed over.
FireSkipping(w) ==
  LET e == run[w].event  o == run[w].at  next == After(scheduled[e].rule, run[w].now) IN
  /\ run[w].pc = "claimed"
  /\ Remind(e, o)
  /\ due' = [due EXCEPT ![e][o] = @ + 1]
  /\ scheduled' = [scheduled EXCEPT ![e].next = next, ![e].enabled = next # Never]
  /\ run' = [run EXCEPT ![w] = Idle]
  /\ UNCHANGED <<clock, saver, edits, since, crashes>>

\* Mutant of Fire: the occurrence stays the next one.
FireInPlace(w) ==
  LET e == run[w].event  o == run[w].at IN
  /\ run[w].pc = "claimed"
  /\ Remind(e, o)
  /\ due' = [due EXCEPT ![e][o] = IF @ = 0 THEN 1 ELSE @]
  /\ run' = [run EXCEPT ![w] = Idle]
  /\ UNCHANGED <<clock, scheduled, saver, edits, since, crashes>>

\* The reminder, the house event and the advance to the occurrence after this one;
\* an event without one is disabled.
Fire(w) ==
  LET e == run[w].event  o == run[w].at  next == After(scheduled[e].rule, o) IN
  /\ run[w].pc = "claimed"
  /\ Remind(e, o)
  /\ due' = [due EXCEPT ![e][o] = @ + 1]
  /\ scheduled' = [scheduled EXCEPT ![e].next = next, ![e].enabled = next # Never]
  /\ run' = [run EXCEPT ![w] = Idle]
  /\ UNCHANGED <<clock, saver, edits, since, crashes>>

Crash(w) ==
  /\ run[w].pc # "idle" /\ crashes < MaxCrashes
  /\ crashes' = crashes + 1
  /\ run' = [run EXCEPT ![w] = Idle]
  /\ UNCHANGED <<clock, scheduled, saver, due, reminded, edits, since>>

RunDueScheduledEvent(w) == Start(w) \/ Claim(w) \/ NothingDue(w) \/ Fire(w)

SchedulerNext ==
  \/ Tick
  \/ \E s \in Savers : Prepare(s) \/ Save(s) \/ SaveNothing(s)
  \/ \E e \in Events : DeleteScheduledEvent(e)
  \/ \E w \in Workers : RunDueScheduledEvent(w) \/ Crash(w)

SchedulerSpec == SchedulerInit /\ [][SchedulerNext]_schedulerVars

\* Time passes and the workers poll.
FairSchedulerSpec ==
  /\ SchedulerSpec
  /\ WF_schedulerVars(Tick)
  /\ \A w \in Workers : WF_schedulerVars(RunDueScheduledEvent(w))

-----------------------------------------------------------------------------
(* Correctness *)

\* Nobody is reminded of an occurrence twice, not even when an edit that was worked
\* out before it fired is saved after that and takes the schedule back.
RemindedOnce == \A e \in Events, o \in Times : reminded[e][o] <= 1

\* "claims at most one occurrence": workers do not announce an occurrence twice; an
\* edit can have it announced once more.
DueOncePerEdit == \A e \in Events, o \in Times : due[e][o] <= 1 + edits[e]

\* No occurrence is passed over: those of the rule from its last save on and before
\* the next one have been announced, and their reminders planned.
NothingPassedOver ==
  \A e \in Events : Stored(e) =>
    \A o \in scheduled[e].rule :
      /\ o >= since[e]
      /\ scheduled[e].next = Never \/ o < scheduled[e].next
      => due[e][o] > 0 /\ reminded[e][o] = 1

\* The schedule moves on past every occurrence, whatever worker crashes and however
\* far behind the workers are (and it passes over none).
EventuallyDue ==
  \A e \in Events, o \in Times :
    Stored(e) /\ scheduled[e].enabled /\ scheduled[e].next = o
      ~> ~(Stored(e) /\ scheduled[e].enabled /\ scheduled[e].next = o)

\* No occurrence is passed over, reminded of twice, or announced more often than edits
\* explain.
SchedulerInv == SchedulerTypeOK /\ NothingPassedOver /\ RemindedOnce /\ DueOncePerEdit
=============================================================================
