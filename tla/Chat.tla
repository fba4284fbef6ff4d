-------------------------------- MODULE Chat --------------------------------
(***************************************************************************)
(* Chat messages and the retention of their bodies (CreateChat, EditChat,  *)
(* DeleteChat and RunChatRetention of repository/household.go), on         *)
(* PostgreSQL.                                                             *)
(*                                                                         *)
(* Requests on a message are one statement that counts, and one step.  A   *)
(* run of the retention is a transaction of many statements: it holds the  *)
(* row of its job from the claim on and each message it has redacted,      *)
(* while the rest can still change under it.  Claiming and giving up the   *)
(* lease of the job happen in that one transaction, so that nobody ever    *)
(* sees the lease taken: the lock on its row is what excludes others.      *)
(*                                                                         *)
(* Time is counted in days and kept relative to the present: the age of a  *)
(* message, the days until the job is due, and how old the present of a    *)
(* run, which it reads once, has become.                                   *)
(***************************************************************************)
EXTENDS Integers, FiniteSets

CONSTANTS
  Messages,
  Workers,
  Year,         \* age at which a body is redacted
  Day,          \* pause of the retention once it has caught up
  Batch,        \* messages one run may redact
  MaxLag,       \* bound on the days a run lasts
  MaxCrashes,   \* bound on runs that roll back
  NoWorker

ASSUME ChatAssumption ==
  /\ IsFiniteSet(Messages)
  /\ Year \in Nat \ {0} /\ Day \in Nat \ {0} /\ Batch \in Nat \ {0}
  /\ MaxLag \in Nat /\ MaxCrashes \in Nat
  /\ NoWorker \notin Workers

VARIABLES
  message,     \* chat_messages
  age,         \* days since created_at, counted up to Year + MaxLag
  due,         \* days until available_at; negative when it has passed
  lock,        \* the worker that holds the row of the job
  run,         \* the run of each worker
  announced,   \* committed chat.redacted events of each message
  crashes

chatVars == <<message, age, due, lock, run, announced, crashes>>

Message == [state : {"absent", "stored"}, body : {"none", "first", "edited"},
            deleted : BOOLEAN, redacted : BOOLEAN]
\* `todo' are the targets still to redact, `done' those redacted; `full' says that
\* there was a whole batch of targets.
Run == [pc : {"idle", "started", "claimed"}, lag : 0..MaxLag,
        todo : SUBSET Messages, done : SUBSET Messages, found : SUBSET Messages,
        full : BOOLEAN]
IdleRun == [pc |-> "idle", lag |-> 0, todo |-> {}, done |-> {}, found |-> {},
            full |-> FALSE]

ChatTypeOK ==
  /\ message \in [Messages -> Message]
  /\ age \in [Messages -> 0..(Year + MaxLag)]
  /\ due \in (-MaxLag)..Day
  /\ lock \in Workers \cup {NoWorker}
  /\ run \in [Workers -> Run]
  /\ announced \in [Messages -> Nat]
  /\ crashes \in 0..MaxCrashes
  /\ \A w \in Workers : lock = w => run[w].pc = "claimed"

ChatInit ==
  /\ message = [m \in Messages |-> [state |-> "absent", body |-> "none",
                                    deleted |-> FALSE, redacted |-> FALSE]]
  /\ age = [m \in Messages |-> 0]
  /\ due = -MaxLag
  /\ lock = NoWorker
  /\ run = [w \in Workers |-> IdleRun]
  /\ announced = [m \in Messages |-> 0]
  /\ crashes = 0

Least(a, b) == IF a <= b THEN a ELSE b

Tick ==
  /\ \A w \in Workers : run[w].pc # "idle" => run[w].lag < MaxLag
  /\ age' = [m \in Messages |-> IF message[m].state = "absent" THEN 0
                                ELSE Least(age[m] + 1, Year + MaxLag)]
  /\ due' = IF due = -MaxLag THEN due ELSE due - 1
  /\ run' = [w \in Workers |-> IF run[w].pc = "idle" THEN run[w]
                               ELSE [run[w] EXCEPT !.lag = @ + 1]]
  /\ UNCHANGED <<message, lock, announced, crashes>>

-----------------------------------------------------------------------------
(* Requests.  They wait for a run that has redacted their message. *)

Held(m) == \E w \in Workers : m \in run[w].done
Gone(m) == message[m].state = "stored" /\ message[m].body = "none"

CreateChat(m) ==
  /\ message[m].state = "absent"
  /\ message' = [message EXCEPT ![m].state = "stored", ![m].body = "first"]
  /\ UNCHANGED <<age, due, lock, run, announced, crashes>>

\* Mutant of EditChat: an edit brings a deleted message back.
EditDeleted(m) ==
  /\ message[m].state = "stored" /\ ~Held(m)
  /\ ~message[m].redacted
  /\ message' = [message EXCEPT ![m].body = "edited", ![m].deleted = FALSE]
  /\ UNCHANGED <<age, due, lock, run, announced, crashes>>

\* By its author; anyone else, or a message deleted or redacted, is a 404.
EditChat(m) ==
  /\ message[m].state = "stored" /\ ~Held(m)
  /\ ~message[m].deleted /\ ~message[m].redacted
  /\ message' = [message EXCEPT ![m].body = "edited"]
  /\ UNCHANGED <<age, due, lock, run, announced, crashes>>

\* By its author, also when it is redacted.
DeleteChat(m) ==
  /\ message[m].state = "stored" /\ ~Held(m)
  /\ ~message[m].deleted
  /\ message' = [message EXCEPT ![m].deleted = TRUE, ![m].body = "none"]
  /\ UNCHANGED <<age, due, lock, run, announced, crashes>>

-----------------------------------------------------------------------------
(* RunChatRetention *)

\* now := r.clock.Now()
Start(w) ==
  /\ run[w].pc = "idle"
  /\ run' = [run EXCEPT ![w].pc = "started"]
  /\ UNCHANGED <<message, age, due, lock, announced, crashes>>

\* Mutant of Eligible: edited messages are left out.
EligibleUnedited(lag) ==
  {m \in Messages : message[m].state = "stored" /\ message[m].body = "first" /\ age[m] - lag >= Year}

\* body IS NOT NULL AND created_at <= now.AddDate(-1, 0, 0)
Eligible(lag) ==
  {m \in Messages : message[m].state = "stored" /\ message[m].body # "none" /\ age[m] - lag >= Year}

\* ORDER BY created_at, id LIMIT batch
Oldest(S) ==
  {T \in SUBSET S : /\ Cardinality(T) = Least(Batch, Cardinality(S))
                    /\ \A m \in T, n \in S \ T : age[m] >= age[n]}

\* Mutant of Claim: neither the lock of the job nor its pause is looked at.
ClaimBeside(w) ==
  /\ run[w].pc = "started"
  /\ \E T \in Oldest(Eligible(run[w].lag)) :
       run' = [run EXCEPT ![w].pc = "claimed", ![w].todo = T, ![w].found = T,
                          ![w].full = Cardinality(T) = Batch]
  /\ lock' = w
  /\ UNCHANGED <<message, age, due, announced, crashes>>

\* The claim waits for the lock and looks at available_at once it has it; the next
\* statement selects the targets.
Claim(w) ==
  /\ run[w].pc = "started" /\ lock = NoWorker
  /\ due <= -run[w].lag
  /\ \E T \in Oldest(Eligible(run[w].lag)) :
       run' = [run EXCEPT ![w].pc = "claimed", ![w].todo = T, ![w].found = T,
                          ![w].full = Cardinality(T) = Batch]
  /\ lock' = w
  /\ UNCHANGED <<message, age, due, announced, crashes>>

NotDue(w) ==
  /\ run[w].pc = "started" /\ lock = NoWorker
  /\ due > -run[w].lag
  /\ run' = [run EXCEPT ![w] = IdleRun]
  /\ UNCHANGED <<message, age, due, lock, announced, crashes>>

\* One target: nothing is updated when its body is gone by now, but the event is
\* recorded all the same.
Redact(w) ==
  \E m \in run[w].todo :
    /\ ~Held(m)
    /\ run' = [run EXCEPT ![w].todo = @ \ {m},
                          ![w].done = IF Gone(m) THEN @ ELSE @ \cup {m}]
    /\ UNCHANGED <<message, age, due, lock, announced, crashes>>

\* The commit: the job is due at once after a full batch, or in a day.
Finish(w) ==
  /\ run[w].pc = "claimed" /\ run[w].todo = {}
  /\ message' = [m \in Messages |-> IF m \in run[w].done
                   THEN [message[m] EXCEPT !.body = "none", !.redacted = TRUE]
                   ELSE message[m]]
  /\ announced' = [m \in Messages |-> announced[m] + IF m \in run[w].found THEN 1 ELSE 0]
  /\ due' = IF run[w].full THEN -run[w].lag ELSE Day - run[w].lag
  /\ lock' = NoWorker
  /\ run' = [run EXCEPT ![w] = IdleRun]
  /\ UNCHANGED <<age, crashes>>

\* A statement fails or the worker dies: the transaction is rolled back.
Crash(w) ==
  /\ run[w].pc # "idle" /\ crashes < MaxCrashes
  /\ crashes' = crashes + 1
  /\ lock' = IF lock = w THEN NoWorker ELSE lock
  /\ run' = [run EXCEPT ![w] = IdleRun]
  /\ UNCHANGED <<message, age, due, announced>>

Retention(w) == Start(w) \/ Claim(w) \/ NotDue(w) \/ Redact(w) \/ Finish(w)

ChatNext ==
  \/ Tick
  \/ \E m \in Messages : CreateChat(m) \/ EditChat(m) \/ DeleteChat(m)
  \/ \E w \in Workers : Retention(w) \/ Crash(w)

ChatSpec == ChatInit /\ [][ChatNext]_chatVars

\* Worker.Run polls for ever and time passes.
FairChatSpec ==
  /\ ChatSpec
  /\ WF_chatVars(Tick)
  /\ \A w \in Workers : WF_chatVars(Retention(w))

-----------------------------------------------------------------------------
(* Correctness *)

\* A message has lost its body exactly when it carries a tombstone of one kind.
BodyGoneMeansTombstone ==
  \A m \in Messages : Gone(m) <=> message[m].deleted \/ message[m].redacted

\* Once gone a body never comes back, by no edit in flight while it goes.
BodyNeverReturns ==
  [][\A m \in Messages : Gone(m) => message'[m].body = "none"]_chatVars

\* Retention takes no body younger than a year.
RedactedAreOld == \A m \in Messages : message[m].redacted => age[m] >= Year

\* The house is told of each redaction, once, however many workers run; and never
\* of a message that still has its body.
RedactionsAreAnnounced ==
  \A m \in Messages :
    /\ announced[m] <= 1
    /\ message[m].redacted => announced[m] = 1
    /\ announced[m] = 1 => Gone(m)

\* No body outlives its year for ever ("expected redacted metadata tombstone").
EventuallyForgotten ==
  \A m \in Messages : message[m].state = "stored" ~> Gone(m)

\* Bodies, tombstones and events tell the same story of each message.
ChatInv ==
  ChatTypeOK /\ BodyGoneMeansTombstone /\ RedactedAreOld /\ RedactionsAreAnnounced
=============================================================================
