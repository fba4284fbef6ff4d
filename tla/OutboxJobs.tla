------------------------------ MODULE OutboxJobs ------------------------------
(***************************************************************************)
(* The durable outbox of the Roomies backend: the rows of outbox_messages  *)
(* and durable_jobs, the leases on them, and the workers that dispatch     *)
(* them (repository/jobs.go, worker/worker.go, and the enqueueing half of  *)
(* repository/reliability.go).                                             *)
(*                                                                         *)
(* Every repository call is one database transaction and hence one action; *)
(* a worker is its program counter and the row snapshots it carries from   *)
(* one transaction to the next.  Instants are kept as the time left until  *)
(* them: `delay' is max(0, available_at - now) and `lease' is              *)
(* max(0, lease_expires_at - now), both counted down by Tick.              *)
(***************************************************************************)
EXTENDS Integers

CONSTANTS
  Messages,       \* outbox messages, each with the one job that dispatches it
  Workers,        \* worker processes
  Owners,         \* lease owner names
  OwnerOf,        \* name a worker leases under; two processes may share one
  Kind,           \* what each message announces, see Kinds
  WorkerCipher,   \* whether the worker can decrypt delivery payloads
  MaxAttempts,    \* max_attempts of the job rows
  LeaseDuration,  \* JOB_LEASE_SECONDS
  Delays,         \* extra waits a push may ask for: quiet hours, Retry-After
  MaxLapses,      \* bound: leases of one job that may run out unfinished
  NoMessage, NoOwner

(***************************************************************************)
(* "link": an invitation created with an encrypted acceptance link,        *)
(* "bare": one created while the server had no cipher, "notice": its       *)
(* acceptance or revocation, "push": a notification.delivery message.      *)
(***************************************************************************)
Kinds == {"link", "bare", "notice", "push"}
Invites == {m \in Messages : Kind[m] \in {"link", "bare"}}

ASSUME OutboxAssumption ==
  /\ NoMessage \notin Messages
  /\ NoOwner \notin Owners
  /\ OwnerOf \in [Workers -> Owners]
  /\ Kind \in [Messages -> Kinds]
  /\ WorkerCipher \in {"absent", "wrong_key", "matching"}
  /\ MaxAttempts \in Nat \ {0}
  /\ LeaseDuration \in Nat \ {0}
  /\ Delays \subseteq Nat /\ 0 \in Delays
  /\ MaxLapses \in Nat

VARIABLES
  job,          \* durable_jobs
  outbox,       \* outbox_messages
  worker,       \* what each worker process holds in memory
  deliverable,  \* invitations still pending and unexpired (see Invitations)
  accepted,     \* history: sends of a message its provider accepted
  disowned,     \* history: those of them its worker was told had failed
  lapsed        \* history: leases of a job that ran out before it was settled

vars == <<job, outbox, worker, deliverable, accepted, disowned, lapsed>>

JobRow == [state : {"absent", "live", "completed", "dead"}, delay : Nat,
           owner : Owners \cup {NoOwner}, lease : Nat, gen : Nat, attempts : Nat]
OutboxRow == [status : {"absent", "pending", "dispatched", "dead_lettered"},
              delivery : BOOLEAN]
WorkerState == [pc : {"idle", "leased", "checking", "sending", "pushing",
                      "completing", "closing", "failing"},
                m : Messages \cup {NoMessage}, gen : Nat, attempts : Nat,
                delivery : BOOLEAN]

IdleWorker == [pc |-> "idle", m |-> NoMessage, gen |-> 0, attempts |-> 0,
               delivery |-> FALSE]

TypeOK ==
  /\ job \in [Messages -> JobRow]
  /\ outbox \in [Messages -> OutboxRow]
  /\ worker \in [Workers -> WorkerState]
  /\ \A w \in Workers : worker[w].pc # "idle" => worker[w].m \in Messages
  /\ deliverable \subseteq Invites
  /\ accepted \in [Messages -> Nat]
  /\ disowned \in [Messages -> Nat]
  /\ lapsed \in [Messages -> Nat]

Init ==
  /\ job = [m \in Messages |-> [state |-> "absent", delay |-> 0, owner |-> NoOwner,
                                lease |-> 0, gen |-> 0, attempts |-> 0]]
  /\ outbox = [m \in Messages |-> [status |-> "absent", delivery |-> FALSE]]
  /\ worker = [w \in Workers |-> IdleWorker]
  /\ deliverable = Invites
  /\ accepted = [m \in Messages |-> 0]
  /\ disowned = [m \in Messages |-> 0]
  /\ lapsed = [m \in Messages |-> 0]

-----------------------------------------------------------------------------
(* The rows *)

BackoffSeconds == <<1, 2, 4, 8, 16, 32>>

jobBackoff(attempt) ==
  BackoffSeconds[IF attempt < 1 THEN 1 ELSE IF attempt > 6 THEN 6 ELSE attempt]

\* The job row and its message are inserted by one transaction; a push may be
\* planned for later.
Enqueue(m) ==
  /\ job[m].state = "absent"
  /\ \E d \in IF Kind[m] = "push" THEN Delays ELSE {0} :
       job' = [job EXCEPT ![m].state = "live", ![m].delay = d]
  /\ outbox' = [outbox EXCEPT ![m].status = "pending",
                              ![m].delivery = (Kind[m] = "link")]
  /\ UNCHANGED <<worker, deliverable, accepted, disowned, lapsed>>

\* Mutant of Withdraw: the link stays in the message.
WithdrawKeepingLink(m) ==
  /\ m \in deliverable
  /\ outbox[m].status # "absent"
  /\ deliverable' = deliverable \ {m}
  /\ UNCHANGED <<job, outbox, worker, accepted, disowned, lapsed>>

\* The invitation is revoked, accepted or found expired: the transaction that
\* records it also erases the encrypted link from the message.
Withdraw(m) ==
  /\ m \in deliverable
  /\ outbox[m].status # "absent"
  /\ deliverable' = deliverable \ {m}
  /\ outbox' = [outbox EXCEPT ![m].delivery = FALSE]
  /\ UNCHANGED <<job, worker, accepted, disowned, lapsed>>

\* Mutants of JobCandidates: leased jobs are chosen as well; jobs whose lease
\* ran out are not.
CandidatesLeasedToo == {m \in Messages : job[m].state = "live" /\ job[m].delay = 0}
CandidatesNeverLeased ==
  {m \in Messages : job[m].state = "live" /\ job[m].delay = 0 /\ job[m].owner = NoOwner}

\* The rows selectJobCandidateTx chooses from; its ORDER BY picks any of them.
JobCandidates ==
  {m \in Messages : job[m].state = "live" /\ job[m].delay = 0 /\ job[m].lease = 0}

AcquireNextJob(w) ==
  /\ worker[w].pc = "idle"
  /\ \E m \in JobCandidates :
       /\ job' = [job EXCEPT ![m].owner = OwnerOf[w], ![m].lease = LeaseDuration,
                             ![m].gen = @ + 1, ![m].attempts = @ + 1]
       /\ worker' = [worker EXCEPT ![w] =
            [pc |-> "leased", m |-> m, gen |-> job[m].gen + 1,
             attempts |-> job[m].attempts + 1, delivery |-> FALSE]]
  /\ UNCHANGED <<outbox, deliverable, accepted, disowned, lapsed>>

\* Mutant of HoldsLease: the generation is not compared.
HoldsLeaseByName(w) ==
  LET row == job[worker[w].m] IN
  row.owner = OwnerOf[w] /\ row.state = "live" /\ row.lease > 0

\* The WHERE clause of every settling UPDATE.
HoldsLease(w) ==
  LET row == job[worker[w].m] IN
  /\ row.owner = OwnerOf[w]
  /\ row.gen = worker[w].gen
  /\ row.state = "live"
  /\ row.lease > 0

\* CompleteOutboxJob, with the message ("completing") or, when the worker had
\* read a message already settled, without it ("closing").  Zero rows updated
\* roll the transaction back with ErrJobLeaseLost.
CompleteOutboxJob(w) ==
  LET m == worker[w].m IN
  /\ worker[w].pc \in {"completing", "closing"}
  /\ \/ /\ HoldsLease(w)
        /\ worker[w].pc = "completing" => outbox[m].status = "pending"
        /\ job' = [job EXCEPT ![m].state = "completed", ![m].owner = NoOwner,
                              ![m].lease = 0]
        /\ outbox' = IF worker[w].pc = "closing" THEN outbox
                     ELSE [outbox EXCEPT ![m] = [status |-> "dispatched",
                                                 delivery |-> FALSE]]
     \/ /\ ~(HoldsLease(w) /\ (worker[w].pc = "completing"
                                 => outbox[m].status = "pending"))
        /\ UNCHANGED <<job, outbox>>
  /\ worker' = [worker EXCEPT ![w] = IdleWorker]
  /\ UNCHANGED <<deliverable, accepted, disowned, lapsed>>

\* Mutant of LastAttempt: one attempt too early.
OneAttemptLeft(w) == worker[w].attempts + 1 >= MaxAttempts

\* The verdict uses the attempts of the snapshot the worker was given with its
\* lease.
LastAttempt(w) == worker[w].attempts >= MaxAttempts

\* FailOutboxJob and FailOutboxJobAt.
FailOutboxJob(w) ==
  LET m == worker[w].m
      backoff == jobBackoff(worker[w].attempts)
  IN
  /\ worker[w].pc = "failing"
  /\ \/ /\ HoldsLease(w) /\ outbox[m].status = "pending" /\ LastAttempt(w)
        /\ job' = [job EXCEPT ![m].state = "dead", ![m].owner = NoOwner,
                              ![m].lease = 0]
        /\ outbox' = [outbox EXCEPT ![m] = [status |-> "dead_lettered",
                                            delivery |-> FALSE]]
     \/ /\ HoldsLease(w) /\ outbox[m].status = "pending" /\ ~LastAttempt(w)
        /\ \E retryAt \in IF Kind[m] = "push" THEN Delays ELSE {0} :
             job' = [job EXCEPT ![m].owner = NoOwner, ![m].lease = 0,
                       ![m].delay = IF retryAt > backoff THEN retryAt ELSE backoff]
        /\ UNCHANGED outbox
     \/ /\ ~(HoldsLease(w) /\ outbox[m].status = "pending")
        /\ UNCHANGED <<job, outbox>>
  /\ worker' = [worker EXCEPT ![w] = IdleWorker]
  /\ UNCHANGED <<deliverable, accepted, disowned, lapsed>>

-----------------------------------------------------------------------------
(* One iteration of Worker.RunOnce *)

Goto(w, pc) == worker' = [worker EXCEPT ![w].pc = pc]

\* GetOutboxMessage and the routing on what it read.  The message is read
\* outside any transaction: it may be stale as soon as it is returned.
ReadMessage(w) ==
  LET m == worker[w].m IN
  /\ worker[w].pc = "leased"
  /\ worker' = [worker EXCEPT
       ![w].delivery = outbox[m].delivery,
       ![w].pc = IF outbox[m].status # "pending" THEN "closing"
                 ELSE IF Kind[m] = "push" THEN "pushing"
                 ELSE IF outbox[m].delivery
                         \/ (m \in Invites /\ WorkerCipher # "absent")
                      THEN "checking" ELSE "sending"]
  /\ UNCHANGED <<job, outbox, deliverable, accepted, disowned, lapsed>>

ReadMessageFails(w) ==
  /\ worker[w].pc = "leased"
  /\ Goto(w, "failing")
  /\ UNCHANGED <<job, outbox, deliverable, accepted, disowned, lapsed>>

\* InvitationDeliveryAvailable, then decryption of the link read before it.
\* An unavailable invitation settles its message without a send.
CheckDelivery(w) ==
  LET m == worker[w].m IN
  /\ worker[w].pc = "checking"
  /\ Goto(w, IF m \notin deliverable THEN "completing"
             ELSE IF worker[w].delivery /\ WorkerCipher = "matching"
                  THEN "sending" ELSE "failing")
  /\ UNCHANGED <<job, outbox, deliverable, accepted, disowned, lapsed>>

\* The same check when it is the one to find the invitation expired: it commits
\* the expiry and erases the link.
CheckFindsExpired(w) ==
  LET m == worker[w].m IN
  /\ worker[w].pc = "checking"
  /\ m \in deliverable
  /\ deliverable' = deliverable \ {m}
  /\ outbox' = [outbox EXCEPT ![m].delivery = FALSE]
  /\ Goto(w, "completing")
  /\ UNCHANGED <<job, accepted, disowned, lapsed>>

\* DispatchInvitation, or WithAuthorizedDispatch of a push, acknowledged by the
\* provider.
DispatchSucceeds(w) ==
  /\ worker[w].pc \in {"sending", "pushing"}
  /\ accepted' = [accepted EXCEPT ![worker[w].m] = @ + 1]
  /\ Goto(w, "completing")
  /\ UNCHANGED <<job, outbox, deliverable, disowned, lapsed>>

\* Mutant of DispatchFails: the error is dropped.
DispatchErrorIgnored(w) ==
  /\ worker[w].pc \in {"checking", "sending", "pushing"}
  /\ Goto(w, "completing")
  /\ UNCHANGED <<job, outbox, deliverable, accepted, disowned, lapsed>>

\* The check, the send or the transaction around a push fails or times out.  The
\* provider may have accepted the message by then: SMTP fails after DATA was
\* accepted (QUIT), a later target of a push or its commit fails after an earlier
\* target was pushed.
DispatchFails(w) ==
  LET m == worker[w].m IN
  /\ worker[w].pc \in {"checking", "sending", "pushing"}
  /\ \/ UNCHANGED <<accepted, disowned>>
     \/ /\ worker[w].pc # "checking"
        /\ accepted' = [accepted EXCEPT ![m] = @ + 1]
        /\ disowned' = [disowned EXCEPT ![m] = @ + 1]
  /\ Goto(w, "failing")
  /\ UNCHANGED <<job, outbox, deliverable, lapsed>>

\* A push nobody may receive any more is settled without a send.
NothingToPush(w) ==
  /\ worker[w].pc = "pushing"
  /\ Goto(w, "completing")
  /\ UNCHANGED <<job, outbox, deliverable, accepted, disowned, lapsed>>

\* The process is killed, or the transaction that settles the job does not
\* commit: the iteration is forgotten and its lease, if still held, runs out.
Abandon(w) ==
  /\ worker[w].pc # "idle"
  /\ HoldsLease(w) => lapsed[worker[w].m] < MaxLapses
  /\ worker' = [worker EXCEPT ![w] = IdleWorker]
  /\ UNCHANGED <<job, outbox, deliverable, accepted, disowned, lapsed>>

\* A second passes.
Countdown(n) == IF n > 0 THEN n - 1 ELSE 0

LapsingJobs == {m \in Messages : job[m].lease = 1}

Tick ==
  /\ \E m \in Messages : job[m].delay > 0 \/ job[m].lease > 0
  /\ \A m \in LapsingJobs : lapsed[m] < MaxLapses
  /\ job' = [m \in Messages |-> [job[m] EXCEPT !.delay = Countdown(@),
                                               !.lease = Countdown(@)]]
  /\ lapsed' = [m \in Messages |-> IF m \in LapsingJobs THEN lapsed[m] + 1
                                   ELSE lapsed[m]]
  /\ UNCHANGED <<outbox, worker, deliverable, accepted, disowned>>

RunOnce(w) ==
  \/ AcquireNextJob(w)
  \/ ReadMessage(w)
  \/ ReadMessageFails(w)
  \/ CheckDelivery(w)
  \/ CheckFindsExpired(w)
  \/ DispatchSucceeds(w)
  \/ DispatchFails(w)
  \/ NothingToPush(w)
  \/ CompleteOutboxJob(w)
  \/ FailOutboxJob(w)

Next ==
  \/ \E m \in Messages : Enqueue(m) \/ Withdraw(m)
  \/ \E w \in Workers : RunOnce(w) \/ Abandon(w)
  \/ Tick

Spec == Init /\ [][Next]_vars

\* Worker.Run polls for ever and time passes; nothing makes a client enqueue,
\* an invitation expire or a process crash.
FairSpec == Spec /\ WF_vars(Tick) /\ \A w \in Workers : WF_vars(RunOnce(w))

-----------------------------------------------------------------------------
(* Correctness *)

Settled(m) == job[m].state \in {"completed", "dead"}

\* A job row and its message row never disagree: the two are settled by one
\* transaction and with the same verdict (CompleteOutboxJob, failOutboxJob),
\* whatever stale workers try in between.
RowsAgree ==
  \A m \in Messages :
    outbox[m].status = CASE job[m].state = "absent"    -> "absent"
                         [] job[m].state = "live"      -> "pending"
                         [] job[m].state = "completed" -> "dispatched"
                         [] job[m].state = "dead"      -> "dead_lettered"

\* The encrypted acceptance link outlives neither its message nor its
\* invitation (clearInvitationDeliveryPayloadTx, clearOutboxDeliveryPayloadByIDTx).
LinkErased ==
  \A m \in Messages : Settled(m) \/ m \notin deliverable => ~outbox[m].delivery

\* At most one worker can settle a job: two processes never hold its lease
\* together, not even two that share an owner name.
OneLeaseHolder ==
  \A v, w \in Workers :
    /\ v # w
    /\ worker[v].pc # "idle" /\ worker[w].pc # "idle"
    /\ worker[v].m = worker[w].m
    => ~(HoldsLease(v) /\ HoldsLease(w))

\* At-least-once: an invitation message is recorded as dispatched only when the
\* provider acknowledged it or the invitation could no longer be accepted.
DispatchedMeansSent ==
  \A m \in Messages :
    outbox[m].status = "dispatched" /\ Kind[m] # "push"
      => accepted[m] > 0 \/ (m \in Invites /\ m \notin deliverable)

\* The holder of the lease has had its message accepted; the holder is gone and
\* its lease is still to run out.
InFlight(m) ==
  \E w \in Workers : /\ worker[w].pc = "completing" /\ worker[w].m = m
                     /\ HoldsLease(w)
Abandoned(m) ==
  /\ job[m].state = "live" /\ job[m].lease > 0
  /\ ~\E w \in Workers : worker[w].pc # "idle" /\ worker[w].m = m /\ HoldsLease(w)

\* The price of at-least-once is bounded.  Every send beyond the one recorded has a
\* cause: a lease that ran out, or a send taken for failed although its provider had
\* accepted it (smtp.go:166-169, repository/notifications.go:353-372).  And nobody
\* gets a message more than max_attempts times, plus once for every lease that ran
\* out (jobs.go:127): stale workers add nothing to that.
DuplicatesHaveCause ==
  \A m \in Messages :
    /\ accepted[m] <= lapsed[m] + disowned[m]
                        + (IF job[m].state = "completed" \/ InFlight(m)
                                \/ Abandoned(m) THEN 1 ELSE 0)
    /\ accepted[m] <= MaxAttempts + lapsed[m]

\* A job is given up only after max_attempts leases of it were taken.
DeadLetterAfterRetries ==
  \A m \in Messages : job[m].state = "dead" => job[m].attempts >= MaxAttempts

\* A job row that is settled stays as it is, and a live one is only settled or
\* released by the worker that holds its lease at that moment.
LeaseFences ==
  [][\A m \in Messages :
       /\ Settled(m) => job'[m] = job[m]
       /\ job[m].state = "live" /\ job'[m].owner = NoOwner /\ job[m].owner # NoOwner
            => \E w \in Workers : worker[w].pc # "idle" /\ worker[w].m = m
                                  /\ HoldsLease(w)]_vars

\* Every enqueued message is dispatched or dead-lettered in the end, however its
\* workers crashed or stalled on the way.
EventuallySettled ==
  \A m \in Messages : job[m].state = "live" ~> Settled(m)

\* The workers, leases and retries keep the promise of MessageDelivery.
Promise == INSTANCE MessageDelivery WITH
  Pushes    <- {m \in Messages : Kind[m] = "push"},
  status    <- [m \in Messages |-> outbox[m].status],
  reached   <- {m \in Messages : accepted[m] > 0},
  withdrawn <- Invites \ deliverable

\* Seen through that mapping, every step of the outbox is a step the promise
\* allows or none at all.
KeepsPromise == Promise!Spec

\* The two rows of a message tell one story, giving up takes every attempt, and the
\* link goes with the message or its invitation.
OutboxInv == TypeOK /\ RowsAgree /\ DeadLetterAfterRetries /\ LinkErased
=============================================================================
