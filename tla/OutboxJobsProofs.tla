--------------------------- MODULE OutboxJobsProofs ---------------------------
(* What holds of the outbox for every number of messages and workers, every  *)
(* lease duration and every number of crashes and lapsed leases.             *)
EXTENDS OutboxJobs, Notifications, FiniteSetTheorems, TLAPS

\* A worker at work on message m.
Works(w, m) == worker[w].pc # "idle" /\ worker[w].m = m

\* What a worker carries was handed out with an earlier or the current lease,
\* and no two workers were handed the same generation.
Snapshots ==
  /\ \A w \in Workers : worker[w].pc # "idle" =>
       /\ job[worker[w].m].state # "absent"
       /\ worker[w].gen <= job[worker[w].m].gen
       /\ worker[w].attempts <= job[worker[w].m].attempts
  /\ \A v, w \in Workers :
       /\ v # w
       /\ worker[v].pc # "idle" /\ worker[w].pc # "idle"
       /\ worker[v].m = worker[w].m
       => worker[v].gen # worker[w].gen

\* What each stage of an iteration has established about its message.
Stages ==
  \A w \in Workers :
    /\ worker[w].pc = "closing" => Settled(worker[w].m)
    /\ worker[w].pc = "checking" => worker[w].m \in Invites
    /\ worker[w].pc = "pushing" => Kind[worker[w].m] = "push"
    /\ worker[w].pc = "completing" /\ Kind[worker[w].m] # "push"
         => \/ accepted[worker[w].m] > 0
            \/ worker[w].m \in Invites /\ worker[w].m \notin deliverable

\* Only a link message ever carries a link; nothing is sent before it exists.
Contents ==
  \A m \in Messages :
    /\ outbox[m].delivery => Kind[m] = "link"
    /\ job[m].state = "absent" => /\ accepted[m] = 0
                                  /\ m \in Invites => m \in deliverable

Rows == RowsAgree /\ LinkErased /\ DispatchedMeansSent /\ DeadLetterAfterRetries
        /\ Contents

IInv == TypeOK /\ Rows /\ Snapshots /\ Stages

-----------------------------------------------------------------------------
LEMMA BackoffIsNat == \A a \in Nat : jobBackoff(a) \in Nat
<1> SUFFICES ASSUME NEW a \in Nat PROVE jobBackoff(a) \in Nat
  OBVIOUS
<1>1. \A i \in 1..6 : BackoffSeconds[i] \in Nat
  BY DEF BackoffSeconds
<1>2. (IF a < 1 THEN 1 ELSE IF a > 6 THEN 6 ELSE a) \in 1..6
  OBVIOUS
<1> QED
  BY <1>1, <1>2 DEF jobBackoff

\* Moving a worker to another stage, or back to idle, keeps its type.
LEMMA GotoTyped ==
  ASSUME TypeOK, NEW w \in Workers, worker[w].pc # "idle",
         NEW s \in {"leased", "checking", "sending", "pushing",
                    "completing", "closing", "failing"},
         Goto(w, s)
  PROVE  /\ worker' \in [Workers -> WorkerState]
         /\ \A v \in Workers : worker'[v].pc # "idle" => worker'[v].m \in Messages
BY DEF Goto, TypeOK, WorkerState

LEMMA RetireTyped ==
  ASSUME TypeOK, NEW w \in Workers, worker' = [worker EXCEPT ![w] = IdleWorker]
  PROVE  /\ worker' \in [Workers -> WorkerState]
         /\ \A v \in Workers : worker'[v].pc # "idle" => worker'[v].m \in Messages
BY DEF TypeOK, WorkerState, IdleWorker

\* Every variable keeps its type (the row and snapshot records of jobs.go).
THEOREM TypeCorrect == Spec => []TypeOK
<1>1. Init => TypeOK
  BY OutboxAssumption DEF OutboxAssumption, Init, TypeOK, JobRow, OutboxRow,
     WorkerState, IdleWorker, Invites
<1>2. TypeOK /\ [Next]_vars => TypeOK'
  <2> SUFFICES ASSUME TypeOK, [Next]_vars PROVE TypeOK'
    OBVIOUS
  <2>1. ASSUME NEW m \in Messages, Enqueue(m) PROVE TypeOK'
    <3>1. PICK d \in Nat : job' = [job EXCEPT ![m].state = "live", ![m].delay = d]
      BY <2>1, OutboxAssumption DEF OutboxAssumption, Enqueue
    <3>2. job' \in [Messages -> JobRow]
      BY <3>1 DEF TypeOK, JobRow
    <3>3. outbox' \in [Messages -> OutboxRow]
      <4>1. PICK b \in BOOLEAN :
              outbox' = [outbox EXCEPT ![m].status = "pending", ![m].delivery = b]
        BY <2>1 DEF Enqueue
      <4> QED
        BY <4>1 DEF TypeOK, OutboxRow
    <3> QED
      BY <2>1, <3>2, <3>3 DEF Enqueue, TypeOK
  <2>2. ASSUME NEW m \in Messages, Withdraw(m) PROVE TypeOK'
    <3>1. outbox' \in [Messages -> OutboxRow]
      BY <2>2 DEF Withdraw, TypeOK, OutboxRow
    <3> QED
      BY <2>2, <3>1 DEF Withdraw, TypeOK
  <2>3. ASSUME NEW w \in Workers, AcquireNextJob(w) PROVE TypeOK'
    <3>1. PICK m \in JobCandidates :
            /\ job' = [job EXCEPT ![m].owner = OwnerOf[w], ![m].lease = LeaseDuration,
                                  ![m].gen = @ + 1, ![m].attempts = @ + 1]
            /\ worker' = [worker EXCEPT ![w] =
                 [pc |-> "leased", m |-> m, gen |-> job[m].gen + 1,
                  attempts |-> job[m].attempts + 1, delivery |-> FALSE]]
      BY <2>3 DEF AcquireNextJob
    <3>2. m \in Messages
      BY DEF JobCandidates
    <3>3. job' \in [Messages -> JobRow]
      BY <3>1, <3>2, OutboxAssumption DEF OutboxAssumption, TypeOK, JobRow
    <3>4. worker' \in [Workers -> WorkerState]
      BY <3>1, <3>2 DEF TypeOK, JobRow, WorkerState
    <3>5. \A v \in Workers : worker'[v].pc # "idle" => worker'[v].m \in Messages
      BY <3>1, <3>2 DEF TypeOK
    <3> QED
      BY <2>3, <3>3, <3>4, <3>5 DEF AcquireNextJob, TypeOK
  <2>4. ASSUME NEW w \in Workers, ReadMessage(w) PROVE TypeOK'
    <3>1. worker[w].m \in Messages
      BY <2>4 DEF ReadMessage, TypeOK
    <3> QED
      BY <2>4, <3>1 DEF ReadMessage, TypeOK, OutboxRow, WorkerState
  <2>5. ASSUME NEW w \in Workers, ReadMessageFails(w) PROVE TypeOK'
    BY <2>5, GotoTyped DEF ReadMessageFails, TypeOK
  <2>6. ASSUME NEW w \in Workers, CheckDelivery(w) PROVE TypeOK'
    BY <2>6, GotoTyped DEF CheckDelivery, TypeOK
  <2>7. ASSUME NEW w \in Workers, CheckFindsExpired(w) PROVE TypeOK'
    <3>1. worker[w].m \in Messages
      BY <2>7 DEF CheckFindsExpired, TypeOK
    <3>2. outbox' \in [Messages -> OutboxRow]
      BY <2>7, <3>1 DEF CheckFindsExpired, TypeOK, OutboxRow
    <3> QED
      BY <2>7, <3>1, <3>2, GotoTyped DEF CheckFindsExpired, TypeOK
  <2>8. ASSUME NEW w \in Workers, DispatchSucceeds(w) PROVE TypeOK'
    <3>1. worker[w].m \in Messages
      BY <2>8 DEF DispatchSucceeds, TypeOK
    <3>2. accepted' \in [Messages -> Nat]
      BY <2>8, <3>1 DEF DispatchSucceeds, TypeOK
    <3> QED
      BY <2>8, <3>1, <3>2, GotoTyped DEF DispatchSucceeds, TypeOK
  <2>9. ASSUME NEW w \in Workers, DispatchFails(w) PROVE TypeOK'
    <3>1. worker[w].m \in Messages
      BY <2>9 DEF DispatchFails, TypeOK
    <3>2. accepted' \in [Messages -> Nat] /\ disowned' \in [Messages -> Nat]
      BY <2>9, <3>1 DEF DispatchFails, TypeOK
    <3> QED
      BY <2>9, <3>1, <3>2, GotoTyped DEF DispatchFails, TypeOK
  <2>10. ASSUME NEW w \in Workers, NothingToPush(w) PROVE TypeOK'
    BY <2>10, GotoTyped DEF NothingToPush, TypeOK
  <2>11. ASSUME NEW w \in Workers, CompleteOutboxJob(w) PROVE TypeOK'
    <3>1. worker[w].m \in Messages
      BY <2>11 DEF CompleteOutboxJob, TypeOK
    <3>2. job' \in [Messages -> JobRow]
      BY <2>11, <3>1 DEF CompleteOutboxJob, TypeOK, JobRow
    <3>3. outbox' \in [Messages -> OutboxRow]
      <4>1. [status |-> "dispatched", delivery |-> FALSE] \in OutboxRow
        BY DEF OutboxRow
      <4> QED
        BY <2>11, <3>1, <4>1 DEF CompleteOutboxJob, TypeOK
    <3> QED
      BY <2>11, <3>2, <3>3, RetireTyped DEF CompleteOutboxJob, TypeOK
  <2>12. ASSUME NEW w \in Workers, FailOutboxJob(w) PROVE TypeOK'
    <3>1. worker[w].m \in Messages
      BY <2>12 DEF FailOutboxJob, TypeOK
    <3>2. jobBackoff(worker[w].attempts) \in Nat
      BY BackoffIsNat DEF TypeOK, WorkerState
    <3>3. job' \in [Messages -> JobRow]
      <4>1. \A retryAt \in IF Kind[worker[w].m] = "push" THEN Delays ELSE {0} :
              retryAt \in Nat
        BY OutboxAssumption DEF OutboxAssumption
      <4>2. ASSUME NEW m \in Messages, NEW d \in Nat,
                   job' = [job EXCEPT ![m].owner = NoOwner, ![m].lease = 0, ![m].delay = d]
            PROVE  job' \in [Messages -> JobRow]
        <5>1. \A r \in JobRow :
                [[[r EXCEPT !.owner = NoOwner] EXCEPT !.lease = 0] EXCEPT !.delay = d]
                  \in JobRow
          BY DEF JobRow
        <5> QED
          BY <4>2, <5>1 DEF TypeOK
      <4>3. ASSUME NEW m \in Messages,
                   job' = [job EXCEPT ![m].state = "dead", ![m].owner = NoOwner,
                                      ![m].lease = 0]
            PROVE  job' \in [Messages -> JobRow]
        <5>1. \A r \in JobRow :
                [[[r EXCEPT !.state = "dead"] EXCEPT !.owner = NoOwner] EXCEPT !.lease = 0]
                  \in JobRow
          BY DEF JobRow
        <5> QED
          BY <4>3, <5>1 DEF TypeOK
      <4>4. CASE UNCHANGED job
        BY <4>4 DEF TypeOK
      <4> QED
        BY <2>12, <3>1, <3>2, <4>1, <4>2, <4>3, <4>4 DEF FailOutboxJob
    <3>4. outbox' \in [Messages -> OutboxRow]
      <4>1. [status |-> "dead_lettered", delivery |-> FALSE] \in OutboxRow
        BY DEF OutboxRow
      <4> QED
        BY <2>12, <3>1, <4>1 DEF FailOutboxJob, TypeOK
    <3> QED
      BY <2>12, <3>3, <3>4, RetireTyped DEF FailOutboxJob, TypeOK
  <2>13. ASSUME NEW w \in Workers, Abandon(w) PROVE TypeOK'
    BY <2>13, RetireTyped DEF Abandon, TypeOK
  <2>14. CASE Tick
    <3>1. \A n \in Nat : Countdown(n) \in Nat
      BY DEF Countdown
    <3>2. job' \in [Messages -> JobRow]
      <4>1. \A m \in Messages :
              [job[m] EXCEPT !.delay = Countdown(@), !.lease = Countdown(@)] \in JobRow
        BY <3>1 DEF TypeOK, JobRow
      <4> QED
        BY <2>14, <4>1 DEF Tick
    <3>3. lapsed' \in [Messages -> Nat]
      <4>1. \A m \in Messages : lapsed[m] + 1 \in Nat /\ lapsed[m] \in Nat
        BY DEF TypeOK
      <4> QED
        BY <2>14, <4>1 DEF Tick
    <3> QED
      BY <2>14, <3>2, <3>3 DEF Tick, TypeOK
  <2>15. CASE UNCHANGED vars
    BY <2>15 DEF vars, TypeOK
  <2> QED
    BY <2>1, <2>2, <2>3, <2>4, <2>5, <2>6, <2>7, <2>8, <2>9, <2>10, <2>11,
       <2>12, <2>13, <2>14, <2>15 DEF Next, RunOnce
<1> QED
  BY <1>1, <1>2, PTL DEF Spec

-----------------------------------------------------------------------------
\* Steps that touch no row, and steps that only move or retire a worker.
LEMMA RowsUntouched ==
  ASSUME Rows, UNCHANGED <<job, outbox, deliverable, accepted>>
  PROVE  Rows'
BY DEF Rows, RowsAgree, LinkErased, DispatchedMeansSent, DeadLetterAfterRetries,
       Contents, Settled

LEMMA StatesUntouched ==
  ASSUME TypeOK, Rows, UNCHANGED <<outbox, deliverable, accepted>>,
         \A m \in Messages : /\ job'[m].state = job[m].state
                            /\ job'[m].attempts \in Nat
                            /\ job'[m].attempts >= job[m].attempts
  PROVE  Rows'
<1>1. RowsAgree'
  BY DEF Rows, RowsAgree
<1>2. LinkErased'
  BY DEF Rows, LinkErased, Settled
<1>3. DispatchedMeansSent'
  BY DEF Rows, DispatchedMeansSent
<1>4. DeadLetterAfterRetries'
  BY OutboxAssumption
     DEF OutboxAssumption, TypeOK, JobRow, Rows, DeadLetterAfterRetries
<1>5. Contents'
  BY DEF Rows, Contents
<1> QED
  BY <1>1, <1>2, <1>3, <1>4, <1>5 DEF Rows

LEMMA GotoSnapshots ==
  ASSUME TypeOK, Snapshots, NEW w \in Workers, worker[w].pc # "idle", NEW s,
         Goto(w, s), UNCHANGED job
  PROVE  Snapshots'
BY DEF TypeOK, WorkerState, Snapshots, Goto

LEMMA ReadShape ==
  ASSUME TypeOK, NEW w \in Workers, NEW b, NEW s,
         worker' = [worker EXCEPT ![w].delivery = b, ![w].pc = s]
  PROVE  /\ worker'[w].pc = s
         /\ worker'[w].m = worker[w].m
         /\ worker'[w].gen = worker[w].gen
         /\ worker'[w].attempts = worker[w].attempts
         /\ \A v \in Workers : v # w => worker'[v] = worker[v]
BY DEF TypeOK, WorkerState

LEMMA RetireSnapshots ==
  ASSUME TypeOK, Snapshots, NEW w \in Workers,
         worker' = [worker EXCEPT ![w] = IdleWorker],
         \A m \in Messages : /\ job[m].state # "absent" => job'[m].state # "absent"
                            /\ job'[m].gen = job[m].gen
                            /\ job'[m].attempts = job[m].attempts
  PROVE  Snapshots'
BY DEF TypeOK, WorkerState, Snapshots, IdleWorker

LEMMA RetireStages ==
  ASSUME TypeOK, Stages, NEW w \in Workers,
         worker' = [worker EXCEPT ![w] = IdleWorker],
         UNCHANGED <<deliverable, accepted>>,
         \A m \in Messages : Settled(m) => Settled(m)'
  PROVE  Stages'
BY DEF TypeOK, WorkerState, Stages, IdleWorker

LEMMA Inductive == IInv /\ [Next]_vars /\ TypeOK' => IInv'
<1> SUFFICES ASSUME IInv, [Next]_vars, TypeOK' PROVE Rows' /\ Snapshots' /\ Stages'
  BY DEF IInv
<1>0. TypeOK /\ Rows /\ Snapshots /\ Stages
  BY DEF IInv
<1>1. ASSUME NEW m \in Messages, Enqueue(m) PROVE Rows' /\ Snapshots' /\ Stages'
  <2>1. Rows'
    BY <1>0, <1>1
    DEF Enqueue, TypeOK, JobRow, OutboxRow, Rows, RowsAgree, LinkErased,
        DispatchedMeansSent, DeadLetterAfterRetries, Contents, Settled, Invites
  <2>2. Snapshots'
    BY <1>0, <1>1 DEF Enqueue, TypeOK, JobRow, Snapshots
  <2>3. Stages'
    BY <1>0, <1>1 DEF Enqueue, TypeOK, JobRow, Stages, Settled
  <2> QED BY <2>1, <2>2, <2>3

<1>2. ASSUME NEW m \in Messages, Withdraw(m) PROVE Rows' /\ Snapshots' /\ Stages'
  <2>1. Rows'
    BY <1>0, <1>2
    DEF Withdraw, TypeOK, JobRow, OutboxRow, Rows, RowsAgree, LinkErased,
        DispatchedMeansSent, DeadLetterAfterRetries, Contents, Settled, Invites
  <2>2. Snapshots'
    BY <1>0, <1>2 DEF Withdraw, TypeOK, JobRow, Snapshots
  <2>3. Stages'
    BY <1>0, <1>2 DEF Withdraw, TypeOK, JobRow, Stages, Settled
  <2> QED BY <2>1, <2>2, <2>3

<1>3. ASSUME NEW w \in Workers, AcquireNextJob(w) PROVE Rows' /\ Snapshots' /\ Stages'
  <2>1. Rows'
    <3>1. \A m \in Messages : /\ job'[m].state = job[m].state
                             /\ job'[m].attempts \in Nat
                             /\ job'[m].attempts >= job[m].attempts
      BY <1>0, <1>3 DEF AcquireNextJob, JobCandidates, TypeOK, JobRow
    <3> QED
      BY <1>0, <1>3, <3>1, StatesUntouched DEF AcquireNextJob
  <2>2. Snapshots'
    <3>1. PICK n \in Messages :
            /\ job[n].state # "absent"
            /\ job' = [job EXCEPT ![n].owner = OwnerOf[w], ![n].lease = LeaseDuration,
                                 ![n].gen = @ + 1, ![n].attempts = @ + 1]
            /\ worker' = [worker EXCEPT ![w] =
                 [pc |-> "leased", m |-> n, gen |-> job[n].gen + 1,
                  attempts |-> job[n].attempts + 1, delivery |-> FALSE]]
      BY <1>3 DEF AcquireNextJob, JobCandidates
    <3>2. \A m \in Messages : job[m].gen \in Nat /\ job[m].attempts \in Nat
      BY <1>0 DEF TypeOK, JobRow
    <3>3. \A m \in Messages : /\ job'[m].state = job[m].state
                             /\ job'[m].gen \in Nat
                             /\ job'[m].gen >= job[m].gen
                             /\ job'[m].attempts \in Nat
                             /\ job'[m].attempts >= job[m].attempts
      BY <1>0, <3>1, <3>2 DEF TypeOK, JobRow
    <3>4. /\ job'[n].state # "absent"
          /\ job'[n].gen = job[n].gen + 1
          /\ job'[n].attempts = job[n].attempts + 1
      BY <1>0, <3>1 DEF TypeOK, JobRow
    <3>5. /\ worker'[w].m = n
          /\ worker'[w].gen = job[n].gen + 1
          /\ worker'[w].attempts = job[n].attempts + 1
          /\ \A v \in Workers : v # w => worker'[v] = worker[v]
      BY <1>0, <3>1 DEF TypeOK
    <3>6. \A v \in Workers : /\ worker[v].m \in Messages \/ worker[v].pc = "idle"
                             /\ worker[v].gen \in Nat
                             /\ worker[v].attempts \in Nat
      BY <1>0 DEF TypeOK, WorkerState, Snapshots
    <3>7. \A v \in Workers : worker'[v].pc # "idle" =>
            /\ job'[worker'[v].m].state # "absent"
            /\ worker'[v].gen <= job'[worker'[v].m].gen
            /\ worker'[v].attempts <= job'[worker'[v].m].attempts
      <4> TAKE v \in Workers
      <4>1. CASE v = w
        BY <4>1, <3>2, <3>4, <3>5
      <4>2. CASE v # w
        BY <4>2, <1>0, <3>2, <3>3, <3>5, <3>6 DEF Snapshots
      <4> QED BY <4>1, <4>2
    <3>8. \A v \in Workers : v # w /\ worker[v].pc # "idle" /\ worker[v].m = n
                             => worker[v].gen < worker'[w].gen
      BY <1>0, <3>2, <3>5, <3>6 DEF Snapshots
    <3>9. \A u, v \in Workers :
            u # v /\ worker'[u].pc # "idle" /\ worker'[v].pc # "idle"
              /\ worker'[u].m = worker'[v].m => worker'[u].gen # worker'[v].gen
      BY <1>0, <3>2, <3>5, <3>6, <3>8 DEF Snapshots
    <3> QED BY <3>7, <3>9 DEF Snapshots
  <2>3. Stages'
    BY <1>0, <1>3
    DEF AcquireNextJob, JobCandidates, TypeOK, JobRow, WorkerState, Stages, Settled
  <2> QED BY <2>1, <2>2, <2>3

<1>4. ASSUME NEW w \in Workers, ReadMessage(w) PROVE Rows' /\ Snapshots' /\ Stages'
  <2> DEFINE m == worker[w].m
             s == IF outbox[m].status # "pending" THEN "closing"
                  ELSE IF Kind[m] = "push" THEN "pushing"
                  ELSE IF outbox[m].delivery
                          \/ (m \in Invites /\ WorkerCipher # "absent")
                       THEN "checking" ELSE "sending"
  <2>a. worker' = [worker EXCEPT ![w].delivery = outbox[m].delivery, ![w].pc = s]
    BY <1>4 DEF ReadMessage
  <2> HIDE DEF m, s
  <2>0. /\ worker'[w].pc = s
        /\ worker'[w].m = worker[w].m
        /\ worker'[w].gen = worker[w].gen
        /\ worker'[w].attempts = worker[w].attempts
        /\ \A v \in Workers : v # w => worker'[v] = worker[v]
    BY <1>0, <2>a, ReadShape
  <2>1. Rows'
    BY <1>0, <1>4, RowsUntouched DEF ReadMessage
  <2>2. Snapshots'
    <3>1. UNCHANGED job /\ worker[w].pc # "idle"
      BY <1>4 DEF ReadMessage
    <3>2. \A v \in Workers : /\ worker'[v].pc # "idle" => worker[v].pc # "idle"
                             /\ worker'[v].m = worker[v].m
                             /\ worker'[v].gen = worker[v].gen
                             /\ worker'[v].attempts = worker[v].attempts
      BY <2>0, <3>1
    <3> QED
      BY <1>0, <3>1, <3>2 DEF Snapshots
  <2>3. Stages'
    <3>1. m \in Messages /\ job[m].state # "absent"
      BY <1>0, <1>4 DEF ReadMessage, TypeOK, Snapshots, m
    <3>2. outbox[m].status # "pending" => Settled(m)
      BY <1>0, <3>1 DEF TypeOK, JobRow, Rows, RowsAgree, Settled
    <3>3. outbox[m].delivery => m \in Invites
      BY <1>0, <3>1 DEF Rows, Contents, Invites
    <3>4. /\ s = "closing" => Settled(m)
          /\ s = "checking" => m \in Invites
          /\ s = "pushing" => Kind[m] = "push"
          /\ s # "completing"
      BY <3>2, <3>3 DEF s
    <3>5. UNCHANGED <<job, accepted, deliverable>>
      BY <1>4 DEF ReadMessage
    <3>6. ASSUME NEW v \in Workers, v # w PROVE worker'[v] = worker[v]
      BY <3>6, <2>0
    <3> QED
      BY <1>0, <2>0, <3>4, <3>5, <3>6 DEF Stages, Settled, m
  <2> QED BY <2>1, <2>2, <2>3

<1>5. ASSUME NEW w \in Workers, ReadMessageFails(w) PROVE Rows' /\ Snapshots' /\ Stages'
  <2>1. Rows'
    BY <1>0, <1>5, RowsUntouched DEF ReadMessageFails
  <2>2. Snapshots'
    BY <1>0, <1>5, GotoSnapshots DEF ReadMessageFails
  <2>3. Stages'
    BY <1>0, <1>5 DEF ReadMessageFails, Goto, TypeOK, WorkerState, Stages, Settled
  <2> QED BY <2>1, <2>2, <2>3

<1>6. ASSUME NEW w \in Workers, CheckDelivery(w) PROVE Rows' /\ Snapshots' /\ Stages'
  <2>1. Rows'
    BY <1>0, <1>6, RowsUntouched DEF CheckDelivery
  <2>2. Snapshots'
    BY <1>0, <1>6, GotoSnapshots DEF CheckDelivery
  <2>3. Stages'
    BY <1>0, <1>6 DEF CheckDelivery, Goto, TypeOK, WorkerState, Stages, Settled
  <2> QED BY <2>1, <2>2, <2>3

<1>7. ASSUME NEW w \in Workers, DispatchFails(w) PROVE Rows' /\ Snapshots' /\ Stages'
  <2>0. \A m \in Messages : accepted[m] > 0 => accepted'[m] > 0
    BY <1>0, <1>7 DEF DispatchFails, TypeOK
  <2>1. Rows'
    BY <1>0, <1>7, <2>0
    DEF DispatchFails, TypeOK, JobRow, OutboxRow, WorkerState, Rows, Snapshots,
        RowsAgree, LinkErased, DispatchedMeansSent, DeadLetterAfterRetries, Contents,
        Settled
  <2>2. Snapshots'
    BY <1>0, <1>7, GotoSnapshots DEF DispatchFails
  <2>3. Stages'
    BY <1>0, <1>7, <2>0 DEF DispatchFails, Goto, TypeOK, WorkerState, Stages, Settled
  <2> QED BY <2>1, <2>2, <2>3

<1>8. ASSUME NEW w \in Workers, NothingToPush(w) PROVE Rows' /\ Snapshots' /\ Stages'
  <2>1. Rows'
    BY <1>0, <1>8, RowsUntouched DEF NothingToPush
  <2>2. Snapshots'
    BY <1>0, <1>8, GotoSnapshots DEF NothingToPush
  <2>3. Stages'
    BY <1>0, <1>8 DEF NothingToPush, Goto, TypeOK, WorkerState, Stages, Settled
  <2> QED BY <2>1, <2>2, <2>3

<1>9. ASSUME NEW w \in Workers, CheckFindsExpired(w) PROVE Rows' /\ Snapshots' /\ Stages'
  <2>1. Rows'
    BY <1>0, <1>9
    DEF CheckFindsExpired, TypeOK, JobRow, OutboxRow, Rows, Snapshots, RowsAgree,
        LinkErased, DispatchedMeansSent, DeadLetterAfterRetries, Contents, Settled,
        Invites
  <2>2. Snapshots'
    BY <1>0, <1>9, GotoSnapshots DEF CheckFindsExpired
  <2>3. Stages'
    BY <1>0, <1>9 DEF CheckFindsExpired, Goto, TypeOK, WorkerState, Stages, Settled
  <2> QED BY <2>1, <2>2, <2>3

<1>10. ASSUME NEW w \in Workers, DispatchSucceeds(w) PROVE Rows' /\ Snapshots' /\ Stages'
  <2>1. Rows'
    BY <1>0, <1>10
    DEF DispatchSucceeds, TypeOK, JobRow, OutboxRow, Rows, Snapshots, RowsAgree,
        LinkErased, DispatchedMeansSent, DeadLetterAfterRetries, Contents, Settled,
        Invites
  <2>2. Snapshots'
    BY <1>0, <1>10, GotoSnapshots DEF DispatchSucceeds
  <2>3. Stages'
    BY <1>0, <1>10 DEF DispatchSucceeds, Goto, TypeOK, WorkerState, Stages, Settled
  <2> QED BY <2>1, <2>2, <2>3

<1>11. ASSUME NEW w \in Workers, CompleteOutboxJob(w) PROVE Rows' /\ Snapshots' /\ Stages'
  <2>1. Rows'
    <3> DEFINE m == worker[w].m
    <3>1. m \in Messages /\ UNCHANGED <<deliverable, accepted>>
      BY <1>0, <1>11 DEF CompleteOutboxJob, TypeOK
    <3>2. CASE UNCHANGED <<job, outbox>>
      BY <1>0, <3>1, <3>2, RowsUntouched
    <3>3. CASE /\ HoldsLease(w) /\ outbox[m].status = "pending"
               /\ worker[w].pc = "completing"
               /\ job' = [job EXCEPT ![m].state = "completed", ![m].owner = NoOwner,
                                     ![m].lease = 0]
               /\ outbox' = [outbox EXCEPT ![m] = [status |-> "dispatched",
                                                   delivery |-> FALSE]]
      <4>1. /\ job'[m].state = "completed" /\ outbox'[m].status = "dispatched"
            /\ ~outbox'[m].delivery
            /\ \A n \in Messages : n # m => job'[n] = job[n] /\ outbox'[n] = outbox[n]
        BY <1>0, <3>1, <3>3 DEF TypeOK, JobRow, OutboxRow
      <4>2. Kind[m] # "push" => accepted[m] > 0 \/ (m \in Invites /\ m \notin deliverable)
        BY <1>0, <3>3 DEF Stages
      <4> QED
        BY <1>0, <3>1, <4>1, <4>2
           DEF Rows, RowsAgree, LinkErased, DispatchedMeansSent, DeadLetterAfterRetries,
               Contents, Settled
    <3>4. CASE HoldsLease(w) /\ worker[w].pc = "closing"
      <4>1. job[m].state = "live" /\ Settled(m)
        BY <1>0, <3>4 DEF HoldsLease, Stages
      <4> QED
        BY <4>1 DEF Settled
    <3> QED
      BY <1>11, <3>2, <3>3, <3>4 DEF CompleteOutboxJob
  <2>2. Snapshots'
    <3>1. \A m \in Messages : /\ job[m].state # "absent" => job'[m].state # "absent"
                             /\ job'[m].gen = job[m].gen
                             /\ job'[m].attempts = job[m].attempts
      BY <1>0, <1>11 DEF CompleteOutboxJob, TypeOK, JobRow
    <3> QED
      BY <1>0, <1>11, <3>1, RetireSnapshots DEF CompleteOutboxJob
  <2>3. Stages'
    BY <1>0, <1>11, RetireStages
    DEF CompleteOutboxJob, HoldsLease, TypeOK, JobRow, Settled
  <2> QED BY <2>1, <2>2, <2>3

<1>12. ASSUME NEW w \in Workers, FailOutboxJob(w) PROVE Rows' /\ Snapshots' /\ Stages'
  <2> DEFINE m == worker[w].m
  <2>0. m \in Messages /\ job[m].attempts >= worker[w].attempts
    BY <1>0, <1>12 DEF FailOutboxJob, TypeOK, JobRow, WorkerState, Snapshots
  <2>a. UNCHANGED <<deliverable, accepted>> /\ worker' = [worker EXCEPT ![w] = IdleWorker]
    BY <1>12 DEF FailOutboxJob
  <2>b. \/ /\ HoldsLease(w) /\ outbox[m].status = "pending" /\ LastAttempt(w)
           /\ job' = [job EXCEPT ![m].state = "dead", ![m].owner = NoOwner, ![m].lease = 0]
           /\ outbox' = [outbox EXCEPT ![m] = [status |-> "dead_lettered",
                                               delivery |-> FALSE]]
        \/ /\ \E d : job' = [job EXCEPT ![m].owner = NoOwner, ![m].lease = 0,
                                         ![m].delay = d]
           /\ UNCHANGED outbox
        \/ UNCHANGED <<job, outbox>>
    BY <1>12 DEF FailOutboxJob
  <2> HIDE DEF m
  <2>c. \A n \in Messages : /\ job'[n].gen = job[n].gen
                            /\ job'[n].attempts = job[n].attempts
                            /\ job'[n].state \in {job[n].state, "dead"}
                            /\ job[n].state # "live" => job'[n].state = job[n].state
    <3>1. CASE \E d : job' = [job EXCEPT ![m].owner = NoOwner, ![m].lease = 0,
                                        ![m].delay = d]
      BY <1>0, <2>0, <3>1 DEF TypeOK, JobRow
    <3>2. CASE /\ HoldsLease(w)
               /\ job' = [job EXCEPT ![m].state = "dead", ![m].owner = NoOwner,
                                     ![m].lease = 0]
      <4>1. job[m].state = "live"
        BY <3>2 DEF HoldsLease, m
      <4> QED
        BY <1>0, <2>0, <3>2, <4>1 DEF TypeOK, JobRow
    <3> QED
      BY <2>b, <3>1, <3>2
  <2>1. Rows'
    <3>1. CASE UNCHANGED outbox /\ \E d : job' =
                 [job EXCEPT ![m].owner = NoOwner, ![m].lease = 0, ![m].delay = d]
      <4>1. \A n \in Messages : job'[n].state = job[n].state
        BY <1>0, <2>0, <3>1 DEF TypeOK, JobRow
      <4>2. \A n \in Messages : /\ job'[n].attempts \in Nat
                                /\ job'[n].attempts >= job[n].attempts
        BY <1>0, <2>c DEF TypeOK, JobRow
      <4> QED
        BY <1>0, <2>a, <3>1, <4>1, <4>2, StatesUntouched
    <3>2. CASE /\ HoldsLease(w) /\ LastAttempt(w)
               /\ job' = [job EXCEPT ![m].state = "dead", ![m].owner = NoOwner,
                                     ![m].lease = 0]
               /\ outbox' = [outbox EXCEPT ![m] = [status |-> "dead_lettered",
                                                   delivery |-> FALSE]]
      <4>1. /\ job'[m].state = "dead" /\ job[m].state = "live"
            /\ job'[m].attempts = job[m].attempts
            /\ \A n \in Messages : n # m => job'[n] = job[n]
        BY <1>0, <2>0, <3>2 DEF TypeOK, JobRow, HoldsLease, m
      <4>2. /\ outbox'[m].status = "dead_lettered" /\ ~outbox'[m].delivery
            /\ \A n \in Messages : n # m => outbox'[n] = outbox[n]
        BY <1>0, <2>0, <3>2 DEF TypeOK
      <4>3. job[m].attempts >= MaxAttempts
        BY <1>0, <2>0, <3>2, OutboxAssumption
           DEF OutboxAssumption, TypeOK, JobRow, WorkerState, LastAttempt
      <4>4. RowsAgree'
        BY <1>0, <4>1, <4>2 DEF Rows, RowsAgree
      <4>5. LinkErased'
        BY <1>0, <2>a, <4>1, <4>2 DEF Rows, LinkErased, Settled
      <4>6. DispatchedMeansSent'
        BY <1>0, <2>a, <4>1, <4>2 DEF Rows, DispatchedMeansSent
      <4>7. DeadLetterAfterRetries'
        BY <1>0, <4>1, <4>3 DEF Rows, DeadLetterAfterRetries
      <4>8. Contents'
        BY <1>0, <2>a, <4>1, <4>2 DEF Rows, Contents
      <4> QED
        BY <4>4, <4>5, <4>6, <4>7, <4>8 DEF Rows
    <3>3. CASE UNCHANGED <<job, outbox>>
      BY <1>0, <2>a, <3>3, RowsUntouched
    <3> QED
      BY <2>b, <3>1, <3>2, <3>3
  <2>2. Snapshots'
    BY <1>0, <2>a, <2>c, RetireSnapshots
  <2>3. Stages'
    BY <1>0, <2>a, <2>c, RetireStages DEF Settled
  <2> QED BY <2>1, <2>2, <2>3

<1>13. ASSUME NEW w \in Workers, Abandon(w) PROVE Rows' /\ Snapshots' /\ Stages'
  <2>1. Rows'
    BY <1>0, <1>13, RowsUntouched DEF Abandon
  <2>2. Snapshots'
    BY <1>0, <1>13, RetireSnapshots DEF Abandon
  <2>3. Stages'
    BY <1>0, <1>13, RetireStages DEF Abandon, Settled
  <2> QED BY <2>1, <2>2, <2>3

<1>14. CASE Tick
  <2>0. \A m \in Messages : /\ job'[m].state = job[m].state
                           /\ job'[m].gen = job[m].gen
                           /\ job'[m].attempts = job[m].attempts
                           /\ job'[m].attempts \in Nat
                           /\ job'[m].attempts >= job[m].attempts
    <3>1. \A r \in JobRow :
            LET q == [r EXCEPT !.delay = Countdown(@), !.lease = Countdown(@)] IN
            /\ q.state = r.state /\ q.gen = r.gen
            /\ q.attempts = r.attempts /\ q.attempts \in Nat /\ q.attempts >= r.attempts
      BY DEF JobRow
    <3>2. \A m \in Messages :
            /\ job[m] \in JobRow
            /\ job'[m] = [job[m] EXCEPT !.delay = Countdown(@), !.lease = Countdown(@)]
      BY <1>0, <1>14 DEF Tick, TypeOK
    <3> QED
      BY <3>1, <3>2
  <2>1. Rows'
    BY <1>0, <2>0, <1>14, StatesUntouched DEF Tick
  <2>2. Snapshots'
    <3>1. UNCHANGED worker /\ \A w \in Workers : worker[w].pc # "idle" =>
                                                  worker[w].m \in Messages
      BY <1>0, <1>14 DEF Tick, TypeOK
    <3> QED
      BY <1>0, <2>0, <3>1 DEF Snapshots
  <2>3. Stages'
    <3>1. /\ UNCHANGED <<worker, deliverable, accepted>>
          /\ \A w \in Workers : worker[w].pc # "idle" => worker[w].m \in Messages
      BY <1>0, <1>14 DEF Tick, TypeOK
    <3> QED
      BY <1>0, <2>0, <3>1 DEF Stages, Settled
  <2> QED BY <2>1, <2>2, <2>3

<1>15. CASE UNCHANGED vars
  BY <1>0, <1>15
  DEF vars, Rows, RowsAgree, LinkErased, DispatchedMeansSent, DeadLetterAfterRetries,
      Contents, Settled, Snapshots, Stages

<1> QED
  BY <1>1, <1>2, <1>3, <1>4, <1>5, <1>6, <1>7, <1>8, <1>9, <1>10, <1>11, <1>12, <1>13,
     <1>14, <1>15
  DEF Next, RunOnce

THEOREM Invariance == Spec => []IInv
<1>1. Init => IInv
  <2>1. Init => TypeOK
    BY OutboxAssumption DEF OutboxAssumption, Init, TypeOK, JobRow, OutboxRow,
       WorkerState, IdleWorker, Invites
  <2>2. Init => Rows
    BY DEF Init, Rows, RowsAgree, LinkErased, DispatchedMeansSent,
           DeadLetterAfterRetries, Contents, Settled
  <2>3. Init => Snapshots /\ Stages
    BY DEF Init, Snapshots, Stages, IdleWorker
  <2> QED
    BY <2>1, <2>2, <2>3 DEF IInv
<1> QED
  BY <1>1, Inductive, TypeCorrect, PTL DEF Spec

\* The row of a job and the row of its message always carry the same verdict.
THEOREM RowsAlwaysAgree == Spec => []RowsAgree
BY Invariance, PTL DEF IInv, Rows

\* The encrypted link is erased with its message or its invitation.
THEOREM LinkAlwaysErased == Spec => []LinkErased
BY Invariance, PTL DEF IInv, Rows

\* Nothing is recorded as dispatched that no provider acknowledged.
THEOREM NeverDispatchedUnsent == Spec => []DispatchedMeansSent
BY Invariance, PTL DEF IInv, Rows

\* No job is given up before its attempts are used up.
THEOREM NeverGivenUpEarly == Spec => []DeadLetterAfterRetries
BY Invariance, PTL DEF IInv, Rows

\* No two workers ever hold the lease of one job: their snapshots differ in the
\* generation, and the row has only one.
THEOREM LeaseIsExclusive == Spec => []OneLeaseHolder
<1>1. IInv => OneLeaseHolder
  BY DEF IInv, Snapshots, OneLeaseHolder, HoldsLease
<1> QED
  BY <1>1, Invariance, PTL

-----------------------------------------------------------------------------
\* A leased job waits for nothing else, and nothing about a settled one is left
\* to count down.
Clocks ==
  \A m \in Messages : /\ job[m].lease > 0 => job[m].delay = 0
                      /\ job[m].state = "absent" => job[m].lease = 0
                      /\ Settled(m) => job[m].lease = 0 /\ job[m].delay = 0

Fenced(m) ==
  /\ Settled(m) => job'[m] = job[m]
  /\ job[m].state = "live" /\ job'[m].owner = NoOwner /\ job[m].owner # NoOwner
       => \E w \in Workers : worker[w].pc # "idle" /\ worker[w].m = m
                             /\ HoldsLease(w)

LEMMA ClocksStep == IInv /\ Clocks /\ [Next]_vars => Clocks' /\ \A m \in Messages : Fenced(m)
<1> SUFFICES ASSUME IInv, Clocks, [Next]_vars PROVE Clocks' /\ \A m \in Messages : Fenced(m)
  OBVIOUS
<1>0. TypeOK
  BY DEF IInv
<1>1. CASE UNCHANGED job
  BY <1>1 DEF Clocks, Fenced, Settled
<1>2. ASSUME NEW m \in Messages, Enqueue(m) PROVE Clocks' /\ \A n \in Messages : Fenced(n)
  <2>1. /\ job[m].state = "absent" /\ job'[m].state = "live"
        /\ job'[m].lease = job[m].lease /\ job'[m].owner = job[m].owner
        /\ \A n \in Messages : n # m => job'[n] = job[n]
    BY <1>0, <1>2 DEF Enqueue, TypeOK, JobRow
  <2> QED
    BY <1>0, <2>1 DEF TypeOK, JobRow, Clocks, Fenced, Settled
<1>3. ASSUME NEW w \in Workers, AcquireNextJob(w)
      PROVE  Clocks' /\ \A n \in Messages : Fenced(n)
  <2>1. PICK m \in JobCandidates :
          job' = [job EXCEPT ![m].owner = OwnerOf[w], ![m].lease = LeaseDuration,
                             ![m].gen = @ + 1, ![m].attempts = @ + 1]
    BY <1>3 DEF AcquireNextJob
  <2>2. /\ m \in Messages /\ job[m].state = "live" /\ job[m].delay = 0
        /\ job'[m].state = "live" /\ job'[m].delay = 0 /\ job'[m].owner # NoOwner
        /\ \A n \in Messages : n # m => job'[n] = job[n]
    BY <1>0, <2>1, OutboxAssumption DEF OutboxAssumption, JobCandidates, TypeOK, JobRow
  <2> QED
    BY <2>2 DEF Clocks, Fenced, Settled
<1>4. ASSUME NEW w \in Workers, NEW m \in Messages, worker[w].m = m, HoldsLease(w),
             worker[w].pc # "idle",
             job'[m].lease = 0,
             \/ job'[m].state = "live"
             \/ job'[m].state # "absent" /\ job'[m].delay = job[m].delay,
             \A n \in Messages : n # m => job'[n] = job[n]
      PROVE  Clocks' /\ \A n \in Messages : Fenced(n)
  <2>1. job[m].state = "live" /\ job[m].lease > 0
    BY <1>4 DEF HoldsLease
  <2> QED
    BY <1>0, <1>4, <2>1 DEF TypeOK, JobRow, Clocks, Fenced, Settled
<1>5. ASSUME NEW w \in Workers, CompleteOutboxJob(w)
      PROVE  Clocks' /\ \A n \in Messages : Fenced(n)
  <2> DEFINE m == worker[w].m
  <2>1. m \in Messages /\ worker[w].pc # "idle"
    BY <1>0, <1>5 DEF CompleteOutboxJob, TypeOK
  <2>2. CASE /\ HoldsLease(w)
             /\ job' = [job EXCEPT ![m].state = "completed", ![m].owner = NoOwner,
                                   ![m].lease = 0]
    <3>1. /\ job'[m].lease = 0 /\ job'[m].delay = job[m].delay
          /\ job'[m].state = "completed"
          /\ \A n \in Messages : n # m => job'[n] = job[n]
      BY <1>0, <2>1, <2>2 DEF TypeOK, JobRow
    <3> QED
      BY <1>4, <2>1, <2>2, <3>1
  <2> QED
    BY <1>1, <1>5, <2>2 DEF CompleteOutboxJob
<1>6. ASSUME NEW w \in Workers, FailOutboxJob(w)
      PROVE  Clocks' /\ \A n \in Messages : Fenced(n)
  <2> DEFINE m == worker[w].m
  <2>1. m \in Messages /\ worker[w].pc # "idle"
    BY <1>0, <1>6 DEF FailOutboxJob, TypeOK
  <2>2. CASE /\ HoldsLease(w)
             /\ job' = [job EXCEPT ![m].state = "dead", ![m].owner = NoOwner,
                                   ![m].lease = 0]
    <3>1. /\ job'[m].lease = 0 /\ job'[m].delay = job[m].delay
          /\ job'[m].state = "dead"
          /\ \A n \in Messages : n # m => job'[n] = job[n]
      BY <1>0, <2>1, <2>2 DEF TypeOK, JobRow
    <3> QED
      BY <1>4, <2>1, <2>2, <3>1
  <2>3. CASE /\ HoldsLease(w)
             /\ \E d : job' = [job EXCEPT ![m].owner = NoOwner, ![m].lease = 0,
                                         ![m].delay = d]
    <3>1. /\ job'[m].lease = 0 /\ job'[m].state = job[m].state
          /\ \A n \in Messages : n # m => job'[n] = job[n]
      BY <1>0, <2>1, <2>3 DEF TypeOK, JobRow
    <3>2. job'[m].state = "live"
      BY <2>3, <3>1 DEF HoldsLease
    <3> QED
      BY <1>4, <2>1, <2>3, <3>1, <3>2
  <2> QED
    BY <1>1, <1>6, <2>2, <2>3 DEF FailOutboxJob
<1>7. CASE Tick
  <2>1. \A r \in JobRow :
          LET q == [r EXCEPT !.delay = Countdown(@), !.lease = Countdown(@)] IN
          /\ q.state = r.state /\ q.owner = r.owner
          /\ q.delay = Countdown(r.delay) /\ q.lease = Countdown(r.lease)
          /\ r.delay = 0 /\ r.lease = 0 => q = r
    <3> SUFFICES ASSUME NEW r \in JobRow
                 PROVE  LET q == [r EXCEPT !.delay = Countdown(@), !.lease = Countdown(@)] IN
                        /\ q.state = r.state /\ q.owner = r.owner
                        /\ q.delay = Countdown(r.delay) /\ q.lease = Countdown(r.lease)
                        /\ r.delay = 0 /\ r.lease = 0 => q = r
      OBVIOUS
    <3>1. Countdown(0) = 0
      BY DEF Countdown
    <3> QED
      BY <3>1 DEF JobRow
  <2>2. \A m \in Messages :
          /\ job[m] \in JobRow
          /\ job'[m] = [job[m] EXCEPT !.delay = Countdown(@), !.lease = Countdown(@)]
    BY <1>0, <1>7 DEF Tick, TypeOK
  <2>3. ASSUME NEW m \in Messages
        PROVE  /\ job'[m].state = job[m].state /\ job'[m].owner = job[m].owner
               /\ job'[m].delay = Countdown(job[m].delay)
               /\ job'[m].lease = Countdown(job[m].lease)
               /\ job[m].delay = 0 /\ job[m].lease = 0 => job'[m] = job[m]
               /\ job[m].delay \in Nat /\ job[m].lease \in Nat
    <3>1. job[m].delay \in Nat /\ job[m].lease \in Nat
      BY <2>2 DEF JobRow
    <3> QED
      BY <2>1, <2>2, <3>1
  <2>4. Clocks'
    BY <2>3 DEF Clocks, Settled, Countdown
  <2> QED
    BY <2>3, <2>4 DEF Clocks, Fenced, Settled
<1>8. CASE UNCHANGED vars
  BY <1>1, <1>8 DEF vars
<1> QED
  BY <1>1, <1>2, <1>3, <1>5, <1>6, <1>7, <1>8
     DEF Next, RunOnce, Withdraw, ReadMessage, ReadMessageFails, CheckDelivery,
         CheckFindsExpired, DispatchSucceeds, DispatchFails, NothingToPush, Abandon

\* A settled job row stays as it is, and only the holder of a lease ends it.
THEOREM LeasesFence == Spec => LeaseFences
<1>1. Init => Clocks
  <2>1. ASSUME Init, NEW m \in Messages
        PROVE  job[m].state = "absent" /\ job[m].lease = 0 /\ job[m].delay = 0
    BY <2>1 DEF Init
  <2> QED
    BY <2>1 DEF Clocks, Settled
<1>2. (\A m \in Messages : Fenced(m)) =>
        \A m \in Messages :
          /\ Settled(m) => job'[m] = job[m]
          /\ job[m].state = "live" /\ job'[m].owner = NoOwner /\ job[m].owner # NoOwner
               => \E w \in Workers : worker[w].pc # "idle" /\ worker[w].m = m
                                     /\ HoldsLease(w)
  BY DEF Fenced
<1> QED
  BY <1>1, <1>2, ClocksStep, Invariance, PTL DEF Spec, LeaseFences

-----------------------------------------------------------------------------
(* Refinement: the outbox implements MessageDelivery. *)

\* A step that changes no status, no count of sends and no invitation stutters.
LEMMA Stutter ==
  ASSUME UNCHANGED <<deliverable, accepted>>,
         \A m \in Messages : outbox'[m].status = outbox[m].status
  PROVE  UNCHANGED Promise!vars
BY DEF Promise!vars

LEMMA PromiseStep == IInv /\ [Next]_vars => [Promise!Next]_(Promise!vars)
<1> SUFFICES ASSUME IInv, [Next]_vars PROVE Promise!Next \/ UNCHANGED Promise!vars
  OBVIOUS
<1>0. TypeOK /\ Rows /\ Snapshots /\ Stages
  BY DEF IInv
<1>1. CASE UNCHANGED <<outbox, deliverable, accepted>>
  BY <1>1, Stutter
<1>2. ASSUME NEW m \in Messages, Enqueue(m) PROVE Promise!Next
  <2>1. outbox[m].status = "absent"
    BY <1>0, <1>2 DEF Enqueue, Rows, RowsAgree
  <2>2. /\ outbox'[m].status = "pending"
        /\ \A n \in Messages : n # m => outbox'[n] = outbox[n]
        /\ UNCHANGED <<deliverable, accepted>>
    BY <1>0, <1>2 DEF Enqueue, TypeOK, OutboxRow
  <2>3. Promise!Announce(m)
    BY <2>1, <2>2 DEF Promise!Announce
  <2> QED
    BY <2>3 DEF Promise!Next
<1>3. ASSUME NEW m \in Messages, outbox[m].status # "absent", m \in deliverable,
             deliverable' = deliverable \ {m}, UNCHANGED accepted,
             outbox' = [outbox EXCEPT ![m].delivery = FALSE]
      PROVE  Promise!Next
  <2>1. \A n \in Messages : outbox'[n].status = outbox[n].status
    BY <1>0, <1>3 DEF TypeOK, OutboxRow
  <2>2. m \in Invites
    BY <1>0, <1>3 DEF TypeOK
  <2>3. Promise!WithdrawInvite(m)
    BY <1>3, <2>1, <2>2 DEF Promise!WithdrawInvite
  <2> QED
    BY <2>3 DEF Promise!Next
<1>4. ASSUME NEW m \in Messages, Withdraw(m) PROVE Promise!Next
  BY <1>3, <1>4 DEF Withdraw
<1>5. ASSUME NEW w \in Workers, CheckFindsExpired(w) PROVE Promise!Next
  <2>1. worker[w].m \in Messages /\ outbox[worker[w].m].status # "absent"
    BY <1>0, <1>5 DEF CheckFindsExpired, TypeOK, JobRow, Snapshots, Rows, RowsAgree
  <2> QED
    BY <1>3, <1>5, <2>1 DEF CheckFindsExpired
<1>6. ASSUME NEW w \in Workers, DispatchSucceeds(w) PROVE Promise!Next
  <2>1. PICK m \in Messages : worker[w].m = m /\ outbox[m].status # "absent"
    BY <1>0, <1>6 DEF DispatchSucceeds, TypeOK, JobRow, Snapshots, Rows, RowsAgree
  <2>2. /\ accepted'[m] > 0
        /\ \A n \in Messages : n # m => accepted'[n] = accepted[n]
        /\ UNCHANGED <<outbox, deliverable>>
    BY <1>0, <1>6, <2>1 DEF DispatchSucceeds, TypeOK
  <2>3. Promise!Reach(m)
    BY <2>1, <2>2 DEF Promise!Reach
  <2> QED
    BY <2>3 DEF Promise!Next
<1>a. ASSUME NEW w \in Workers, DispatchFails(w)
      PROVE  Promise!Next \/ UNCHANGED Promise!vars
  <2>1. PICK m \in Messages : worker[w].m = m /\ outbox[m].status # "absent"
    BY <1>0, <1>a DEF DispatchFails, TypeOK, JobRow, Snapshots, Rows, RowsAgree
  <2>2. CASE accepted' = [accepted EXCEPT ![m] = @ + 1]
    <3>1. /\ accepted'[m] > 0
          /\ \A n \in Messages : n # m => accepted'[n] = accepted[n]
          /\ UNCHANGED <<outbox, deliverable>>
      BY <1>0, <1>a, <2>1, <2>2 DEF DispatchFails, TypeOK
    <3>2. Promise!Reach(m)
      BY <2>1, <3>1 DEF Promise!Reach
    <3> QED
      BY <3>2 DEF Promise!Next
  <2> QED
    BY <1>1, <1>a, <2>1, <2>2 DEF DispatchFails
<1>7. ASSUME NEW w \in Workers, CompleteOutboxJob(w)
      PROVE  Promise!Next \/ UNCHANGED Promise!vars
  <2>1. PICK m \in Messages : worker[w].m = m /\ UNCHANGED <<deliverable, accepted>>
    BY <1>0, <1>7 DEF CompleteOutboxJob, TypeOK
  <2>2. CASE /\ worker[w].pc = "completing" /\ outbox[m].status = "pending"
             /\ outbox' = [outbox EXCEPT ![m] = [status |-> "dispatched",
                                                 delivery |-> FALSE]]
    <3>1. Kind[m] = "push" \/ accepted[m] > 0 \/ (m \in Invites /\ m \notin deliverable)
      BY <1>0, <2>1, <2>2 DEF Stages
    <3>2. /\ outbox[m].status = "pending" /\ outbox'[m].status = "dispatched"
          /\ \A n \in Messages : n # m => outbox'[n].status = outbox[n].status
          /\ UNCHANGED <<deliverable, accepted>>
      BY <1>0, <2>1, <2>2 DEF TypeOK
    <3>3. Promise!Dispatch(m)
      BY <3>1, <3>2 DEF Promise!Dispatch
    <3> QED
      BY <3>3 DEF Promise!Next
  <2> QED
    BY <1>1, <1>7, <2>1, <2>2 DEF CompleteOutboxJob
<1>8. ASSUME NEW w \in Workers, FailOutboxJob(w)
      PROVE  Promise!Next \/ UNCHANGED Promise!vars
  <2>1. PICK m \in Messages : worker[w].m = m /\ UNCHANGED <<deliverable, accepted>>
    BY <1>0, <1>8 DEF FailOutboxJob, TypeOK
  <2>2. CASE /\ outbox[m].status = "pending"
             /\ outbox' = [outbox EXCEPT ![m] = [status |-> "dead_lettered",
                                                 delivery |-> FALSE]]
    <3>1. /\ outbox[m].status = "pending" /\ outbox'[m].status = "dead_lettered"
          /\ \A n \in Messages : n # m => outbox'[n].status = outbox[n].status
          /\ UNCHANGED <<deliverable, accepted>>
      BY <1>0, <2>1, <2>2 DEF TypeOK
    <3>2. Promise!GiveUp(m)
      BY <3>1 DEF Promise!GiveUp
    <3> QED
      BY <3>2 DEF Promise!Next
  <2> QED
    BY <1>1, <1>8, <2>1, <2>2 DEF FailOutboxJob
<1>9. CASE UNCHANGED vars
  BY <1>1, <1>9 DEF vars
<1> QED
  BY <1>1, <1>2, <1>4, <1>5, <1>6, <1>7, <1>8, <1>9, <1>a
     DEF Next, RunOnce, AcquireNextJob, ReadMessage, ReadMessageFails, CheckDelivery,
         NothingToPush, Abandon, Tick

\* Leases, retries, crashes and stale workers together never do more than the
\* at-least-once promise of MessageDelivery allows.
THEOREM OutboxKeepsPromise == Spec => KeepsPromise
<1>1. Init => Promise!Init
  <2> SUFFICES ASSUME Init PROVE Promise!Init
    OBVIOUS
  <2>1. \A m \in Messages : outbox[m].status = "absent" /\ accepted[m] = 0
    BY DEF Init
  <2>2. deliverable = Invites
    BY DEF Init
  <2> QED
    BY <2>1, <2>2 DEF Promise!Init
<1> QED
  BY <1>1, PromiseStep, Invariance, PTL DEF Spec, KeepsPromise, Promise!Spec

\* The rows of a message agree, give up in time and keep no link longer than they may,
\* for any number of workers.
THEOREM OutboxSound == Spec => []OutboxInv
BY TypeCorrect, RowsAlwaysAgree, NeverGivenUpEarly, LinkAlwaysErased, PTL DEF OutboxInv

-----------------------------------------------------------------------------
(* How often a message may be sent twice. *)

\* The budget of sends that were not disowned.  A worker that lost its lease before it
\* sent may still send: its lapsed lease pays for that.
Owned(m) == accepted[m] - disowned[m]
Early == {"leased", "checking", "sending", "pushing"}
Stale(m) == {w \in Workers : /\ worker[w].pc \in Early /\ worker[w].m = m
                             /\ ~HoldsLease(w)}
Slack(m) == IF job[m].state = "completed" \/ InFlight(m) \/ Abandoned(m) THEN 1 ELSE 0
Budget ==
  \A m \in Messages :
    /\ IsFiniteSet(Stale(m))
    /\ Owned(m) + Cardinality(Stale(m)) <= lapsed[m] + Slack(m)

LEMMA Counted ==
  ASSUME NEW S, IsFiniteSet(S), NEW T, NEW w
  PROVE  /\ Cardinality(S) \in Nat
         /\ T \subseteq S => IsFiniteSet(T) /\ Cardinality(T) <= Cardinality(S)
         /\ w \in S /\ T \subseteq S \ {w} =>
              IsFiniteSet(T) /\ Cardinality(T) + 1 <= Cardinality(S)
         /\ T \subseteq S \cup {w} =>
              IsFiniteSet(T) /\ Cardinality(T) <= Cardinality(S) + 1
<1>1. Cardinality(S) \in Nat
  BY FS_CardinalityType
<1>2. T \subseteq S => IsFiniteSet(T) /\ Cardinality(T) <= Cardinality(S)
  BY FS_Subset
<1>3. ASSUME w \in S, T \subseteq S \ {w}
      PROVE  IsFiniteSet(T) /\ Cardinality(T) + 1 <= Cardinality(S)
  <2>1. IsFiniteSet(S \ {w}) /\ Cardinality(S \ {w}) = Cardinality(S) - 1
    BY <1>3, FS_RemoveElement
  <2>2. IsFiniteSet(T) /\ Cardinality(T) <= Cardinality(S \ {w})
    BY <1>3, <2>1, FS_Subset
  <2>3. Cardinality(T) \in Nat
    BY <2>2, FS_CardinalityType
  <2> QED
    BY <1>1, <2>1, <2>2, <2>3
<1>4. ASSUME T \subseteq S \cup {w}
      PROVE  IsFiniteSet(T) /\ Cardinality(T) <= Cardinality(S) + 1
  <2>1. /\ IsFiniteSet(S \cup {w})
        /\ Cardinality(S \cup {w}) = Cardinality(S) \/ Cardinality(S \cup {w}) = Cardinality(S) + 1
    BY FS_AddElement
  <2>2. IsFiniteSet(T) /\ Cardinality(T) <= Cardinality(S \cup {w})
    BY <1>4, <2>1, FS_Subset
  <2>3. Cardinality(T) \in Nat
    BY <2>2, FS_CardinalityType
  <2> QED
    BY <1>1, <2>1, <2>2, <2>3
<1> QED
  BY <1>1, <1>2, <1>3, <1>4

\* The budget of one message, from what a step does to it.
LEMMA Balanced ==
  ASSUME Budget, TypeOK, NEW m \in Messages, NEW w,
         Owned(m)' \in Int, lapsed'[m] \in Nat,
         \/ /\ Stale(m)' \subseteq Stale(m)
            /\ Owned(m)' - lapsed'[m] - Slack(m)' <= Owned(m) - lapsed[m] - Slack(m)
         \/ /\ w \in Stale(m) /\ Stale(m)' \subseteq Stale(m) \ {w}
            /\ Owned(m)' - lapsed'[m] - Slack(m)' <= Owned(m) - lapsed[m] - Slack(m) + 1
         \/ /\ Stale(m)' \subseteq Stale(m) \cup {w}
            /\ Owned(m)' - lapsed'[m] - Slack(m)' + 1 <= Owned(m) - lapsed[m] - Slack(m)
  PROVE  /\ IsFiniteSet(Stale(m)')
         /\ Owned(m)' + Cardinality(Stale(m)') <= lapsed'[m] + Slack(m)'
<1> DEFINE S == Stale(m)
           T == Stale(m)'
           u == Slack(m)
           v == Slack(m)'
<1>1. /\ IsFiniteSet(S) /\ Owned(m) + Cardinality(S) <= lapsed[m] + u
      /\ Owned(m) \in Int /\ lapsed[m] \in Nat
  BY DEF Budget, TypeOK, Owned
<1>2. u \in {0, 1} /\ v \in {0, 1}
  BY DEF Slack
<1> HIDE DEF u, v, S, T
<1>3. /\ Cardinality(S) \in Nat
      /\ T \subseteq S => IsFiniteSet(T) /\ Cardinality(T) <= Cardinality(S)
      /\ w \in S /\ T \subseteq S \ {w} =>
           IsFiniteSet(T) /\ Cardinality(T) + 1 <= Cardinality(S)
      /\ T \subseteq S \cup {w} =>
           IsFiniteSet(T) /\ Cardinality(T) <= Cardinality(S) + 1
  BY <1>1, Counted
<1>4. \/ /\ T \subseteq S
         /\ Owned(m)' - lapsed'[m] - v <= Owned(m) - lapsed[m] - u
      \/ /\ w \in S /\ T \subseteq S \ {w}
         /\ Owned(m)' - lapsed'[m] - v <= Owned(m) - lapsed[m] - u + 1
      \/ /\ T \subseteq S \cup {w}
         /\ Owned(m)' - lapsed'[m] - v + 1 <= Owned(m) - lapsed[m] - u
  BY DEF S, T, u, v
<1>5. IsFiniteSet(T)
  BY <1>3, <1>4
<1>6. Cardinality(T) \in Nat
  BY <1>5, FS_CardinalityType
<1>7. Owned(m)' + Cardinality(T) <= lapsed'[m] + v
  BY <1>1, <1>2, <1>3, <1>4, <1>6
<1> QED
  BY <1>5, <1>7 DEF T, v

\* An iteration goes on, or sends nothing.
LEMMA MoveBudget ==
  ASSUME Budget, TypeOK, NEW w \in Workers, worker[w].pc # "idle",
         worker[w].pc # "completing", worker'[w].pc # "idle",
         worker'[w].m = worker[w].m, worker'[w].gen = worker[w].gen,
         worker'[w].pc \in Early => worker[w].pc \in Early,
         \A v \in Workers : v # w => worker'[v] = worker[v],
         UNCHANGED <<job, lapsed>>, \A n \in Messages : Owned(n)' = Owned(n)
  PROVE  Budget'
<1> SUFFICES ASSUME NEW m \in Messages
             PROVE  /\ IsFiniteSet(Stale(m)')
                    /\ Owned(m)' + Cardinality(Stale(m)') <= lapsed'[m] + Slack(m)'
  BY DEF Budget
<1>1. \A v \in Workers : HoldsLease(v)' <=> HoldsLease(v)
  BY DEF HoldsLease
<1>2. Stale(m)' \subseteq Stale(m)
  BY <1>1 DEF Stale
<1>3. InFlight(m) => InFlight(m)'
  BY <1>1 DEF InFlight
<1>4. Abandoned(m) => Abandoned(m)'
  BY <1>1 DEF Abandoned
<1>5. Slack(m) <= Slack(m)' /\ Slack(m) \in {0, 1} /\ Slack(m)' \in {0, 1}
  BY <1>3, <1>4 DEF Slack
<1>6. Owned(m) \in Int /\ lapsed[m] \in Nat
  BY DEF TypeOK, Owned
<1>7. Owned(m)' = Owned(m) /\ lapsed'[m] = lapsed[m]
  OBVIOUS
<1>8. Owned(m)' - lapsed'[m] - Slack(m)' <= Owned(m) - lapsed[m] - Slack(m)
  BY <1>5, <1>6, <1>7
<1> QED
  BY <1>2, <1>6, <1>7, <1>8, Balanced

\* An iteration ends and leaves the rows as they are.
LEMMA RetireBudget ==
  ASSUME Budget, TypeOK, OneLeaseHolder, NEW w \in Workers, worker[w].pc # "idle",
         worker' = [worker EXCEPT ![w] = IdleWorker],
         UNCHANGED <<job, lapsed>>, \A n \in Messages : Owned(n)' = Owned(n)
  PROVE  Budget'
<1> SUFFICES ASSUME NEW m \in Messages
             PROVE  /\ IsFiniteSet(Stale(m)')
                    /\ Owned(m)' + Cardinality(Stale(m)') <= lapsed'[m] + Slack(m)'
  BY DEF Budget
<1>1. worker'[w].pc = "idle" /\ \A v \in Workers : v # w => worker'[v] = worker[v]
  BY DEF TypeOK, IdleWorker
<1>2. \A v \in Workers : v # w => (HoldsLease(v)' <=> HoldsLease(v))
  BY <1>1 DEF HoldsLease
<1>3. Stale(m)' \subseteq Stale(m)
  BY <1>1, <1>2 DEF Stale, Early
<1>4. Abandoned(m) => Abandoned(m)'
  BY <1>1, <1>2 DEF Abandoned
<1>5. InFlight(m) => InFlight(m)' \/ Abandoned(m)'
  <2>1. CASE worker[w].m = m /\ HoldsLease(w)
    <3>1. job[m].state = "live" /\ job[m].lease > 0
      BY <2>1 DEF HoldsLease
    <3>2. \A v \in Workers : v # w /\ worker[v].pc # "idle" /\ worker[v].m = m
                               => ~HoldsLease(v)
      BY <2>1 DEF OneLeaseHolder
    <3> QED
      BY <1>1, <1>2, <3>1, <3>2 DEF Abandoned
  <2>2. CASE ~(worker[w].m = m /\ HoldsLease(w))
    BY <1>1, <1>2, <2>2 DEF InFlight
  <2> QED
    BY <2>1, <2>2
<1>6. Slack(m) <= Slack(m)' /\ Slack(m) \in {0, 1} /\ Slack(m)' \in {0, 1}
  BY <1>4, <1>5 DEF Slack
<1>7. Owned(m) \in Int /\ lapsed[m] \in Nat
  BY DEF TypeOK, Owned
<1>8. Owned(m)' = Owned(m) /\ lapsed'[m] = lapsed[m]
  OBVIOUS
<1>9. Owned(m)' - lapsed'[m] - Slack(m)' <= Owned(m) - lapsed[m] - Slack(m)
  BY <1>6, <1>7, <1>8
<1> QED
  BY <1>3, <1>7, <1>8, <1>9, Balanced

\* A message whose row, count and workers stay as they are keeps its budget.
LEMMA OthersBudget ==
  ASSUME Budget, TypeOK, NEW m \in Messages,
         job'[m] = job[m], Owned(m)' = Owned(m), lapsed'[m] = lapsed[m],
         \A v \in Workers :
           \/ worker'[v] = worker[v]
           \/ /\ worker[v].pc = "idle" \/ worker[v].m # m
              /\ worker'[v].pc = "idle" \/ worker'[v].m # m
  PROVE  /\ IsFiniteSet(Stale(m)')
         /\ Owned(m)' + Cardinality(Stale(m)') <= lapsed'[m] + Slack(m)'
<1>1. \A v \in Workers : worker'[v] = worker[v] /\ worker[v].m = m
                           => (HoldsLease(v)' <=> HoldsLease(v))
  BY DEF HoldsLease
<1>2. Stale(m)' \subseteq Stale(m)
  BY <1>1 DEF Stale, Early
<1>3. InFlight(m)' <=> InFlight(m)
  BY <1>1 DEF InFlight
<1>4. Abandoned(m)' <=> Abandoned(m)
  BY <1>1 DEF Abandoned
<1>5. Slack(m)' = Slack(m) /\ Slack(m) \in {0, 1}
  BY <1>3, <1>4 DEF Slack
<1>6. Owned(m) \in Int /\ lapsed[m] \in Nat
  BY DEF TypeOK, Owned
<1>7. Owned(m)' - lapsed'[m] - Slack(m)' <= Owned(m) - lapsed[m] - Slack(m)
  BY <1>5, <1>6
<1> QED
  BY <1>2, <1>6, <1>7, Balanced

LEMMA BudgetStep ==
  IInv /\ OneLeaseHolder /\ Clocks /\ Budget /\ [Next]_vars => Budget'
<1> SUFFICES ASSUME IInv, OneLeaseHolder, Clocks, Budget, [Next]_vars PROVE Budget'
  OBVIOUS
<1>0. TypeOK /\ Snapshots
  BY DEF IInv
<1>1. CASE UNCHANGED <<job, worker, accepted, disowned, lapsed>>
  <2>1. \A n \in Messages : Owned(n)' = Owned(n)
    BY <1>1 DEF Owned
  <2> QED
    BY <1>0, <1>1, <2>1, OthersBudget DEF Budget
<1>2. ASSUME NEW w \in Workers, NEW s \in Early \cup {"completing", "closing", "failing"},
             NEW b, worker[w].pc \in Early,
             \/ worker' = [worker EXCEPT ![w].pc = s]
             \/ worker' = [worker EXCEPT ![w].delivery = b, ![w].pc = s],
             UNCHANGED <<job, lapsed>>, \A n \in Messages : Owned(n)' = Owned(n)
      PROVE  Budget'
  <2>1. /\ worker[w].pc # "idle" /\ worker[w].pc # "completing" /\ s # "idle"
    BY <1>2 DEF Early
  <2>2. /\ worker'[w].pc = s /\ worker'[w].m = worker[w].m /\ worker'[w].gen = worker[w].gen
        /\ \A v \in Workers : v # w => worker'[v] = worker[v]
    BY <1>0, <1>2 DEF TypeOK, WorkerState
  <2> QED
    BY <1>0, <1>2, <2>1, <2>2, MoveBudget
<1>3. ASSUME NEW m \in Messages, Enqueue(m) PROVE Budget'
  <2>1. /\ job[m].state = "absent" /\ job'[m].state = "live"
        /\ job'[m].lease = job[m].lease
        /\ \A n \in Messages : n # m => job'[n] = job[n]
        /\ UNCHANGED <<worker, lapsed>> /\ \A n \in Messages : Owned(n)' = Owned(n)
    BY <1>0, <1>3 DEF Enqueue, TypeOK, JobRow, Owned
  <2>2. job[m].lease = 0 /\ \A v \in Workers : worker[v].pc = "idle" \/ worker[v].m # m
    BY <1>0, <2>1 DEF Clocks, Snapshots
  <2>3. Stale(m)' \subseteq Stale(m) /\ ~InFlight(m) /\ ~Abandoned(m)
    BY <2>1, <2>2 DEF Stale, Early, InFlight, Abandoned
  <2>4. Slack(m) = 0 /\ Slack(m)' \in {0, 1}
    BY <2>1, <2>3 DEF Slack
  <2>5. Owned(m) \in Int /\ lapsed[m] \in Nat
    BY <1>0 DEF TypeOK, Owned
  <2>6. Owned(m)' = Owned(m) /\ lapsed'[m] = lapsed[m]
    BY <2>1
  <2>7. Owned(m)' - lapsed'[m] - Slack(m)' <= Owned(m) - lapsed[m] - Slack(m)
    BY <2>4, <2>5, <2>6
  <2>8. /\ IsFiniteSet(Stale(m)')
        /\ Owned(m)' + Cardinality(Stale(m)') <= lapsed'[m] + Slack(m)'
    BY <1>0, <2>3, <2>5, <2>6, <2>7, Balanced
  <2>9. \A n \in Messages : n # m => /\ IsFiniteSet(Stale(n)')
                                     /\ Owned(n)' + Cardinality(Stale(n)')
                                          <= lapsed'[n] + Slack(n)'
    BY <1>0, <2>1, OthersBudget
  <2> QED
    BY <2>8, <2>9 DEF Budget
<1>4. ASSUME NEW w \in Workers, AcquireNextJob(w) PROVE Budget'
  <2>1. PICK m \in JobCandidates :
          /\ job' = [job EXCEPT ![m].owner = OwnerOf[w], ![m].lease = LeaseDuration,
                                ![m].gen = @ + 1, ![m].attempts = @ + 1]
          /\ worker' = [worker EXCEPT ![w] =
               [pc |-> "leased", m |-> m, gen |-> job[m].gen + 1,
                attempts |-> job[m].attempts + 1, delivery |-> FALSE]]
    BY <1>4 DEF AcquireNextJob
  <2>2. /\ m \in Messages /\ job[m].state = "live" /\ job[m].lease = 0
        /\ worker[w].pc = "idle" /\ UNCHANGED lapsed
        /\ \A n \in Messages : Owned(n)' = Owned(n)
    BY <1>4, <2>1 DEF JobCandidates, AcquireNextJob, Owned
  <2>3. /\ job'[m].state = "live" /\ job'[m].lease = LeaseDuration /\ LeaseDuration > 0
        /\ job'[m].owner = OwnerOf[w] /\ job'[m].gen = job[m].gen + 1 /\ job[m].gen \in Nat
        /\ \A n \in Messages : n # m => job'[n] = job[n]
    BY <1>0, <2>1, <2>2, OutboxAssumption DEF OutboxAssumption, TypeOK, JobRow
  <2>4. /\ worker'[w].pc = "leased" /\ worker'[w].m = m /\ worker'[w].gen = job[m].gen + 1
        /\ \A v \in Workers : v # w => worker'[v] = worker[v]
    BY <1>0, <2>1 DEF TypeOK
  <2>5. HoldsLease(w)'
    BY <2>3, <2>4 DEF HoldsLease
  <2>6. \A v \in Workers : worker[v].pc # "idle" /\ worker[v].m = m => ~HoldsLease(v)
    BY <2>2 DEF HoldsLease
  <2>7. Stale(m)' \subseteq Stale(m)
    BY <2>4, <2>5, <2>6 DEF Stale, Early
  <2>8. ~InFlight(m) /\ ~Abandoned(m)
    BY <2>2 DEF InFlight, Abandoned, HoldsLease
  <2>9. Slack(m) = 0 /\ Slack(m)' \in {0, 1}
    BY <2>2, <2>8 DEF Slack
  <2>10. Owned(m) \in Int /\ lapsed[m] \in Nat
    BY <1>0, <2>2 DEF TypeOK, Owned
  <2>11. Owned(m)' = Owned(m) /\ lapsed'[m] = lapsed[m]
    BY <2>2
  <2>12. Owned(m)' - lapsed'[m] - Slack(m)' <= Owned(m) - lapsed[m] - Slack(m)
    BY <2>9, <2>10, <2>11
  <2>13. /\ IsFiniteSet(Stale(m)')
         /\ Owned(m)' + Cardinality(Stale(m)') <= lapsed'[m] + Slack(m)'
    BY <1>0, <2>2, <2>7, <2>10, <2>11, <2>12, Balanced
  <2>14. ASSUME NEW n \in Messages, n # m
         PROVE  /\ IsFiniteSet(Stale(n)')
                /\ Owned(n)' + Cardinality(Stale(n)') <= lapsed'[n] + Slack(n)'
    <3>1. \A v \in Workers :
            \/ worker'[v] = worker[v]
            \/ /\ worker[v].pc = "idle" \/ worker[v].m # n
               /\ worker'[v].pc = "idle" \/ worker'[v].m # n
      BY <2>2, <2>4, <2>14
    <3> QED
      BY <1>0, <2>2, <2>3, <2>14, <3>1, OthersBudget
  <2> QED
    BY <2>13, <2>14 DEF Budget
<1>5. ASSUME NEW w \in Workers, DispatchSucceeds(w) PROVE Budget'
  <2>0. PICK m \in Messages : worker[w].m = m
    BY <1>0, <1>5 DEF DispatchSucceeds, TypeOK
  <2>1. /\ worker[w].pc \in Early /\ worker[w].pc # "completing"
        /\ accepted' = [accepted EXCEPT ![m] = @ + 1]
        /\ worker' = [worker EXCEPT ![w].pc = "completing"]
        /\ UNCHANGED <<job, disowned, lapsed>>
    BY <1>5, <2>0 DEF DispatchSucceeds, Goto, Early
  <2>2. /\ worker'[w].pc = "completing" /\ worker'[w].m = m
        /\ worker'[w].gen = worker[w].gen
        /\ \A v \in Workers : v # w => worker'[v] = worker[v]
    BY <1>0, <2>0, <2>1 DEF TypeOK, WorkerState
  <2>3. /\ Owned(m) \in Int /\ lapsed[m] \in Nat /\ Owned(m)' = Owned(m) + 1
        /\ lapsed'[m] = lapsed[m]
        /\ \A n \in Messages : n # m => Owned(n)' = Owned(n)
    BY <1>0, <2>1 DEF TypeOK, Owned
  <2>4. \A v \in Workers : HoldsLease(v)' <=> HoldsLease(v)
    BY <2>0, <2>1, <2>2 DEF HoldsLease
  <2>a. Owned(m)' \in Int /\ lapsed'[m] \in Nat
    BY <2>3
  <2>5. Slack(m) \in {0, 1} /\ Slack(m)' \in {0, 1}
    BY DEF Slack
  <2>6. ASSUME HoldsLease(w)
        PROVE  /\ IsFiniteSet(Stale(m)')
               /\ Owned(m)' + Cardinality(Stale(m)') <= lapsed'[m] + Slack(m)'
    <3>1. job[m].state = "live" /\ job[m].lease > 0
      BY <2>0, <2>6 DEF HoldsLease
    <3>2. \A v \in Workers : v # w /\ worker[v].pc # "idle" /\ worker[v].m = m
                               => ~HoldsLease(v)
      BY <2>0, <2>1, <2>6 DEF OneLeaseHolder, Early
    <3>3. ~InFlight(m) /\ ~Abandoned(m)
      BY <2>0, <2>1, <2>6, <3>2 DEF InFlight, Abandoned, Early
    <3>4. InFlight(m)'
      BY <2>0, <2>2, <2>4, <2>6 DEF InFlight
    <3>5. Slack(m) = 0 /\ Slack(m)' = 1
      BY <3>1, <3>3, <3>4 DEF Slack
    <3>6. Stale(m)' \subseteq Stale(m)
      BY <2>0, <2>2, <2>4 DEF Stale, Early
    <3>7. Owned(m)' - lapsed'[m] - Slack(m)' <= Owned(m) - lapsed[m] - Slack(m)
      BY <2>3, <3>5
    <3> QED
      BY <1>0, <2>a, <3>6, <3>7, Balanced
  <2>7. ASSUME ~HoldsLease(w)
        PROVE  /\ IsFiniteSet(Stale(m)')
               /\ Owned(m)' + Cardinality(Stale(m)') <= lapsed'[m] + Slack(m)'
    <3>1. w \in Stale(m) /\ Stale(m)' \subseteq Stale(m) \ {w}
      BY <2>0, <2>1, <2>2, <2>4, <2>7 DEF Stale, Early
    <3>2. InFlight(m) => InFlight(m)'
      BY <2>0, <2>1, <2>2, <2>4 DEF InFlight
    <3>3. Abandoned(m) => Abandoned(m)'
      BY <2>0, <2>1, <2>2, <2>4, <2>7 DEF Abandoned
    <3>4. Slack(m) <= Slack(m)'
      BY <2>0, <2>1, <3>2, <3>3 DEF Slack
    <3>5. Owned(m)' - lapsed'[m] - Slack(m)' <= Owned(m) - lapsed[m] - Slack(m) + 1
      BY <2>3, <2>5, <3>4
    <3> QED
      BY <1>0, <2>a, <3>1, <3>5, Balanced
  <2>8. ASSUME NEW n \in Messages, n # m
        PROVE  /\ IsFiniteSet(Stale(n)')
               /\ Owned(n)' + Cardinality(Stale(n)') <= lapsed'[n] + Slack(n)'
    BY <1>0, <2>0, <2>1, <2>2, <2>3, <2>8, OthersBudget
  <2> QED
    BY <2>6, <2>7, <2>8 DEF Budget
\* The holder of a lease settles its job or puts it back.
<1>6. ASSUME NEW w \in Workers, NEW m \in Messages, worker[w].m = m, HoldsLease(w),
             worker[w].pc \in {"completing", "closing", "failing"},
             worker[w].pc # "failing" => job'[m].state = "completed",
             job'[m].lease = 0, \A n \in Messages : n # m => job'[n] = job[n],
             worker' = [worker EXCEPT ![w] = IdleWorker],
             UNCHANGED lapsed, \A n \in Messages : Owned(n)' = Owned(n)
      PROVE  Budget'
  <2>1. worker'[w].pc = "idle" /\ \A v \in Workers : v # w => worker'[v] = worker[v]
    BY <1>0, <1>6 DEF TypeOK, IdleWorker
  <2>2. \A v \in Workers : v # w /\ worker[v].pc # "idle" /\ worker[v].m = m
                             => ~HoldsLease(v)
    BY <1>6 DEF OneLeaseHolder
  <2>3. Stale(m)' \subseteq Stale(m)
    BY <2>1, <2>2 DEF Stale, Early
  <2>4. job[m].state = "live" /\ Slack(m) \in {0, 1} /\ Slack(m)' \in {0, 1}
    BY <1>6 DEF HoldsLease, Slack
  <2>5. Slack(m) <= Slack(m)'
    <3>1. CASE worker[w].pc = "failing"
      <4>1. ~InFlight(m) /\ ~Abandoned(m)
        BY <1>6, <2>2, <3>1 DEF InFlight, Abandoned
      <4> QED
        BY <2>4, <4>1 DEF Slack
    <3>2. CASE worker[w].pc # "failing"
      BY <1>6, <2>4, <3>2 DEF Slack
    <3> QED
      BY <3>1, <3>2
  <2>6. Owned(m) \in Int /\ lapsed[m] \in Nat
    BY <1>0 DEF TypeOK, Owned
  <2>7. Owned(m)' = Owned(m) /\ lapsed'[m] = lapsed[m]
    BY <1>6
  <2>8. Owned(m)' - lapsed'[m] - Slack(m)' <= Owned(m) - lapsed[m] - Slack(m)
    BY <2>4, <2>5, <2>6, <2>7
  <2>9. /\ IsFiniteSet(Stale(m)')
        /\ Owned(m)' + Cardinality(Stale(m)') <= lapsed'[m] + Slack(m)'
    BY <1>0, <2>3, <2>6, <2>7, <2>8, Balanced
  <2>10. ASSUME NEW n \in Messages, n # m
         PROVE  /\ IsFiniteSet(Stale(n)')
                /\ Owned(n)' + Cardinality(Stale(n)') <= lapsed'[n] + Slack(n)'
    BY <1>0, <1>6, <2>1, <2>10, OthersBudget
  <2> QED
    BY <2>9, <2>10 DEF Budget
<1>7. ASSUME NEW w \in Workers, CompleteOutboxJob(w) PROVE Budget'
  <2> DEFINE m == worker[w].m
  <2>1. /\ m \in Messages /\ worker[w].pc \in {"completing", "closing"}
        /\ worker' = [worker EXCEPT ![w] = IdleWorker] /\ UNCHANGED lapsed
        /\ \A n \in Messages : Owned(n)' = Owned(n)
    BY <1>0, <1>7 DEF CompleteOutboxJob, TypeOK, Owned
  <2>2. CASE UNCHANGED job
    BY <1>0, <2>1, <2>2, RetireBudget
  <2>3. CASE /\ HoldsLease(w)
             /\ job' = [job EXCEPT ![m].state = "completed", ![m].owner = NoOwner,
                                   ![m].lease = 0]
    <3>1. /\ job'[m].state = "completed" /\ job'[m].lease = 0
          /\ \A n \in Messages : n # m => job'[n] = job[n]
      BY <1>0, <2>1, <2>3 DEF TypeOK, JobRow
    <3> QED
      BY <1>6, <2>1, <2>3, <3>1
  <2> QED
    BY <1>7, <2>2, <2>3 DEF CompleteOutboxJob
<1>8. ASSUME NEW w \in Workers, FailOutboxJob(w) PROVE Budget'
  <2> DEFINE m == worker[w].m
  <2>1. /\ m \in Messages /\ worker[w].pc = "failing"
        /\ worker' = [worker EXCEPT ![w] = IdleWorker] /\ UNCHANGED lapsed
        /\ \A n \in Messages : Owned(n)' = Owned(n)
    BY <1>0, <1>8 DEF FailOutboxJob, TypeOK, Owned
  <2>2. CASE UNCHANGED job
    BY <1>0, <2>1, <2>2, RetireBudget
  <2>3. CASE /\ HoldsLease(w)
             /\ job' = [job EXCEPT ![m].state = "dead", ![m].owner = NoOwner,
                                   ![m].lease = 0]
    <3>1. job'[m].lease = 0 /\ \A n \in Messages : n # m => job'[n] = job[n]
      BY <1>0, <2>1, <2>3 DEF TypeOK, JobRow
    <3> QED
      BY <1>6, <2>1, <2>3, <3>1
  <2>4. CASE /\ HoldsLease(w)
             /\ \E d : job' = [job EXCEPT ![m].owner = NoOwner, ![m].lease = 0,
                                         ![m].delay = d]
    <3>1. job'[m].lease = 0 /\ \A n \in Messages : n # m => job'[n] = job[n]
      BY <1>0, <2>1, <2>4 DEF TypeOK, JobRow
    <3> QED
      BY <1>6, <2>1, <2>4, <3>1
  <2> QED
    BY <1>8, <2>2, <2>3, <2>4 DEF FailOutboxJob
<1>9. ASSUME NEW w \in Workers, Abandon(w) PROVE Budget'
  <2>1. \A n \in Messages : Owned(n)' = Owned(n)
    BY <1>9 DEF Abandon, Owned
  <2> QED
    BY <1>0, <1>9, <2>1, RetireBudget DEF Abandon
<1>10. CASE Tick
  <2> SUFFICES ASSUME NEW m \in Messages
               PROVE  /\ IsFiniteSet(Stale(m)')
                      /\ Owned(m)' + Cardinality(Stale(m)') <= lapsed'[m] + Slack(m)'
    BY DEF Budget
  <2>a. UNCHANGED <<accepted, disowned>>
    BY <1>10 DEF Tick
  <2>b. accepted[m] \in Nat /\ disowned[m] \in Nat
    BY <1>0 DEF TypeOK
  <2>0. Owned(m)' = Owned(m) /\ Owned(m) \in Int
    BY <2>a, <2>b DEF Owned
  <2>1. UNCHANGED worker /\ Owned(m)' = Owned(m) /\ Owned(m) \in Int /\ lapsed[m] \in Nat
        /\ lapsed'[m] = IF job[m].lease = 1 THEN lapsed[m] + 1 ELSE lapsed[m]
    BY <1>0, <1>10, <2>0 DEF Tick, LapsingJobs, TypeOK
  <2>2. /\ job[m] \in JobRow
        /\ job'[m] = [job[m] EXCEPT !.delay = Countdown(@), !.lease = Countdown(@)]
    BY <1>0, <1>10 DEF Tick, TypeOK
  <2>3. /\ job[m].lease \in Nat /\ job'[m].lease = Countdown(job[m].lease)
        /\ job'[m].state = job[m].state /\ job'[m].owner = job[m].owner
        /\ job'[m].gen = job[m].gen
    BY <2>2 DEF JobRow
  <2>4. Slack(m) \in {0, 1} /\ Slack(m)' \in {0, 1}
    BY DEF Slack
  <2>5. CASE job[m].lease # 1
    <3>1. job'[m].lease > 0 <=> job[m].lease > 0
      BY <2>3, <2>5 DEF Countdown
    <3>2. \A w \in Workers : worker[w].m = m => (HoldsLease(w)' <=> HoldsLease(w))
      BY <2>1, <2>3, <3>1 DEF HoldsLease
    <3>3. Stale(m)' \subseteq Stale(m)
      BY <2>1, <3>2 DEF Stale
    <3>4. (InFlight(m)' <=> InFlight(m)) /\ (Abandoned(m)' <=> Abandoned(m))
      BY <2>1, <2>3, <3>1, <3>2 DEF InFlight, Abandoned
    <3>5. Slack(m)' = Slack(m)
      BY <2>3, <3>4 DEF Slack
    <3>6. Owned(m)' = Owned(m) /\ lapsed'[m] = lapsed[m]
      BY <2>1, <2>5
    <3>7. Owned(m)' - lapsed'[m] - Slack(m)' <= Owned(m) - lapsed[m] - Slack(m)
      BY <2>1, <2>4, <3>5, <3>6
    <3> QED
      BY <1>0, <2>1, <3>3, <3>6, <3>7, Balanced
  <2>6. CASE job[m].lease = 1
    <3>1. job'[m].lease = 0 /\ Owned(m)' = Owned(m) /\ lapsed'[m] = lapsed[m] + 1
      BY <2>1, <2>3, <2>6 DEF Countdown
    <3>2. job[m].state # "completed"
      BY <2>6 DEF Clocks, Settled
    <3>3. CASE \E w \in Workers : worker[w].pc \in Early /\ worker[w].m = m /\ HoldsLease(w)
      <4>1. PICK w \in Workers : worker[w].pc \in Early /\ worker[w].m = m /\ HoldsLease(w)
        BY <3>3
      <4>2. \A v \in Workers : v # w /\ worker[v].pc # "idle" /\ worker[v].m = m
                                 => ~HoldsLease(v)
        BY <4>1 DEF OneLeaseHolder, Early
      <4>3. Stale(m)' \subseteq Stale(m) \cup {w}
        BY <2>1, <4>2 DEF Stale, Early
      <4>4. ~InFlight(m) /\ ~Abandoned(m)
        BY <4>1, <4>2 DEF InFlight, Abandoned, Early
      <4>5. Slack(m) = 0
        BY <3>2, <4>4 DEF Slack
      <4>6. Owned(m)' - lapsed'[m] - Slack(m)' + 1 <= Owned(m) - lapsed[m] - Slack(m)
        BY <2>1, <2>4, <3>1, <4>5
      <4> QED
        BY <1>0, <2>1, <3>1, <4>3, <4>6, Balanced
    <3>4. CASE ~\E w \in Workers : worker[w].pc \in Early /\ worker[w].m = m
                                     /\ HoldsLease(w)
      <4>1. Stale(m)' \subseteq Stale(m)
        BY <2>1, <3>4 DEF Stale
      <4>2. Owned(m)' - lapsed'[m] - Slack(m)' <= Owned(m) - lapsed[m] - Slack(m)
        BY <2>1, <2>4, <3>1
      <4> QED
        BY <1>0, <2>1, <3>1, <4>1, <4>2, Balanced
    <3> QED
      BY <3>3, <3>4
  <2> QED
    BY <2>5, <2>6
<1>11. CASE UNCHANGED vars
  BY <1>1, <1>11 DEF vars
<1>12. ASSUME NEW w \in Workers, ReadMessage(w) PROVE Budget'
  <2>1. PICK b \in BOOLEAN, s \in Early \cup {"completing", "closing", "failing"} :
          worker' = [worker EXCEPT ![w].delivery = b, ![w].pc = s]
    <3> DEFINE m == worker[w].m
               b == outbox[m].delivery
               s == IF outbox[m].status # "pending" THEN "closing"
                    ELSE IF Kind[m] = "push" THEN "pushing"
                    ELSE IF outbox[m].delivery
                            \/ (m \in Invites /\ WorkerCipher # "absent")
                         THEN "checking" ELSE "sending"
    <3>1. worker' = [worker EXCEPT ![w].delivery = b, ![w].pc = s]
      BY <1>12 DEF ReadMessage
    <3>2. s \in Early \cup {"completing", "closing", "failing"}
      BY DEF Early
    <3>3. b \in BOOLEAN
      BY <1>0, <1>12 DEF ReadMessage, TypeOK, OutboxRow
    <3> HIDE DEF b, s
    <3> QED
      BY <3>1, <3>2, <3>3
  <2>2. worker[w].pc \in Early /\ UNCHANGED <<job, lapsed>>
        /\ \A n \in Messages : Owned(n)' = Owned(n)
    BY <1>12 DEF ReadMessage, Early, Owned
  <2> QED
    BY <1>2, <2>1, <2>2
<1>13. ASSUME NEW w \in Workers,
              \/ ReadMessageFails(w) \/ CheckDelivery(w) \/ CheckFindsExpired(w)
              \/ DispatchFails(w) \/ NothingToPush(w)
       PROVE  Budget'
  <2>0. \A n \in Messages : Owned(n)' = Owned(n)
    <3>1. CASE UNCHANGED <<accepted, disowned>>
      BY <3>1 DEF Owned
    <3>2. CASE DispatchFails(w) /\ ~UNCHANGED <<accepted, disowned>>
      BY <1>0, <3>2 DEF DispatchFails, TypeOK, Owned
    <3> QED
      BY <1>13, <3>1, <3>2 DEF ReadMessageFails, CheckDelivery, CheckFindsExpired,
                               NothingToPush
  <2>1. /\ worker[w].pc \in Early /\ UNCHANGED <<job, lapsed>>
        /\ \A n \in Messages : Owned(n)' = Owned(n)
        /\ \E s \in Early \cup {"completing", "closing", "failing"} :
             worker' = [worker EXCEPT ![w].pc = s]
    BY <1>13, <2>0 DEF ReadMessageFails, CheckDelivery, CheckFindsExpired, DispatchFails,
                       NothingToPush, Goto, Early
  <2> QED
    BY <1>2, <2>1
<1> QED
  BY <1>1, <1>3, <1>4, <1>5, <1>7, <1>8, <1>9, <1>10, <1>11, <1>12, <1>13
     DEF Next, RunOnce, Withdraw

-----------------------------------------------------------------------------
(* How often a message may be sent at all. *)

\* Workers that may still send m.
Senders(m) == {w \in Workers : worker[w].pc \in Early /\ worker[w].m = m}

\* Every lease sends at most once.
Tries ==
  \A m \in Messages :
    /\ IsFiniteSet(Senders(m))
    /\ accepted[m] + Cardinality(Senders(m)) <= job[m].attempts

\* A lease beyond max_attempts follows one that ran out, and the worker that holds a
\* lease knows the attempts of the row.
Retries ==
  /\ \A m \in Messages :
       /\ job[m].attempts <= MaxAttempts + lapsed[m]
       /\ job[m].state \in {"absent", "live"} /\ job[m].lease = 0
            => job[m].attempts < MaxAttempts + lapsed[m]
  /\ \A w \in Workers :
       worker[w].pc # "idle" /\ worker[w].gen = job[worker[w].m].gen
         => worker[w].attempts = job[worker[w].m].attempts

\* A step sends nothing and leases nothing.
LEMMA QuietTries ==
  ASSUME Tries, TypeOK, UNCHANGED accepted,
         \A m \in Messages : job'[m].attempts = job[m].attempts,
         \A v \in Workers : worker'[v].pc \in Early
                              => worker[v].pc \in Early /\ worker'[v].m = worker[v].m
  PROVE  Tries'
<1> SUFFICES ASSUME NEW m \in Messages
             PROVE  /\ IsFiniteSet(Senders(m)')
                    /\ accepted'[m] + Cardinality(Senders(m)') <= job'[m].attempts
  BY DEF Tries
<1>1. Senders(m)' \subseteq Senders(m)
  BY DEF Senders
<1>2. /\ IsFiniteSet(Senders(m)) /\ accepted[m] \in Nat /\ job[m].attempts \in Nat
      /\ accepted[m] + Cardinality(Senders(m)) <= job[m].attempts
  BY DEF Tries, TypeOK, JobRow
<1>3. /\ IsFiniteSet(Senders(m)')
      /\ Cardinality(Senders(m)') <= Cardinality(Senders(m))
      /\ Cardinality(Senders(m)) \in Nat
  BY <1>1, <1>2, FS_Subset, FS_CardinalityType
<1>4. Cardinality(Senders(m)') \in Nat
  BY <1>3, FS_CardinalityType
<1> QED
  BY <1>2, <1>3, <1>4

LEMMA TriesStep == IInv /\ Tries /\ [Next]_vars => Tries'
<1> SUFFICES ASSUME IInv, Tries, [Next]_vars PROVE Tries'
  OBVIOUS
<1>0. TypeOK
  BY DEF IInv
<1>1. CASE UNCHANGED <<job, worker, accepted>>
  BY <1>0, <1>1, QuietTries
<1>2. ASSUME NEW m \in Messages, Enqueue(m) PROVE Tries'
  BY <1>0, <1>2, QuietTries DEF Enqueue, TypeOK, JobRow
<1>3. ASSUME NEW w \in Workers, AcquireNextJob(w) PROVE Tries'
  <2>1. PICK m \in JobCandidates :
          /\ job' = [job EXCEPT ![m].owner = OwnerOf[w], ![m].lease = LeaseDuration,
                                ![m].gen = @ + 1, ![m].attempts = @ + 1]
          /\ worker' = [worker EXCEPT ![w] =
               [pc |-> "leased", m |-> m, gen |-> job[m].gen + 1,
                attempts |-> job[m].attempts + 1, delivery |-> FALSE]]
    BY <1>3 DEF AcquireNextJob
  <2>2. /\ m \in Messages /\ job[m].attempts \in Nat /\ job'[m].attempts = job[m].attempts + 1
        /\ \A n \in Messages : n # m => job'[n] = job[n]
        /\ worker'[w].m = m /\ \A v \in Workers : v # w => worker'[v] = worker[v]
        /\ worker[w].pc = "idle" /\ UNCHANGED accepted
    BY <1>0, <1>3, <2>1 DEF AcquireNextJob, JobCandidates, TypeOK, JobRow
  <2> SUFFICES ASSUME NEW n \in Messages
               PROVE  /\ IsFiniteSet(Senders(n)')
                      /\ accepted'[n] + Cardinality(Senders(n)') <= job'[n].attempts
    BY DEF Tries
  <2>3. /\ IsFiniteSet(Senders(n)) /\ accepted[n] \in Nat /\ job[n].attempts \in Nat
        /\ accepted[n] + Cardinality(Senders(n)) <= job[n].attempts
    BY <1>0 DEF Tries, TypeOK, JobRow
  <2>4. /\ Cardinality(Senders(n)) \in Nat
        /\ n # m => Senders(n)' \subseteq Senders(n)
        /\ Senders(n)' \subseteq Senders(n) \cup {w}
    BY <2>2, <2>3, FS_CardinalityType DEF Senders
  <2>5. CASE n # m
    <3>1. /\ IsFiniteSet(Senders(n)')
          /\ Cardinality(Senders(n)') <= Cardinality(Senders(n))
      BY <2>3, <2>4, <2>5, Counted
    <3>2. Cardinality(Senders(n)') \in Nat
      BY <3>1, FS_CardinalityType
    <3> QED
      BY <2>2, <2>3, <2>4, <2>5, <3>1, <3>2
  <2>6. CASE n = m
    <3>1. /\ IsFiniteSet(Senders(n)')
          /\ Cardinality(Senders(n)') <= Cardinality(Senders(n)) + 1
      BY <2>3, <2>4, Counted
    <3>2. Cardinality(Senders(n)') \in Nat
      BY <3>1, FS_CardinalityType
    <3> QED
      BY <2>2, <2>3, <2>4, <2>6, <3>1, <3>2
  <2> QED
    BY <2>5, <2>6
\* The worker sends, whatever it is told of it.
<1>4. ASSUME NEW w \in Workers, NEW s \in {"completing", "failing"},
             worker[w].pc \in {"sending", "pushing"}, Goto(w, s),
             accepted' = [accepted EXCEPT ![worker[w].m] = @ + 1], UNCHANGED job
      PROVE  Tries'
  <2>1. /\ worker[w].m \in Messages /\ worker'[w].pc = s
        /\ \A v \in Workers : v # w => worker'[v] = worker[v]
        /\ \A v \in Workers : worker'[v].m = worker[v].m
    BY <1>0, <1>4 DEF TypeOK, WorkerState, Goto
  <2> SUFFICES ASSUME NEW n \in Messages
               PROVE  /\ IsFiniteSet(Senders(n)')
                      /\ accepted'[n] + Cardinality(Senders(n)') <= job'[n].attempts
    BY DEF Tries
  <2>2. /\ IsFiniteSet(Senders(n)) /\ accepted[n] \in Nat /\ job[n].attempts \in Nat
        /\ accepted[n] + Cardinality(Senders(n)) <= job[n].attempts
        /\ Cardinality(Senders(n)) \in Nat
    BY <1>0, FS_CardinalityType DEF Tries, TypeOK, JobRow
  <2>3. CASE n # worker[w].m
    <3>1. Senders(n)' \subseteq Senders(n) /\ accepted'[n] = accepted[n]
      BY <1>0, <1>4, <2>1, <2>3 DEF Senders, TypeOK
    <3>2. /\ IsFiniteSet(Senders(n)')
          /\ Cardinality(Senders(n)') <= Cardinality(Senders(n))
      BY <2>2, <3>1, Counted
    <3>3. Cardinality(Senders(n)') \in Nat
      BY <3>2, FS_CardinalityType
    <3> QED
      BY <1>4, <2>2, <3>1, <3>2, <3>3
  <2>4. CASE n = worker[w].m
    <3>1. /\ w \in Senders(n) /\ Senders(n)' \subseteq Senders(n) \ {w}
          /\ accepted'[n] = accepted[n] + 1
      BY <1>0, <1>4, <2>1, <2>4 DEF Senders, Early, TypeOK
    <3>2. /\ IsFiniteSet(Senders(n)')
          /\ Cardinality(Senders(n)') + 1 <= Cardinality(Senders(n))
      BY <2>2, <3>1, Counted
    <3>3. Cardinality(Senders(n)') \in Nat
      BY <3>2, FS_CardinalityType
    <3> QED
      BY <1>4, <2>2, <3>1, <3>2, <3>3
  <2> QED
    BY <2>3, <2>4
<1>5. ASSUME NEW w \in Workers, DispatchSucceeds(w) PROVE Tries'
  BY <1>4, <1>5 DEF DispatchSucceeds
<1>6. ASSUME NEW w \in Workers, UNCHANGED <<job, accepted>>,
             worker[w].pc \in Early,
             \E s, b : \/ worker' = [worker EXCEPT ![w].pc = s]
                       \/ worker' = [worker EXCEPT ![w].delivery = b, ![w].pc = s]
      PROVE  Tries'
  <2>1. \A v \in Workers : worker'[v].pc \in Early
                              => worker[v].pc \in Early /\ worker'[v].m = worker[v].m
    BY <1>0, <1>6 DEF TypeOK, WorkerState
  <2> QED
    BY <1>0, <1>6, <2>1, QuietTries
<1>7. ASSUME NEW w \in Workers, DispatchFails(w) PROVE Tries'
  <2>1. CASE UNCHANGED accepted
    BY <1>6, <1>7, <2>1 DEF DispatchFails, Goto, Early
  <2>2. CASE ~UNCHANGED accepted
    BY <1>4, <1>7, <2>2 DEF DispatchFails
  <2> QED
    BY <2>1, <2>2
<1>8. ASSUME NEW w \in Workers,
             \/ ReadMessageFails(w) \/ CheckDelivery(w) \/ CheckFindsExpired(w)
             \/ NothingToPush(w)
      PROVE  Tries'
  BY <1>6, <1>8
     DEF ReadMessageFails, CheckDelivery, CheckFindsExpired, NothingToPush, Goto, Early
<1>9. ASSUME NEW w \in Workers, ReadMessage(w) PROVE Tries'
  BY <1>6, <1>9 DEF ReadMessage, Early
<1>10. ASSUME NEW w \in Workers, UNCHANGED accepted,
              worker' = [worker EXCEPT ![w] = IdleWorker],
              \A m \in Messages : job'[m].attempts = job[m].attempts
       PROVE  Tries'
  <2>1. \A v \in Workers : worker'[v].pc \in Early
                              => worker[v].pc \in Early /\ worker'[v].m = worker[v].m
    BY <1>0, <1>10 DEF TypeOK, IdleWorker, Early
  <2> QED
    BY <1>0, <1>10, <2>1, QuietTries
<1>11. ASSUME NEW w \in Workers, CompleteOutboxJob(w) PROVE Tries'
  <2>1. \A m \in Messages : job'[m].attempts = job[m].attempts
    BY <1>0, <1>11 DEF CompleteOutboxJob, TypeOK, JobRow
  <2> QED
    BY <1>10, <1>11, <2>1 DEF CompleteOutboxJob
<1>12. ASSUME NEW w \in Workers, FailOutboxJob(w) PROVE Tries'
  <2>1. \A n \in Messages : job'[n].attempts = job[n].attempts
    <3> DEFINE m == worker[w].m
    <3>1. CASE job' = [job EXCEPT ![m].state = "dead", ![m].owner = NoOwner,
                                  ![m].lease = 0]
      BY <1>0, <3>1 DEF TypeOK, JobRow
    <3>2. CASE \E d : job' = [job EXCEPT ![m].owner = NoOwner, ![m].lease = 0,
                                         ![m].delay = d]
      BY <1>0, <3>2 DEF TypeOK, JobRow
    <3> QED
      BY <1>12, <3>1, <3>2 DEF FailOutboxJob
  <2> QED
    BY <1>10, <1>12, <2>1 DEF FailOutboxJob
<1>13. ASSUME NEW w \in Workers, Abandon(w) PROVE Tries'
  BY <1>10, <1>13 DEF Abandon
<1>14. CASE Tick
  <2>1. \A r \in JobRow :
          [r EXCEPT !.delay = Countdown(@), !.lease = Countdown(@)].attempts = r.attempts
    BY DEF JobRow
  <2>2. \A m \in Messages : job'[m].attempts = job[m].attempts
    BY <1>0, <1>14, <2>1 DEF Tick, TypeOK
  <2> QED
    BY <1>0, <1>14, <2>2, QuietTries DEF Tick
<1> QED
  BY <1>1, <1>2, <1>3, <1>5, <1>7, <1>8, <1>9, <1>11, <1>12, <1>13, <1>14
     DEF Next, RunOnce, Withdraw, vars

LEMMA RetriesStep == IInv /\ Retries /\ [Next]_vars => Retries'
<1> SUFFICES ASSUME IInv, Retries, [Next]_vars PROVE Retries'
  OBVIOUS
<1>0. TypeOK /\ Snapshots
  BY DEF IInv
<1>1. ASSUME UNCHANGED <<job, lapsed>>,
             \A w \in Workers : \/ worker'[w].pc = "idle"
                                \/ /\ worker[w].pc # "idle"
                                   /\ worker'[w].m = worker[w].m
                                   /\ worker'[w].gen = worker[w].gen
                                   /\ worker'[w].attempts = worker[w].attempts
      PROVE  Retries'
  BY <1>1 DEF Retries
<1>2. CASE UNCHANGED <<job, worker, lapsed>>
  BY <1>1, <1>2
<1>3. ASSUME NEW m \in Messages, Enqueue(m) PROVE Retries'
  <2>1. /\ job[m].state = "absent" /\ job'[m].lease = job[m].lease
        /\ job'[m].attempts = job[m].attempts
        /\ \A n \in Messages : n # m => job'[n] = job[n]
        /\ UNCHANGED <<worker, lapsed>>
    BY <1>0, <1>3 DEF Enqueue, TypeOK, JobRow
  <2>2. \A v \in Workers : worker[v].pc # "idle" => worker[v].m # m /\ worker[v].m \in Messages
    BY <1>0, <2>1 DEF Snapshots, TypeOK
  <2> QED
    BY <2>1, <2>2 DEF Retries
<1>4. ASSUME NEW w \in Workers, AcquireNextJob(w) PROVE Retries'
  <2>1. PICK m \in JobCandidates :
          /\ job' = [job EXCEPT ![m].owner = OwnerOf[w], ![m].lease = LeaseDuration,
                                ![m].gen = @ + 1, ![m].attempts = @ + 1]
          /\ worker' = [worker EXCEPT ![w] =
               [pc |-> "leased", m |-> m, gen |-> job[m].gen + 1,
                attempts |-> job[m].attempts + 1, delivery |-> FALSE]]
    BY <1>4 DEF AcquireNextJob
  <2>2. /\ m \in Messages /\ job[m].state = "live" /\ job[m].lease = 0
        /\ job[m].gen \in Nat /\ job[m].attempts \in Nat /\ lapsed[m] \in Nat
        /\ MaxAttempts \in Nat /\ job'[m].lease # 0 /\ job'[m].gen = job[m].gen + 1
        /\ job'[m].attempts = job[m].attempts + 1
        /\ \A n \in Messages : n # m => job'[n] = job[n]
        /\ UNCHANGED lapsed
    BY <1>0, <1>4, <2>1, OutboxAssumption
       DEF OutboxAssumption, AcquireNextJob, JobCandidates, TypeOK, JobRow
  <2>3. /\ worker'[w].m = m /\ worker'[w].attempts = job[m].attempts + 1
        /\ \A v \in Workers : v # w => worker'[v] = worker[v]
    BY <1>0, <2>1 DEF TypeOK
  <2>4. \A v \in Workers : worker[v].pc # "idle" =>
          /\ worker[v].m \in Messages /\ worker[v].gen \in Nat
          /\ worker[v].m = m => worker[v].gen <= job[m].gen
    BY <1>0 DEF TypeOK, WorkerState, Snapshots
  <2>5. job'[m].attempts <= MaxAttempts + lapsed'[m]
    BY <2>2 DEF Retries
  <2>6. \A v \in Workers :
          worker'[v].pc # "idle" /\ worker'[v].gen = job'[worker'[v].m].gen
            => worker'[v].attempts = job'[worker'[v].m].attempts
    <3> SUFFICES ASSUME NEW v \in Workers, worker'[v].pc # "idle",
                        worker'[v].gen = job'[worker'[v].m].gen
                 PROVE  worker'[v].attempts = job'[worker'[v].m].attempts
      OBVIOUS
    <3>1. CASE v = w
      BY <2>2, <2>3, <3>1
    <3>2. CASE v # w
      <4>1. worker'[v] = worker[v] /\ worker[v].m # m
        BY <2>2, <2>3, <2>4, <3>2
      <4> QED
        BY <2>2, <2>4, <4>1 DEF Retries
    <3> QED
      BY <3>1, <3>2
  <2> QED
    BY <2>2, <2>5, <2>6 DEF Retries
\* The holder of a lease settles its job, or puts it back with attempts to spare.
<1>5. ASSUME NEW w \in Workers, NEW m \in Messages, worker[w].m = m,
             job'[m].attempts = job[m].attempts, job'[m].gen = job[m].gen,
             \A n \in Messages : n # m => job'[n] = job[n],
             \/ job'[m].state \notin {"absent", "live"}
             \/ job[m].attempts < MaxAttempts,
             worker' = [worker EXCEPT ![w] = IdleWorker], UNCHANGED lapsed
      PROVE  Retries'
  <2>1. /\ job[m].attempts \in Nat /\ lapsed[m] \in Nat /\ MaxAttempts \in Nat
        /\ worker'[w].pc = "idle" /\ \A v \in Workers : v # w => worker'[v] = worker[v]
        /\ \A v \in Workers : worker[v].pc # "idle" => worker[v].m \in Messages
    BY <1>0, <1>5, OutboxAssumption DEF OutboxAssumption, TypeOK, JobRow, IdleWorker
  <2> QED
    BY <1>5, <2>1 DEF Retries
<1>6. ASSUME NEW w \in Workers, worker' = [worker EXCEPT ![w] = IdleWorker],
             UNCHANGED <<job, lapsed>>
      PROVE  Retries'
  <2>1. worker'[w].pc = "idle" /\ \A v \in Workers : v # w => worker'[v] = worker[v]
    BY <1>0, <1>6 DEF TypeOK, IdleWorker
  <2> QED
    BY <1>6, <2>1 DEF Retries
<1>7. ASSUME NEW w \in Workers, CompleteOutboxJob(w) PROVE Retries'
  <2> DEFINE m == worker[w].m
  <2>1. m \in Messages
    BY <1>0, <1>7 DEF CompleteOutboxJob, TypeOK
  <2>2. CASE UNCHANGED job
    BY <1>6, <1>7, <2>2 DEF CompleteOutboxJob
  <2>3. CASE job' = [job EXCEPT ![m].state = "completed", ![m].owner = NoOwner,
                                ![m].lease = 0]
    <3>1. /\ job'[m].state = "completed" /\ job'[m].attempts = job[m].attempts
          /\ job'[m].gen = job[m].gen /\ \A n \in Messages : n # m => job'[n] = job[n]
      BY <1>0, <2>1, <2>3 DEF TypeOK, JobRow
    <3> QED
      BY <1>5, <1>7, <2>1, <3>1 DEF CompleteOutboxJob
  <2> QED
    BY <1>7, <2>2, <2>3 DEF CompleteOutboxJob
<1>8. ASSUME NEW w \in Workers, FailOutboxJob(w) PROVE Retries'
  <2> DEFINE m == worker[w].m
  <2>1. /\ m \in Messages /\ worker[w].attempts \in Nat /\ MaxAttempts \in Nat
        /\ worker[w].pc # "idle"
    BY <1>0, <1>8, OutboxAssumption DEF OutboxAssumption, FailOutboxJob, TypeOK, WorkerState
  <2>2. CASE UNCHANGED job
    BY <1>6, <1>8, <2>2 DEF FailOutboxJob
  <2>3. CASE job' = [job EXCEPT ![m].state = "dead", ![m].owner = NoOwner,
                                ![m].lease = 0]
    <3>1. /\ job'[m].state = "dead" /\ job'[m].attempts = job[m].attempts
          /\ job'[m].gen = job[m].gen /\ \A n \in Messages : n # m => job'[n] = job[n]
      BY <1>0, <2>1, <2>3 DEF TypeOK, JobRow
    <3> QED
      BY <1>5, <1>8, <2>1, <3>1 DEF FailOutboxJob
  <2>4. CASE /\ HoldsLease(w) /\ ~LastAttempt(w)
             /\ \E d : job' = [job EXCEPT ![m].owner = NoOwner, ![m].lease = 0,
                                         ![m].delay = d]
    <3>1. /\ job'[m].attempts = job[m].attempts
          /\ job'[m].gen = job[m].gen /\ \A n \in Messages : n # m => job'[n] = job[n]
      BY <1>0, <2>1, <2>4 DEF TypeOK, JobRow
    <3>2. worker[w].attempts = job[m].attempts
      BY <2>1, <2>4 DEF HoldsLease, Retries
    <3>3. job[m].attempts < MaxAttempts
      BY <2>1, <2>4, <3>2 DEF LastAttempt
    <3> QED
      BY <1>5, <1>8, <2>1, <3>1, <3>3 DEF FailOutboxJob
  <2> QED
    BY <1>8, <2>2, <2>3, <2>4 DEF FailOutboxJob
<1>9. ASSUME NEW w \in Workers, Abandon(w) PROVE Retries'
  BY <1>6, <1>9 DEF Abandon
<1>10. CASE Tick
  <2>1. \A r \in JobRow :
          LET q == [r EXCEPT !.delay = Countdown(@), !.lease = Countdown(@)] IN
          /\ q.state = r.state /\ q.gen = r.gen /\ q.attempts = r.attempts
          /\ q.lease = Countdown(r.lease)
          /\ r.lease \in Nat /\ r.attempts \in Nat
    <3> SUFFICES ASSUME NEW r \in JobRow
                 PROVE  LET q == [r EXCEPT !.delay = Countdown(@), !.lease = Countdown(@)] IN
                        /\ q.state = r.state /\ q.gen = r.gen /\ q.attempts = r.attempts
                        /\ q.lease = Countdown(r.lease)
                        /\ r.lease \in Nat /\ r.attempts \in Nat
      OBVIOUS
    <3> QED
      BY DEF JobRow
  <2>2. \A m \in Messages :
          /\ job[m] \in JobRow
          /\ job'[m] = [job[m] EXCEPT !.delay = Countdown(@), !.lease = Countdown(@)]
          /\ lapsed[m] \in Nat
          /\ lapsed'[m] = IF job[m].lease = 1 THEN lapsed[m] + 1 ELSE lapsed[m]
    BY <1>0, <1>10 DEF Tick, LapsingJobs, TypeOK
  <2>3. ASSUME NEW m \in Messages
        PROVE  /\ job'[m].state = job[m].state /\ job'[m].gen = job[m].gen
               /\ job'[m].attempts = job[m].attempts
               /\ job'[m].lease = Countdown(job[m].lease)
               /\ job[m].lease \in Nat /\ job[m].attempts \in Nat
    <3>1. /\ job[m] \in JobRow
          /\ job'[m] = [job[m] EXCEPT !.delay = Countdown(@), !.lease = Countdown(@)]
      BY <2>2
    <3> QED
      BY <2>1, <3>1
  <2>4. MaxAttempts \in Nat
    BY OutboxAssumption DEF OutboxAssumption
  <2>5. ASSUME NEW m \in Messages
        PROVE  /\ job'[m].attempts <= MaxAttempts + lapsed'[m]
               /\ job'[m].state \in {"absent", "live"} /\ job'[m].lease = 0
                    => job'[m].attempts < MaxAttempts + lapsed'[m]
    <3>1. /\ job'[m].state = job[m].state /\ job'[m].attempts = job[m].attempts
          /\ job'[m].lease = Countdown(job[m].lease)
          /\ job[m].lease \in Nat /\ job[m].attempts \in Nat /\ lapsed[m] \in Nat
          /\ lapsed'[m] = IF job[m].lease = 1 THEN lapsed[m] + 1 ELSE lapsed[m]
      BY <2>2, <2>3
    <3>2. /\ job[m].attempts <= MaxAttempts + lapsed[m]
          /\ job[m].state \in {"absent", "live"} /\ job[m].lease = 0
               => job[m].attempts < MaxAttempts + lapsed[m]
      BY DEF Retries
    <3>3. /\ job[m].lease > 1 => job'[m].lease > 0
          /\ job[m].lease = 0 => job'[m].lease = 0
      BY <3>1 DEF Countdown
    <3> QED
      BY <2>4, <3>1, <3>2, <3>3
  <2>6. UNCHANGED worker /\ \A w \in Workers : worker[w].pc # "idle" => worker[w].m \in Messages
    BY <1>0, <1>10 DEF Tick, TypeOK
  <2> QED
    BY <2>3, <2>5, <2>6 DEF Retries
<1>11. ASSUME NEW w \in Workers, UNCHANGED <<job, lapsed>>, worker[w].pc # "idle",
              \E s, b : \/ worker' = [worker EXCEPT ![w].pc = s]
                        \/ worker' = [worker EXCEPT ![w].delivery = b, ![w].pc = s]
       PROVE  Retries'
  <2>1. \A v \in Workers : \/ worker[v].pc = "idle" /\ worker'[v] = worker[v]
                           \/ /\ worker[v].pc # "idle"
                              /\ worker'[v].m = worker[v].m
                              /\ worker'[v].gen = worker[v].gen
                              /\ worker'[v].attempts = worker[v].attempts
    BY <1>0, <1>11 DEF TypeOK, WorkerState
  <2> QED
    BY <1>1, <1>11, <2>1
<1>12. ASSUME NEW w \in Workers,
              \/ ReadMessageFails(w) \/ CheckDelivery(w) \/ CheckFindsExpired(w)
              \/ DispatchSucceeds(w) \/ DispatchFails(w) \/ NothingToPush(w)
       PROVE  Retries'
  BY <1>11, <1>12
     DEF ReadMessageFails, CheckDelivery, CheckFindsExpired, DispatchSucceeds,
         DispatchFails, NothingToPush, Goto
<1>13. ASSUME NEW w \in Workers, ReadMessage(w) PROVE Retries'
  BY <1>11, <1>13 DEF ReadMessage
<1> QED
  BY <1>2, <1>3, <1>4, <1>7, <1>8, <1>9, <1>10, <1>12, <1>13
     DEF Next, RunOnce, Withdraw, vars

\* Every send beyond the one recorded has a cause, and leases bound them all.
THEOREM DuplicatesAreBounded == Spec => []DuplicatesHaveCause
<1>1. Init => Clocks /\ Budget /\ Tries /\ Retries
  <2> SUFFICES ASSUME Init PROVE Clocks /\ Budget /\ Tries /\ Retries
    OBVIOUS
  <2>1. ASSUME NEW m \in Messages
        PROVE  /\ job[m].state = "absent" /\ job[m].lease = 0 /\ job[m].delay = 0
               /\ job[m].attempts = 0 /\ accepted[m] = 0 /\ Owned(m) = 0
               /\ lapsed[m] = 0 /\ Stale(m) = {} /\ Senders(m) = {}
    BY DEF Init, Stale, Senders, Early, IdleWorker, Owned
  <2>2. IsFiniteSet({}) /\ Cardinality({}) = 0
    BY FS_EmptySet
  <2>3. \A m \in Messages : Slack(m) \in {0, 1}
    BY DEF Slack
  <2>4. Clocks
    BY <2>1 DEF Clocks, Settled
  <2>5. Budget
    <3> SUFFICES ASSUME NEW m \in Messages
                 PROVE  /\ IsFiniteSet(Stale(m))
                        /\ Owned(m) + Cardinality(Stale(m)) <= lapsed[m] + Slack(m)
      BY DEF Budget
    <3>1. Stale(m) = {} /\ Owned(m) = 0 /\ lapsed[m] = 0 /\ Slack(m) \in {0, 1}
      BY <2>1, <2>3
    <3> QED
      BY <2>2, <3>1
  <2>6. Tries
    <3> SUFFICES ASSUME NEW m \in Messages
                 PROVE  /\ IsFiniteSet(Senders(m))
                        /\ accepted[m] + Cardinality(Senders(m)) <= job[m].attempts
      BY DEF Tries
    <3>1. Senders(m) = {} /\ accepted[m] = 0 /\ job[m].attempts = 0
      BY <2>1
    <3> QED
      BY <2>2, <3>1
  <2>7. Retries
    <3>1. MaxAttempts \in Nat \ {0} /\ \A w \in Workers : worker[w].pc = "idle"
      BY OutboxAssumption DEF OutboxAssumption, Init, IdleWorker
    <3> QED
      BY <2>1, <3>1 DEF Retries
  <2> QED
    BY <2>4, <2>5, <2>6, <2>7
<1>2. IInv /\ Budget /\ Tries /\ Retries => DuplicatesHaveCause
  <2> SUFFICES ASSUME IInv, Budget, Tries, Retries, NEW m \in Messages
               PROVE  /\ accepted[m] <= lapsed[m] + disowned[m] + Slack(m)
                      /\ accepted[m] <= MaxAttempts + lapsed[m]
    BY DEF DuplicatesHaveCause, Slack
  <2>1. /\ accepted[m] \in Nat /\ disowned[m] \in Nat /\ lapsed[m] \in Nat
        /\ Slack(m) \in {0, 1} /\ job[m].attempts \in Nat /\ MaxAttempts \in Nat
    BY OutboxAssumption DEF OutboxAssumption, IInv, TypeOK, JobRow, Slack
  <2>2. /\ Cardinality(Stale(m)) \in Nat
        /\ accepted[m] - disowned[m] + Cardinality(Stale(m)) <= lapsed[m] + Slack(m)
    BY FS_CardinalityType DEF Budget, Owned
  <2>3. /\ Cardinality(Senders(m)) \in Nat
        /\ accepted[m] + Cardinality(Senders(m)) <= job[m].attempts
    BY FS_CardinalityType DEF Tries
  <2>4. job[m].attempts <= MaxAttempts + lapsed[m]
    BY DEF Retries
  <2> QED
    BY <2>1, <2>2, <2>3, <2>4
<1> QED
  BY <1>1, <1>2, BudgetStep, ClocksStep, TriesStep, RetriesStep, Invariance,
     LeaseIsExclusive, PTL DEF Spec

-----------------------------------------------------------------------------
(* Notifications, whose dispatches are jobs of the outbox. *)

\* The lock of the house lets one dispatch in.
OneDispatch ==
  \A v, w \in Dispatchers : v \in Dispatching /\ w \in Dispatching => v = w

\* What a worker has found out about its delivery still holds.
DispatchSound(q) ==
  /\ q.pc \in {"authorized", "sending"} => q.u \in member
  /\ q.pc # "idle" => delivery[q.u][q.o].state # "absent" /\ delivery[q.u][q.o].due
  /\ q.pc \in {"ready", "authorized"} => q.ending = {}
  /\ q.pc = "completing" => delivery[q.u][q.o].state = "dispatched" \/ q.u \in departed
  /\ q.pc = "sending" =>
       /\ q.todo \subseteq q.held /\ q.ending \subseteq q.held /\ q.todo \cap q.ending = {}
       /\ \A d \in q.held : Owner[d] = q.u /\ sub[d].state = "active"
       /\ \A o \in q.rows : delivery[q.u][o].state = "waiting"
       /\ q.o \in q.rows \/ delivery[q.u][q.o].state = "dispatched"

DispatchesSound == OneDispatch /\ \A w \in Dispatchers : DispatchSound(run[w])

\* Who is told, or about to be, is a member or was one; a trigger comes with a delivery.
Known == member \cup departed
PlansSound ==
  \A u \in Users, o \in Occasions :
    /\ u \in asked[o] \/ delivery[u][o].state # "absent" => u \in Known
    /\ trigger[u][o].state # "absent" => delivery[u][o].state # "absent"

\* A registration encrypts under the id of the row, or under its own: then it found none
\* of its device, so the row there may be is of another registration.
RegistrationSound(r) ==
  LET s == sub[reg[r].device] IN
  reg[r].pc = "read" =>
    \/ s.state # "absent" /\ reg[r].id = s.id
    \/ reg[r].id = r /\ (s.state = "absent" \/ s.id \in Registrations)
Readable(d) ==
  LET s == sub[d] IN
  s.state = "active" /\ s.sealed # s.id =>
    /\ s.id \in Registrations /\ s.sealed \in Registrations
    /\ reg[s.sealed].id = s.sealed /\ reg[s.sealed].pc = "done"

\* A row that was stored has an id.
Rowed(d) == sub[d].state # "absent" => sub[d].id \in Ids

SubscriptionsSound ==
  /\ \A r \in Registrations : RegistrationSound(r)
  /\ \A d \in Devices : Readable(d) /\ Rowed(d)

\* A device was told once at most, and if its delivery is still waiting then by the
\* dispatch under way.
Telling(w, d, o) ==
  /\ run[w].pc = "sending" /\ run[w].u = Owner[d]
  /\ o \in Wanted(w) /\ d \in Accepted(w)
ToldSound(d, o) ==
  \/ <<d, o>> \in undone
  \/ /\ pushes[d][o] <= 1
     /\ pushes[d][o] > 0 => \/ delivery[Owner[d]][o].state = "dispatched"
                            \/ \E w \in Dispatchers : Telling(w, d, o)
Told == \A d \in Devices, o \in Occasions : ToldSound(d, o)

NotificationsIInv ==
  /\ NotificationsTypeOK
  /\ DispatchesSound /\ PlansSound /\ NothingStranded
  /\ SubscriptionsSound /\ Told

LEMMA NotificationsInitHolds == NotificationsInit => NotificationsIInv
<1> SUFFICES ASSUME NotificationsInit PROVE NotificationsIInv
  OBVIOUS
<1>1. /\ run \in [Dispatchers -> Run] /\ \A w \in Dispatchers : run[w].pc = "idle"
  BY DEF NotificationsInit, IdleRun, Run
<1>2. /\ reg \in [Registrations -> Registration]
      /\ \A r \in Registrations : reg[r].pc = "unused"
  BY DEF NotificationsInit, Registration, Ids
<1>3. /\ sub \in [Devices -> Subscription]
      /\ \A d \in Devices : /\ sub[d].state = "active" => sub[d].sealed = sub[d].id
                            /\ sub[d].state # "absent" => sub[d].id \in Ids
  BY DEF NotificationsInit, Ids
<1>4. prefs \in [Users -> Preferences]
  BY DEF NotificationsInit, Preferences
<1>5. /\ delivery \in [Users -> [Occasions -> Delivery]]
      /\ trigger \in [Users -> [Occasions -> Trigger]]
      /\ \A u \in Users, o \in Occasions : /\ delivery[u][o].state = "absent"
                                           /\ trigger[u][o].state = "absent"
  BY DEF NotificationsInit, Delivery, Trigger
<1>6. 0 \in 0..MaxUpsets /\ 0 \in 0..(MaxUpsets - 0)
  BY NotificationsAssumption DEF NotificationsAssumption
<1>7. NotificationsTypeOK
  BY <1>1, <1>2, <1>3, <1>4, <1>5, <1>6 DEF NotificationsInit, NotificationsTypeOK
<1>8. DispatchesSound
  BY <1>1 DEF DispatchesSound, OneDispatch, DispatchSound, Dispatching
<1>9. PlansSound /\ NothingStranded
  BY <1>5 DEF NotificationsInit, PlansSound, NothingStranded
<1>10. SubscriptionsSound
  BY <1>2, <1>3 DEF SubscriptionsSound, RegistrationSound, Readable, Rowed
<1>11. Told
  BY DEF NotificationsInit, Told, ToldSound
<1> QED
  BY <1>7, <1>8, <1>9, <1>10, <1>11 DEF NotificationsIInv

\* A step of the house: whom a dispatch is for does not leave.
LEMMA HouseMoves ==
  ASSUME NotificationsIInv, UNCHANGED <<sub, reg, delivery, trigger, asked, run, pushes, undone>>,
         \A w \in Dispatching : run[w].u \in member => run[w].u \in member',
         Known \subseteq Known', departed \subseteq departed', NotificationsTypeOK'
  PROVE  NotificationsIInv'
<1> USE DEF NotificationsIInv
<1>1. Dispatching' = Dispatching
  BY DEF Dispatching
<1>2. DispatchesSound'
  BY <1>1 DEF DispatchesSound, OneDispatch, DispatchSound, Dispatching
<1>3. PlansSound' /\ NothingStranded'
  BY DEF PlansSound, NothingStranded
<1>4. SubscriptionsSound'
  BY DEF SubscriptionsSound, RegistrationSound, Readable, Rowed
<1>5. Told'
  BY DEF Told, ToldSound, Telling, Accepted, Wanted
<1> QED
  BY <1>2, <1>3, <1>4, <1>5

LEMMA NoticesHouse ==
  ASSUME NotificationsIInv, NEW u \in Users,
         RemoveMember(u) \/ AcceptInvitation(u) \/ PutPreferences(u)
  PROVE  NotificationsIInv'
<1> USE DEF NotificationsIInv
<1>1. UNCHANGED <<sub, reg, delivery, trigger, asked, run, pushes, undone>>
  BY DEF RemoveMember, AcceptInvitation, PutPreferences,
         planning, history
<1>2. changes' \in 0..MaxUpsets /\ lapses' \in 0..(MaxUpsets - changes')
  BY NotificationsAssumption DEF RemoveMember, AcceptInvitation, PutPreferences,
         Changed, NotificationsTypeOK, NotificationsAssumption
<1>3. prefs' \in [Users -> Preferences]
  BY DEF RemoveMember, AcceptInvitation, PutPreferences,
         NotificationsTypeOK
<1>4. /\ member' \subseteq Users /\ departed' \subseteq Users
      /\ Known \subseteq Known' /\ departed \subseteq departed'
      /\ \A w \in Dispatching : run[w].u \in member => run[w].u \in member'
  BY DEF RemoveMember, AcceptInvitation, PutPreferences,
         history, NotificationsTypeOK, Known
<1>5. NotificationsTypeOK'
  BY <1>1, <1>2, <1>3, <1>4 DEF NotificationsTypeOK
<1> QED
  BY <1>1, <1>4, <1>5, HouseMoves

\* A step of subscriptions: a dispatch keeps the devices it holds.
LEMMA SubscriptionsMove ==
  ASSUME NotificationsIInv,
         UNCHANGED <<member, departed, delivery, trigger, asked, run, pushes, undone>>,
         \A w \in Dispatchers, d \in Devices :
           run[w].pc = "sending" /\ d \in run[w].held => sub'[d] = sub[d],
         SubscriptionsSound', NotificationsTypeOK'
  PROVE  NotificationsIInv'
<1> USE DEF NotificationsIInv
<1>1. Dispatching' = Dispatching
  BY DEF Dispatching
<1>2. \A w \in Dispatchers : run[w].held \subseteq Devices
  BY DEF NotificationsTypeOK, Run
<1>3. DispatchesSound'
  BY <1>1, <1>2 DEF DispatchesSound, OneDispatch, DispatchSound
<1>4. PlansSound' /\ NothingStranded'
  BY DEF PlansSound, Known, NothingStranded
<1>5. Told'
  BY DEF Told, ToldSound, Telling, Accepted, Wanted
<1> QED
  BY <1>3, <1>4, <1>5

\* A device a dispatch holds may not be written.
LEMMA HeldIsKept ==
  ASSUME NotificationsIInv, NEW d \in Devices, MayWrite(d), NEW w \in Dispatchers,
         run[w].pc = "sending"
  PROVE  d \notin run[w].held
<1>1. w \in Dispatching
  BY DEF Dispatching
<1> QED
  BY <1>1 DEF MayWrite

LEMMA NoticesSubscriptions ==
  ASSUME NotificationsIInv,
         \/ \E r \in Registrations : \/ FindSubscription(r)
                                     \/ UpsertSubscription(r)
         \/ \E d \in Devices : RevokeSubscription(d)
  PROVE  NotificationsIInv'
<1> USE DEF NotificationsIInv
<1>1. ASSUME NEW r \in Registrations, FindSubscription(r) PROVE NotificationsIInv'
  <2>1. PICK d \in Devices :
          reg' = [reg EXCEPT ![r] = [pc |-> "read", device |-> d,
                    id |-> IF sub[d].state = "absent" THEN r ELSE sub[d].id]]
    BY <1>1 DEF FindSubscription
  <2>2. /\ UNCHANGED <<member, departed, prefs, sub, delivery, trigger, asked, run, pushes,
                       undone, lapses>>
        /\ reg[r].pc = "unused"
    BY <1>1 DEF FindSubscription, planning, history
  <2>3. changes' \in 0..MaxUpsets /\ lapses' \in 0..(MaxUpsets - changes')
    BY <1>1, <2>2, NotificationsAssumption
    DEF FindSubscription, FirstOrChanged, Changed, NotificationsTypeOK,
        NotificationsAssumption
  <2>a. sub[d].id = NoId \/ sub[d].id \in Ids
    BY DEF NotificationsTypeOK, Subscription
  <2>b. sub[d].state # "absent" => sub[d].id \in Ids
    BY DEF SubscriptionsSound, Rowed
  <2>4. reg' \in [Registrations -> Registration]
    BY <2>1, <2>b DEF NotificationsTypeOK, Registration, Ids
  <2>5. NotificationsTypeOK'
    BY <2>2, <2>3, <2>4 DEF NotificationsTypeOK
  <2>6. SubscriptionsSound'
    <3>1. /\ reg'[r].pc = "read" /\ reg'[r].device = d
          /\ reg'[r].id = IF sub[d].state = "absent" THEN r ELSE sub[d].id
          /\ \A q \in Registrations : q # r => reg'[q] = reg[q]
      BY <2>1 DEF NotificationsTypeOK
    <3>2. RegistrationSound(r)'
      BY <2>2, <3>1 DEF RegistrationSound
    <3>3. \A q \in Registrations : q # r => RegistrationSound(q)'
      BY <2>2, <3>1 DEF SubscriptionsSound, RegistrationSound
    <3>4. \A c \in Devices : Readable(c)'
      BY <2>2, <3>1 DEF SubscriptionsSound, Readable
    <3>5. \A c \in Devices : Rowed(c)'
      BY <2>2 DEF SubscriptionsSound, Rowed
    <3> QED
      BY <3>2, <3>3, <3>4, <3>5 DEF SubscriptionsSound
  <2> QED
    BY <2>2, <2>5, <2>6, SubscriptionsMove
<1>2. ASSUME NEW r \in Registrations, UpsertSubscription(r) PROVE NotificationsIInv'
  <2>0. PICK d \in Devices : reg[r].device = d /\ reg[r].id \in Ids
    BY DEF NotificationsTypeOK, Registration
  <2> DEFINE id == IF sub[d].state = "absent" THEN reg[r].id ELSE sub[d].id
  <2>1. /\ reg[r].pc = "read" /\ MayWrite(d)
        /\ sub' = [sub EXCEPT ![d] = [state |-> "active", sealed |-> reg[r].id, id |-> id]]
        /\ reg' = [reg EXCEPT ![r].pc = "done"]
        /\ UNCHANGED <<member, departed, prefs, delivery, trigger, asked, run, pushes,
                       undone, changes, lapses>>
    BY <1>2, <2>0 DEF UpsertSubscription, planning, history
  <2>2. id \in Ids
    BY <2>0 DEF SubscriptionsSound, Rowed
  <2>3. \/ id = reg[r].id
        \/ reg[r].id = r /\ id \in Registrations
    BY <2>0, <2>1 DEF SubscriptionsSound, RegistrationSound
  <2>4. sub[d].state = "absent" => reg[r].id = r
    BY <2>0, <2>1 DEF SubscriptionsSound, RegistrationSound
  <2>5. sub[d].state # "absent" => id = sub[d].id
    OBVIOUS
  <2> HIDE DEF id
  <2>6. /\ sub'[d].state = "active" /\ sub'[d].sealed = reg[r].id /\ sub'[d].id = id
        /\ \A c \in Devices : c # d => sub'[c] = sub[c]
    BY <2>0, <2>1 DEF NotificationsTypeOK
  <2>7. /\ reg'[r].pc = "done" /\ reg'[r].id = reg[r].id /\ reg'[r].device = d
        /\ \A q \in Registrations : q # r => reg'[q] = reg[q]
        /\ reg' \in [Registrations -> Registration]
    BY <2>0, <2>1 DEF NotificationsTypeOK, Registration
  <2>8. sub' \in [Devices -> Subscription]
    BY <2>0, <2>1, <2>2 DEF NotificationsTypeOK, Subscription
  <2>9. NotificationsTypeOK'
    BY <2>1, <2>7, <2>8 DEF NotificationsTypeOK
  <2>10. \A q \in Registrations : RegistrationSound(q)'
    <3> SUFFICES ASSUME NEW q \in Registrations, q # r, reg[q].pc = "read"
                 PROVE  RegistrationSound(q)'
      BY <2>7 DEF RegistrationSound
    <3>1. reg'[q] = reg[q] /\ reg[q].device \in Devices /\ RegistrationSound(q)
      BY <2>7 DEF SubscriptionsSound, NotificationsTypeOK, Registration
    <3>2. CASE reg[q].device # d
      BY <2>6, <3>1, <3>2 DEF RegistrationSound
    <3>3. CASE reg[q].device = d /\ sub[d].state = "absent"
      <4>1. reg[q].id = q /\ sub'[d].id \in Registrations
        BY <2>3, <2>4, <2>6, <3>1, <3>3 DEF RegistrationSound
      <4> QED
        BY <3>1, <3>3, <4>1 DEF RegistrationSound
    <3>4. CASE reg[q].device = d /\ sub[d].state # "absent"
      BY <2>5, <2>6, <3>1, <3>4 DEF RegistrationSound
    <3> QED
      BY <3>2, <3>3, <3>4
  <2>11. \A c \in Devices : Readable(c)'
    <3>1. Readable(d)'
      BY <2>3, <2>6, <2>7 DEF Readable
    <3>2. \A c \in Devices : c # d => Readable(c)'
      BY <2>6, <2>7 DEF Readable, SubscriptionsSound
    <3> QED
      BY <3>1, <3>2
  <2>12. \A c \in Devices : Rowed(c)'
    BY <2>2, <2>6 DEF Rowed, SubscriptionsSound
  <2>13. \A w \in Dispatchers, c \in Devices :
           run[w].pc = "sending" /\ c \in run[w].held => sub'[c] = sub[c]
    BY <2>0, <2>1, <2>6, HeldIsKept
  <2> QED
    BY <2>1, <2>9, <2>10, <2>11, <2>12, <2>13, SubscriptionsMove DEF SubscriptionsSound
<1>3. ASSUME NEW d \in Devices, RevokeSubscription(d) PROVE NotificationsIInv'
  <2>1. /\ Dispatching = {} /\ sub[d].state = "active"
        /\ sub' = [sub EXCEPT ![d].state = "revoked", ![d].sealed = NoId]
        /\ UNCHANGED <<member, departed, prefs, reg, delivery, trigger, asked, run, pushes,
                       undone, changes, lapses>>
    BY <1>3 DEF RevokeSubscription, planning, history
  <2>2. sub[d] \in Subscription
    BY DEF NotificationsTypeOK
  <2>3. /\ sub'[d].state = "revoked" /\ sub'[d].id = sub[d].id
        /\ \A c \in Devices : c # d => sub'[c] = sub[c]
        /\ sub' \in [Devices -> Subscription]
    BY <2>1, <2>2 DEF NotificationsTypeOK, Subscription
  <2>4. NotificationsTypeOK'
    BY <2>1, <2>3 DEF NotificationsTypeOK
  <2>5. ASSUME NEW r \in Registrations PROVE RegistrationSound(r)'
    <3>1. PICK c \in Devices : reg[r].device = c
      BY DEF NotificationsTypeOK, Registration
    <3>2. /\ sub'[c].state = "absent" => sub[c].state = "absent"
          /\ sub[c].state = "absent" => sub'[c].state = "absent"
          /\ sub'[c].id = sub[c].id
      BY <2>1, <2>3
    <3>3. RegistrationSound(r)
      BY DEF SubscriptionsSound
    <3> QED
      BY <2>1, <3>1, <3>2, <3>3 DEF RegistrationSound
  <2>6. \A c \in Devices : Readable(c)' /\ Rowed(c)'
    BY <2>1, <2>3 DEF SubscriptionsSound, Readable, Rowed
  <2>7. \A w \in Dispatchers : run[w].pc # "sending"
    BY <2>1 DEF Dispatching
  <2> QED
    BY <2>1, <2>4, <2>5, <2>6, <2>7, SubscriptionsMove DEF SubscriptionsSound
<1> QED
  BY <1>1, <1>2, <1>3

\* A step of planning: a delivery that is there stays, and stays due.
LEMMA PlansMove ==
  ASSUME NotificationsIInv, UNCHANGED <<member, departed, sub, reg, run, pushes, undone>>,
         \A u \in Users, o \in Occasions :
           \/ delivery[u][o].state = "absent"
           \/ /\ delivery'[u][o].state = delivery[u][o].state
              /\ delivery[u][o].due => delivery'[u][o].due,
         PlansSound', NothingStranded', NotificationsTypeOK'
  PROVE  NotificationsIInv'
<1> USE DEF NotificationsIInv
<1>1. Dispatching' = Dispatching
  BY DEF Dispatching
<1>2. \A w \in Dispatchers :
        /\ run[w].rows \subseteq Occasions /\ run[w].held \subseteq Devices
        /\ run[w].pc # "idle" => run[w].u \in Users /\ run[w].o \in Occasions
  BY DEF NotificationsTypeOK, Run
<1>3. DispatchesSound'
  <2>1. ASSUME NEW w \in Dispatchers PROVE DispatchSound(run[w])'
    <3>1. DispatchSound(run[w])
      BY DEF DispatchesSound
    <3>2. CASE run[w].pc = "idle"
      BY <3>2 DEF DispatchSound, Dispatching
    <3>3. CASE run[w].pc # "idle"
      <4>1. run[w].u \in Users /\ run[w].o \in Occasions /\ run[w].rows \subseteq Occasions
        BY <1>2, <3>3
      <4> QED
        BY <1>1, <3>1, <3>3, <4>1 DEF DispatchSound
    <3> QED
      BY <3>2, <3>3
  <2> QED
    BY <1>1, <2>1 DEF DispatchesSound, OneDispatch
<1>4. SubscriptionsSound'
  BY DEF SubscriptionsSound, RegistrationSound, Readable, Rowed
<1>5. Told'
  <2> SUFFICES ASSUME NEW d \in Devices, NEW o \in Occasions PROVE ToldSound(d, o)'
    BY DEF Told
  <2>1. Owner[d] \in Users /\ ToldSound(d, o)
    BY NotificationsAssumption DEF NotificationsAssumption, Told
  <2> QED
    BY <2>1 DEF ToldSound, Telling, Accepted, Wanted
<1> QED
  BY <1>3, <1>4, <1>5

LEMMA NoticesPlans ==
  ASSUME NotificationsIInv,
         \/ \E o \in Occasions : SelectAudience(o) \/ EnqueueTx(o)
         \/ \E u \in Users, o \in Occasions : BecomeDue(u, o)
  PROVE  NotificationsIInv'
<1> USE DEF NotificationsIInv
<1>1. ASSUME NEW o \in Occasions, SelectAudience(o) PROVE NotificationsIInv'
  <2>1. /\ asked' = [asked EXCEPT ![o] = {u \in member : Category[o] \in prefs[u].enabled}]
        /\ UNCHANGED <<member, prefs, departed, changes, sub, reg, delivery, trigger, run,
                       pushes, undone, lapses>>
    BY <1>1 DEF SelectAudience, house
  <2>2. \A p \in Occasions : asked'[p] = IF p = o
          THEN {u \in member : Category[o] \in prefs[u].enabled} ELSE asked[p]
    BY <2>1 DEF NotificationsTypeOK
  <2>3. asked' \in [Occasions -> SUBSET Users]
    BY <2>1 DEF NotificationsTypeOK
  <2>4. NotificationsTypeOK'
    BY <2>1, <2>3 DEF NotificationsTypeOK
  <2>5. PlansSound' /\ NothingStranded'
    BY <2>1, <2>2 DEF PlansSound, Known, NothingStranded
  <2> QED
    BY <2>1, <2>4, <2>5, PlansMove
<1>2. ASSUME NEW o \in Occasions, EnqueueTx(o) PROVE NotificationsIInv'
  <2> DEFINE New(u) == u \in asked[o] /\ delivery[u][o].state = "absent"
  <2>1. /\ delivery' = [u \in Users |-> IF New(u) THEN [delivery[u] EXCEPT ![o] =
                           [state |-> "waiting", digest |-> prefs[u].digest, due |-> FALSE]]
                         ELSE delivery[u]]
        /\ trigger' = [u \in Users |-> IF New(u) THEN [trigger[u] EXCEPT ![o] =
                           [state |-> "pending", holder |-> NoWorker, attempts |-> 0]]
                         ELSE trigger[u]]
        /\ asked' = [asked EXCEPT ![o] = {}]
        /\ UNCHANGED <<member, prefs, departed, changes, sub, reg, run, pushes, undone,
                       lapses>>
    BY <1>2 DEF EnqueueTx, Planned, house
  <2> HIDE DEF New
  <2>2. ASSUME NEW u \in Users
        PROVE  /\ prefs[u].digest \in BOOLEAN
               /\ [state |-> "waiting", digest |-> prefs[u].digest, due |-> FALSE]
                    \in Delivery
               /\ [state |-> "pending", holder |-> NoWorker, attempts |-> 0]
                    \in Trigger
    BY DEF NotificationsTypeOK, Preferences, Delivery, Trigger
  <2>3. ASSUME NEW u \in Users
        PROVE  /\ delivery'[u] \in [Occasions -> Delivery]
               /\ trigger'[u] \in [Occasions -> Trigger]
    BY <2>1, <2>2 DEF NotificationsTypeOK
  <2>4. ASSUME NEW u \in Users, NEW p \in Occasions
        PROVE  /\ p = o /\ New(u) => /\ delivery'[u][p].state = "waiting"
                                     /\ trigger'[u][p].state = "pending"
               /\ ~(p = o /\ New(u)) => /\ delivery'[u][p] = delivery[u][p]
                                        /\ trigger'[u][p] = trigger[u][p]
    BY <2>1 DEF NotificationsTypeOK
  <2>5. /\ delivery' \in [Users -> [Occasions -> Delivery]]
        /\ trigger' \in [Users -> [Occasions -> Trigger]]
    BY <2>1, <2>3
  <2>6. asked' \in [Occasions -> SUBSET Users]
        /\ \A p \in Occasions : asked'[p] \subseteq asked[p]
    BY <2>1 DEF NotificationsTypeOK
  <2>7. NotificationsTypeOK'
    BY <2>1, <2>5, <2>6 DEF NotificationsTypeOK
  <2>8. PlansSound'
    <3> SUFFICES ASSUME NEW u \in Users, NEW p \in Occasions
                 PROVE  /\ u \in asked'[p] \/ delivery'[u][p].state # "absent" => u \in Known
                        /\ trigger'[u][p].state # "absent"
                             => delivery'[u][p].state # "absent"
      BY <2>1 DEF PlansSound, Known
    <3>1. /\ u \in asked[p] \/ delivery[u][p].state # "absent" => u \in Known
          /\ trigger[u][p].state # "absent" => delivery[u][p].state # "absent"
      BY DEF PlansSound
    <3> QED
      BY <2>4, <2>6, <3>1 DEF New
  <2>9. NothingStranded'
    BY <2>1, <2>4 DEF NothingStranded
  <2>10. \A u \in Users, p \in Occasions :
          \/ delivery[u][p].state = "absent"
          \/ /\ delivery'[u][p].state = delivery[u][p].state
             /\ delivery[u][p].due => delivery'[u][p].due
    BY <2>4 DEF New
  <2> QED
    BY <2>1, <2>7, <2>8, <2>9, <2>10, PlansMove
<1>3. ASSUME NEW u \in Users, NEW o \in Occasions, BecomeDue(u, o)
      PROVE  NotificationsIInv'
  <2>1. /\ delivery' = [delivery EXCEPT ![u][o].due = TRUE]
        /\ UNCHANGED <<member, prefs, departed, changes, sub, reg, trigger, asked, run,
                       pushes, undone, lapses>>
    BY <1>3 DEF BecomeDue, house
  <2>2. ASSUME NEW v \in Users, NEW p \in Occasions
        PROVE  /\ delivery'[v][p] \in Delivery
               /\ delivery'[v][p].state = delivery[v][p].state
               /\ delivery[v][p].due => delivery'[v][p].due
    <3>1. delivery[v][p] \in Delivery
      BY DEF NotificationsTypeOK
    <3>2. \/ delivery'[v][p] = delivery[v][p]
          \/ delivery'[v][p] = [delivery[v][p] EXCEPT !.due = TRUE]
      BY <2>1 DEF NotificationsTypeOK
    <3> QED
      BY <3>1, <3>2 DEF Delivery
  <2>3. delivery' \in [Users -> [Occasions -> Delivery]]
    <3>1. \A v \in Users : delivery'[v] \in [Occasions -> Delivery]
      <4> SUFFICES ASSUME NEW v \in Users
                   PROVE  delivery'[v] \in [Occasions -> Delivery]
        OBVIOUS
      <4>1. delivery'[v] = [p \in Occasions |-> delivery'[v][p]]
        BY <2>1 DEF NotificationsTypeOK
      <4> QED
        BY <2>2, <4>1
    <3> QED
      BY <2>1, <3>1 DEF NotificationsTypeOK
  <2>4. NotificationsTypeOK'
    BY <2>1, <2>3 DEF NotificationsTypeOK
  <2>5. PlansSound' /\ NothingStranded'
    BY <2>1, <2>2 DEF PlansSound, Known, NothingStranded
  <2> QED
    BY <2>1, <2>2, <2>4, <2>5, PlansMove
<1> QED
  BY <1>1, <1>2, <1>3

\* A step of a worker that pushes nothing and commits nothing.
LEMMA RunMoves ==
  ASSUME NotificationsIInv, NEW w \in Dispatchers, NEW q \in Run,
         run' = [run EXCEPT ![w] = q],
         UNCHANGED <<member, departed, prefs, changes, sub, reg, delivery, asked, pushes>>,
         undone \subseteq undone', undone' \subseteq Devices \X Occasions,
         lapses' \in 0..(MaxUpsets - changes),
         trigger' \in [Users -> [Occasions -> Trigger]],
         \A u \in Users, o \in Occasions :
           trigger[u][o].state = "absent" => trigger'[u][o].state = "absent",
         NothingStranded',
         q.pc # "idle" => q.u \in Users /\ q.o \in Occasions,
         q.pc \in {"authorized", "sending"} =>
           w \in Dispatching \/ Dispatching = {},
         DispatchSound(q),
         run[w].pc = "sending" =>
           \/ /\ q.pc = "sending" /\ q.u = run[w].u /\ q.rows = run[w].rows
              /\ q.enabled = run[w].enabled /\ q.held = run[w].held
              /\ q.todo \cup q.ending \subseteq run[w].todo \cup run[w].ending
           \/ Accepted(w) \X Wanted(w) \subseteq undone'
  PROVE  NotificationsIInv'
<1> USE DEF NotificationsIInv
<1>1. run'[w] = q /\ \A v \in Dispatchers : v # w => run'[v] = run[v]
  BY DEF NotificationsTypeOK
<1>2. NotificationsTypeOK'
  <2>1. run' \in [Dispatchers -> Run]
    BY DEF NotificationsTypeOK
  <2> QED
    BY <1>1, <2>1 DEF NotificationsTypeOK
<1>3. DispatchesSound'
  <2>1. \A v \in Dispatchers : DispatchSound(run[v])'
    BY <1>1 DEF DispatchesSound, DispatchSound
  <2>2. OneDispatch'
    BY <1>1 DEF DispatchesSound, OneDispatch, Dispatching
  <2> QED
    BY <2>1, <2>2 DEF DispatchesSound
<1>4. PlansSound'
  BY DEF PlansSound, Known
<1>5. SubscriptionsSound'
  BY DEF SubscriptionsSound, RegistrationSound, Readable, Rowed
<1>6. Told'
  <2> SUFFICES ASSUME NEW d \in Devices, NEW o \in Occasions,
                      <<d, o>> \notin undone'
               PROVE  /\ pushes[d][o] <= 1
                      /\ pushes[d][o] > 0 => \/ delivery[Owner[d]][o].state = "dispatched"
                                             \/ \E v \in Dispatchers : Telling(v, d, o)'
    BY DEF Told, ToldSound
  <2>1. /\ pushes[d][o] <= 1
        /\ pushes[d][o] > 0 => \/ delivery[Owner[d]][o].state = "dispatched"
                               \/ \E v \in Dispatchers : Telling(v, d, o)
    BY DEF Told, ToldSound
  <2>2. ASSUME NEW v \in Dispatchers, Telling(v, d, o) PROVE Telling(v, d, o)'
    <3>1. CASE v # w
      BY <1>1, <2>2, <3>1 DEF Telling, Accepted, Wanted
    <3>2. CASE v = w
      BY <1>1, <2>2, <3>2 DEF Telling, Accepted, Wanted
    <3> QED
      BY <3>1, <3>2
  <2> QED
    BY <2>1, <2>2
<1> QED
  BY <1>2, <1>3, <1>4, <1>5, <1>6

\* Going back to idle.
LEMMA IdleIsSound ==
  /\ IdleRun \in Run /\ IdleRun.pc = "idle"
  /\ DispatchSound(IdleRun)
BY DEF IdleRun, Run, DispatchSound

\* A worker leaves a dispatch it has not committed.
LEMMA RollsBack ==
  ASSUME NotificationsIInv, NEW w \in Dispatchers, run[w].pc # "idle", RollBack(w)
  PROVE  /\ undone \subseteq undone' /\ undone' \subseteq Devices \X Occasions
         /\ Accepted(w) \X Wanted(w) \subseteq undone'
BY DEF NotificationsIInv, RollBack, Accepted, Wanted, NotificationsTypeOK, Run

LEMMA NoticesStart ==
  ASSUME NotificationsIInv, NEW w \in Dispatchers, Start(w) PROVE NotificationsIInv'
<1> USE DEF NotificationsIInv
<1>1. PICK u \in Users, o \in Occasions :
        /\ trigger[u][o].state = "pending" /\ delivery[u][o].due
        /\ trigger' = [trigger EXCEPT ![u][o].holder = w, ![u][o].attempts = @ + 1]
        /\ run' = [run EXCEPT ![w] = [IdleRun EXCEPT !.pc = "ready", !.u = u,
                     !.o = o, !.attempts = trigger[u][o].attempts + 1]]
        /\ \/ changes + lapses < MaxUpsets /\ lapses' = lapses + 1
           \/ UNCHANGED lapses
  BY DEF Start
<1>2. /\ run[w].pc = "idle"
      /\ UNCHANGED <<member, departed, prefs, changes, sub, reg, delivery, asked, pushes,
                     undone>>
  BY DEF Start, house
<1>3. trigger[u][o] \in Trigger /\ trigger[u][o].attempts \in Nat
  BY DEF NotificationsTypeOK, Trigger
<1> DEFINE q == [IdleRun EXCEPT !.pc = "ready", !.u = u, !.o = o,
                   !.attempts = trigger[u][o].attempts + 1]
<1>a. \A r \in Run, n \in Nat :
        [[[[r EXCEPT !.pc = "ready"] EXCEPT !.u = u] EXCEPT !.o = o] EXCEPT !.attempts = n]
          \in Run
  BY DEF Run
<1>4. /\ q \in Run /\ q.pc = "ready" /\ q.u = u /\ q.o = o /\ q.ending = {}
  <2>1. q.pc = "ready" /\ q.u = u /\ q.o = o /\ q.ending = {}
    BY DEF IdleRun
  <2>2. trigger[u][o].attempts + 1 \in Nat
    BY <1>3
  <2> QED
    BY <1>a, <2>1, <2>2, IdleIsSound
<1> HIDE DEF q
<1>5. lapses' \in 0..(MaxUpsets - changes)
  BY <1>1, NotificationsAssumption DEF NotificationsTypeOK, NotificationsAssumption
<1>6. ASSUME NEW v \in Users, NEW p \in Occasions
      PROVE  /\ trigger'[v][p] \in Trigger
             /\ trigger'[v][p].state = trigger[v][p].state
  <2>1. trigger[v][p] \in Trigger
    BY DEF NotificationsTypeOK
  <2>2. \/ trigger'[v][p] = trigger[v][p]
        \/ trigger'[v][p] = [[trigger[v][p] EXCEPT !.holder = w]
                              EXCEPT !.attempts = trigger[v][p].attempts + 1]
    BY <1>1, <1>3 DEF NotificationsTypeOK, Trigger
  <2>3. [trigger[v][p] EXCEPT !.holder = w] \in Trigger
    BY <2>1 DEF Trigger
  <2>4. \A r \in Trigger, n \in Nat : /\ [r EXCEPT !.attempts = n] \in Trigger
                                              /\ [r EXCEPT !.attempts = n].state = r.state
    BY DEF Trigger
  <2>5. [trigger[v][p] EXCEPT !.holder = w].state = trigger[v][p].state
    BY <2>1 DEF Trigger
  <2>6. trigger[v][p].attempts + 1 \in Nat
    BY <2>1 DEF Trigger
  <2>7. CASE trigger'[v][p] = [[trigger[v][p] EXCEPT !.holder = w]
                               EXCEPT !.attempts = trigger[v][p].attempts + 1]
    <3> DEFINE r == [trigger[v][p] EXCEPT !.holder = w]
               n == trigger[v][p].attempts + 1
    <3>1. r \in Trigger /\ n \in Nat /\ r.state = trigger[v][p].state
      BY <2>3, <2>5, <2>6
    <3>2. trigger'[v][p] = [r EXCEPT !.attempts = n]
      BY <2>7
    <3> HIDE DEF r, n
    <3> QED
      BY <2>4, <3>1, <3>2
  <2> QED
    BY <2>1, <2>2, <2>7
<1>7. trigger' \in [Users -> [Occasions -> Trigger]]
  <2>1. \A v \in Users : trigger'[v] = [p \in Occasions |-> trigger'[v][p]]
    BY <1>1 DEF NotificationsTypeOK
  <2>2. \A v \in Users : trigger'[v] \in [Occasions -> Trigger]
    BY <1>6, <2>1
  <2> QED
    BY <1>1, <2>2 DEF NotificationsTypeOK
<1>8. NothingStranded'
  BY <1>2, <1>6 DEF NothingStranded
<1>9. DispatchSound(q)
  BY <1>1, <1>4 DEF DispatchSound, PlansSound
<1>10. undone \subseteq undone' /\ undone' \subseteq Devices \X Occasions
  BY <1>2 DEF NotificationsTypeOK
<1>11. run' = [run EXCEPT ![w] = q]
  BY <1>1 DEF q
<1> QED
  BY <1>2, <1>4, <1>5, <1>6, <1>7, <1>8, <1>9, <1>10, <1>11, RunMoves

\* A worker settles its trigger, if its lease is the last.
LEMMA NoticesSettle ==
  ASSUME NotificationsIInv, NEW w \in Dispatchers, Complete(w) \/ Fail(w)
  PROVE  NotificationsIInv'
<1> USE DEF NotificationsIInv
<1>1. PICK u \in Users, o \in Occasions : run[w].u = u /\ run[w].o = o
  BY DEF NotificationsTypeOK, Complete, Fail
<1>2. /\ run' = [run EXCEPT ![w] = IdleRun] /\ run[w].pc # "sending"
      /\ UNCHANGED <<member, departed, prefs, changes, sub, reg, delivery, asked, pushes,
                     undone, lapses>>
  BY DEF Complete, Fail, Settle, Idle, house
<1>3. PICK state \in {"dispatched", "pending", "dead_lettered"} :
        /\ state = "dispatched" => run[w].pc = "completing"
        /\ \/ UNCHANGED trigger
           \/ /\ trigger[u][o].state = "pending"
              /\ trigger' = [trigger EXCEPT ![u][o].state = state, ![u][o].holder = NoWorker]
  BY <1>1 DEF Complete, Fail, Settle, HoldsTrigger
<1>4. ASSUME NEW v \in Users, NEW p \in Occasions
      PROVE  /\ trigger'[v][p] \in Trigger
             /\ \/ trigger'[v][p].state = trigger[v][p].state
                \/ /\ v = u /\ p = o /\ trigger[v][p].state = "pending"
                   /\ trigger'[v][p].state = state
  <2>1. trigger[v][p] \in Trigger
    BY DEF NotificationsTypeOK
  <2>2. \/ trigger'[v][p] = trigger[v][p]
        \/ /\ trigger'[v][p] = [[trigger[v][p] EXCEPT !.state = state]
                                  EXCEPT !.holder = NoWorker]
           /\ v = u /\ p = o /\ trigger[v][p].state = "pending"
    <3>1. CASE v = u /\ p = o
      <4>1. CASE UNCHANGED trigger
        BY <4>1
      <4>2. CASE /\ trigger[u][o].state = "pending"
                 /\ trigger' = [trigger EXCEPT ![u][o].state = state,
                                              ![u][o].holder = NoWorker]
        <5>1. trigger'[u][o] = [[trigger[u][o] EXCEPT !.state = state]
                                EXCEPT !.holder = NoWorker]
          BY <4>2 DEF NotificationsTypeOK, Trigger
        <5> QED
          BY <3>1, <4>2, <5>1
      <4> QED
        BY <1>3, <4>1, <4>2
    <3>2. CASE v # u \/ p # o
      BY <1>3, <3>2 DEF NotificationsTypeOK
    <3> QED
      BY <3>1, <3>2
  <2> QED
    BY <2>1, <2>2 DEF Trigger
<1>5. trigger' \in [Users -> [Occasions -> Trigger]]
  <2>1. CASE UNCHANGED trigger
    BY <2>1 DEF NotificationsTypeOK
  <2>2. CASE trigger' = [trigger EXCEPT ![u][o].state = state, ![u][o].holder = NoWorker]
    <3>1. \A v \in Users : trigger'[v] = [p \in Occasions |-> trigger'[v][p]]
      BY <2>2 DEF NotificationsTypeOK
    <3>2. \A v \in Users : trigger'[v] \in [Occasions -> Trigger]
      BY <1>4, <3>1
    <3> QED
      BY <2>2, <3>2 DEF NotificationsTypeOK
  <2> QED
    BY <1>3, <2>1, <2>2
<1>6. NothingStranded'
  <2> SUFFICES ASSUME NEW v \in Users, NEW p \in Occasions,
                      delivery[v][p].state = "waiting", v \notin departed
               PROVE  trigger'[v][p].state \in {"pending", "dead_lettered"}
    BY <1>2 DEF NothingStranded
  <2>1. trigger[v][p].state \in {"pending", "dead_lettered"}
    BY DEF NothingStranded
  <2>2. v = u /\ p = o => run[w].pc # "completing"
    BY <1>1 DEF DispatchesSound, DispatchSound
  <2> QED
    BY <1>3, <1>4, <2>1, <2>2
<1>7. /\ undone \subseteq undone' /\ undone' \subseteq Devices \X Occasions
      /\ lapses' \in 0..(MaxUpsets - changes)
  BY <1>2 DEF NotificationsTypeOK
<1>8. \A v \in Users, p \in Occasions :
        trigger[v][p].state = "absent" => trigger'[v][p].state = "absent"
  BY <1>4
<1> QED
  BY <1>2, <1>5, <1>6, <1>7, <1>8, IdleIsSound, RunMoves

\* The steps of a worker up to the commit, and the end of a dispatch without one.
LEMMA NoticesRun ==
  ASSUME NotificationsIInv, NEW w \in Dispatchers,
         \/ Authorize(w) \/ SelectRows(w) \/ Quarantine(w)
         \/ DispatchRollsBack(w) \/ Crash(w)
  PROVE  NotificationsIInv'
<1> USE DEF NotificationsIInv
<1>1. /\ run[w] \in Run /\ run[w].pc # "idle" /\ DispatchSound(run[w])
      /\ run[w].u \in Users /\ run[w].o \in Occasions
  BY DEF NotificationsTypeOK, DispatchesSound, Authorize, SelectRows,
         Quarantine, DispatchRollsBack, Crash
<1>2. /\ UNCHANGED <<member, departed, prefs, changes, sub, reg, delivery, asked, pushes,
                     trigger>>
      /\ lapses' \in 0..(MaxUpsets - changes)
  BY NotificationsAssumption DEF Authorize, SelectRows, Quarantine, DispatchRollsBack,
         Crash, house, planning, NotificationsTypeOK,
         NotificationsAssumption
<1>3. /\ trigger' \in [Users -> [Occasions -> Trigger]]
      /\ \A u \in Users, o \in Occasions :
           trigger[u][o].state = "absent" => trigger'[u][o].state = "absent"
      /\ NothingStranded'
  BY <1>2 DEF NotificationsTypeOK, NothingStranded
<1>4. ASSUME UNCHANGED undone
      PROVE  undone \subseteq undone' /\ undone' \subseteq Devices \X Occasions
  BY <1>4 DEF NotificationsTypeOK
<1>5. CASE Authorize(w)
  <2>1. UNCHANGED undone /\ run[w].pc = "ready" /\ Dispatching = {}
    BY <1>5 DEF Authorize
  <2>2. CASE run[w].u \in member
    <3> DEFINE q == [run[w] EXCEPT !.pc = "authorized", !.enabled = prefs[run[w].u].enabled]
    <3>1. prefs[run[w].u].enabled \in SUBSET Categories
      BY <1>1 DEF NotificationsTypeOK, Preferences
    <3>2. /\ q \in Run /\ q.pc = "authorized" /\ q.u = run[w].u /\ q.o = run[w].o
          /\ q.ending = run[w].ending
      BY <1>1, <3>1 DEF Run
    <3>3. run' = [run EXCEPT ![w] = q]
      BY <1>5, <2>2 DEF Authorize, NotificationsTypeOK
    <3> HIDE DEF q
    <3>4. DispatchSound(q)
      BY <1>1, <2>1, <2>2, <3>2 DEF DispatchSound
    <3> QED
      BY <1>1, <1>2, <1>3, <1>4, <2>1, <3>2, <3>3, <3>4, RunMoves
  <2>3. CASE run[w].u \notin member
    <3> DEFINE q == [run[w] EXCEPT !.pc = "completing"]
    <3>1. /\ q \in Run /\ q.pc = "completing" /\ q.u = run[w].u /\ q.o = run[w].o
      BY <1>1 DEF Run
    <3>2. run' = [run EXCEPT ![w] = q]
      BY <1>5, <2>3 DEF Authorize, NotificationsTypeOK
    <3> HIDE DEF q
    <3>3. DispatchSound(q)
      BY <1>1, <2>3, <3>1 DEF DispatchSound, PlansSound, Known
    <3> QED
      BY <1>1, <1>2, <1>3, <1>4, <2>1, <3>1, <3>2, <3>3, RunMoves
  <2> QED
    BY <2>2, <2>3
<1>6. CASE SelectRows(w)
  <2> DEFINE u == run[w].u
             o == run[w].o
             rows == DueRows(w)
             targets == Targets(w)
  <2>1. UNCHANGED undone /\ run[w].pc = "authorized" /\ w \in Dispatching
    BY <1>6 DEF SelectRows, Dispatching
  <2>2. /\ delivery[u][o] \in Delivery /\ delivery[u][o].state # "absent"
        /\ delivery[u][o].due
    BY <1>1, <2>1 DEF NotificationsTypeOK, DispatchSound
  <2>3. /\ rows \subseteq Occasions
        /\ \A p \in rows : delivery[u][p].state = "waiting"
        /\ delivery[u][o].state = "waiting" => o \in rows
    BY <1>1, <2>2 DEF DueRows
  <2>4. /\ targets \subseteq Devices
        /\ \A d \in targets : Owner[d] = u /\ sub[d].state = "active"
    BY DEF Targets, DevicesOf
  <2>5. o \in rows \/ delivery[u][o].state = "dispatched"
    BY <2>2, <2>3 DEF Delivery
  <2>6. CASE rows = {}
    <3> DEFINE q == [run[w] EXCEPT !.pc = "completing"]
    <3>1. /\ q \in Run /\ q.pc = "completing" /\ q.u = run[w].u /\ q.o = run[w].o
      BY <1>1 DEF Run
    <3>2. run' = [run EXCEPT ![w] = q]
      BY <1>6, <2>6 DEF SelectRows, NotificationsTypeOK
    <3>3. delivery[u][o].state = "dispatched"
      BY <2>5, <2>6
    <3> HIDE DEF q
    <3>4. DispatchSound(q)
      BY <2>2, <3>1, <3>3 DEF DispatchSound
    <3> QED
      BY <1>1, <1>2, <1>3, <1>4, <2>1, <3>1, <3>2, <3>4, RunMoves
  <2>7. CASE rows # {}
    <3> DEFINE q == [run[w] EXCEPT !.pc = "sending", !.rows = rows, !.todo = targets,
                                   !.held = targets]
    <3>1. run' = [run EXCEPT ![w] = q]
      BY <1>6, <2>7 DEF SelectRows, NotificationsTypeOK
    <3> HIDE DEF rows, targets
    <3>2. /\ q \in Run /\ q.pc = "sending" /\ q.u = u /\ q.o = o
          /\ q.rows = rows /\ q.todo = targets /\ q.held = targets
          /\ q.ending = run[w].ending
      BY <1>1, <2>3, <2>4 DEF Run
    <3> HIDE DEF q
    <3>3. DispatchSound(q)
      BY <1>1, <2>1, <2>2, <2>3, <2>4, <2>5, <3>2 DEF DispatchSound
    <3> QED
      BY <1>1, <1>2, <1>3, <1>4, <2>1, <3>1, <3>2, <3>3, RunMoves
  <2> QED
    BY <2>6, <2>7
<1>7. CASE Quarantine(w)
  <2>1. PICK d \in run[w].todo :
          run' = [run EXCEPT ![w].todo = @ \ {d}, ![w].ending = @ \cup {d}]
    BY <1>7 DEF Quarantine
  <2>2. UNCHANGED undone /\ run[w].pc = "sending" /\ w \in Dispatching
    BY <1>7 DEF Quarantine, Dispatching
  <2> DEFINE q == [run[w] EXCEPT !.todo = run[w].todo \ {d},
                                 !.ending = run[w].ending \cup {d}]
  <2>3. /\ q \in Run /\ q.pc = "sending" /\ q.u = run[w].u /\ q.o = run[w].o
        /\ q.rows = run[w].rows /\ q.todo = run[w].todo \ {d} /\ q.held = run[w].held
        /\ q.ending = run[w].ending \cup {d} /\ q.enabled = run[w].enabled
    BY <1>1, <2>2 DEF Run
  <2>4. run' = [run EXCEPT ![w] = q]
    BY <1>1, <2>1 DEF NotificationsTypeOK, Run
  <2> HIDE DEF q
  <2>5. DispatchSound(q)
    BY <1>1, <2>2, <2>3 DEF DispatchSound
  <2> QED
    BY <1>1, <1>2, <1>3, <1>4, <2>2, <2>3, <2>4, <2>5, RunMoves
<1>8. CASE DispatchRollsBack(w)
  <2> DEFINE q == [run[w] EXCEPT !.pc = "failing"]
  <2>1. /\ q \in Run /\ q.pc = "failing" /\ q.u = run[w].u /\ q.o = run[w].o
    BY <1>1 DEF Run
  <2>2. run' = [run EXCEPT ![w] = q]
    BY <1>8 DEF DispatchRollsBack, GoesTo, NotificationsTypeOK
  <2> HIDE DEF q
  <2>3. DispatchSound(q)
    BY <1>1, <2>1 DEF DispatchSound
  <2>4. /\ undone \subseteq undone' /\ undone' \subseteq Devices \X Occasions
        /\ Accepted(w) \X Wanted(w) \subseteq undone'
    BY <1>1, <1>8, RollsBack DEF DispatchRollsBack
  <2> QED
    BY <1>1, <1>2, <1>3, <2>1, <2>2, <2>3, <2>4, RunMoves
<1>9. CASE Crash(w)
  <2>1. run' = [run EXCEPT ![w] = IdleRun]
    BY <1>9 DEF Crash, Idle
  <2>2. CASE run[w].pc = "sending"
    <3>1. /\ undone \subseteq undone' /\ undone' \subseteq Devices \X Occasions
          /\ Accepted(w) \X Wanted(w) \subseteq undone'
      BY <1>1, <1>9, <2>2, RollsBack DEF Crash
    <3> QED
      BY <1>2, <1>3, <2>1, <3>1, IdleIsSound, RunMoves
  <2>3. CASE run[w].pc # "sending"
    <3>1. UNCHANGED undone
      BY <1>9, <2>3 DEF Crash
    <3> QED
      BY <1>2, <1>3, <1>4, <2>1, <2>3, <3>1, IdleIsSound, RunMoves
  <2> QED
    BY <2>2, <2>3
<1> QED
  BY <1>5, <1>6, <1>7, <1>8, <1>9

\* A push: nobody else is dispatching, so the device has not been told before.
LEMMA NoticesPush ==
  ASSUME NotificationsIInv, NEW w \in Dispatchers, Push(w) PROVE NotificationsIInv'
<1> USE DEF NotificationsIInv
<1>1. /\ run[w] \in Run /\ run[w].pc = "sending" /\ w \in Dispatching
      /\ run[w].u \in Users /\ run[w].o \in Occasions /\ DispatchSound(run[w])
  BY DEF Push, Dispatching, NotificationsTypeOK, DispatchesSound
<1>2. PICK d \in run[w].todo :
        \/ /\ run' = [run EXCEPT ![w].todo = @ \ {d}, ![w].ending = @ \cup {d}]
           /\ UNCHANGED pushes
        \/ /\ run' = [run EXCEPT ![w].todo = @ \ {d}]
           /\ pushes' = [pushes EXCEPT ![d] = [o \in Occasions |->
                IF o \in Wanted(w) THEN @[o] + 1 ELSE @[o]]]
  BY DEF Push
<1>3. UNCHANGED <<member, departed, prefs, changes, sub, reg, delivery, trigger, asked,
                  undone, lapses>>
  BY DEF Push, house, planning
<1>4. d \in Devices /\ Owner[d] = run[w].u
  BY <1>1, <1>2 DEF DispatchSound, Run
<1>5. PICK q \in Run :
        /\ run' = [run EXCEPT ![w] = q] /\ q.pc = "sending" /\ q.u = run[w].u
        /\ q.o = run[w].o /\ q.rows = run[w].rows /\ q.todo = run[w].todo \ {d}
        /\ q.held = run[w].held /\ q.ending \subseteq run[w].ending \cup {d}
        /\ q.enabled = run[w].enabled
        /\ UNCHANGED pushes \/ q.ending = run[w].ending
  <2>1. CASE run' = [run EXCEPT ![w].todo = @ \ {d}]
    <3> DEFINE q == [run[w] EXCEPT !.todo = run[w].todo \ {d}]
    <3>1. /\ q \in Run /\ q.pc = "sending" /\ q.u = run[w].u /\ q.o = run[w].o
          /\ q.rows = run[w].rows /\ q.todo = run[w].todo \ {d} /\ q.held = run[w].held
          /\ q.ending = run[w].ending /\ q.enabled = run[w].enabled
      BY <1>1 DEF Run
    <3>2. run' = [run EXCEPT ![w] = q]
      BY <1>1, <2>1 DEF NotificationsTypeOK, Run
    <3> HIDE DEF q
    <3> QED
      BY <3>1, <3>2
  <2>2. CASE UNCHANGED pushes /\ run' = [run EXCEPT ![w].todo = @ \ {d},
                                                  ![w].ending = @ \cup {d}]
    <3> DEFINE q == [run[w] EXCEPT !.todo = run[w].todo \ {d},
                                   !.ending = run[w].ending \cup {d}]
    <3>1. /\ q \in Run /\ q.pc = "sending" /\ q.u = run[w].u /\ q.o = run[w].o
          /\ q.rows = run[w].rows /\ q.todo = run[w].todo \ {d} /\ q.held = run[w].held
          /\ q.ending = run[w].ending \cup {d} /\ q.enabled = run[w].enabled
      BY <1>1, <1>4 DEF Run
    <3>2. run' = [run EXCEPT ![w] = q]
      BY <1>1, <2>2 DEF NotificationsTypeOK, Run
    <3> HIDE DEF q
    <3> QED
      BY <2>2, <3>1, <3>2
  <2> QED
    BY <1>2, <2>1, <2>2
<1>6. run'[w] = q /\ \A v \in Dispatchers : v # w => run'[v] = run[v]
  BY <1>5 DEF NotificationsTypeOK
<1>7. ASSUME NEW c \in Devices, NEW o \in Occasions
      PROVE  /\ pushes[c][o] \in Nat /\ pushes'[c][o] \in Nat
             /\ pushes'[c][o] # pushes[c][o] =>
                  c = d /\ o \in Wanted(w) /\ pushes'[c][o] = pushes[c][o] + 1
  BY <1>2 DEF NotificationsTypeOK
<1>8. NotificationsTypeOK'
  <2>1. run' \in [Dispatchers -> Run]
    BY <1>5 DEF NotificationsTypeOK
  <2>2. pushes' \in [Devices -> [Occasions -> Nat]]
    <3>1. CASE UNCHANGED pushes
      BY <3>1 DEF NotificationsTypeOK
    <3>2. CASE pushes' = [pushes EXCEPT ![d] = [o \in Occasions |->
                 IF o \in Wanted(w) THEN @[o] + 1 ELSE @[o]]]
      <4>1. \A o \in Occasions : pushes[d][o] \in Nat /\ pushes[d][o] + 1 \in Nat
        BY <1>4 DEF NotificationsTypeOK
      <4>2. [o \in Occasions |-> IF o \in Wanted(w) THEN pushes[d][o] + 1
                                 ELSE pushes[d][o]] \in [Occasions -> Nat]
        BY <4>1
      <4> QED
        BY <3>2, <4>2 DEF NotificationsTypeOK
    <3> QED
      BY <1>2, <3>1, <3>2
  <2> QED
    BY <1>1, <1>3, <1>5, <1>6, <2>1, <2>2 DEF NotificationsTypeOK
<1>9. DispatchesSound'
  <2>a. DispatchSound(q)
    BY <1>1, <1>2, <1>5 DEF DispatchSound
  <2>1. \A v \in Dispatchers : DispatchSound(run[v])'
    BY <1>3, <1>6, <2>a DEF DispatchesSound, DispatchSound
  <2>2. OneDispatch'
    BY <1>1, <1>5, <1>6 DEF DispatchesSound, OneDispatch, Dispatching
  <2> QED
    BY <2>1, <2>2 DEF DispatchesSound
<1>10. PlansSound' /\ NothingStranded'
  BY <1>3 DEF PlansSound, Known, NothingStranded
<1>11. SubscriptionsSound'
  BY <1>3 DEF SubscriptionsSound, RegistrationSound, Readable, Rowed
<1>12. Told'
  <2> SUFFICES ASSUME NEW c \in Devices, NEW o \in Occasions, <<c, o>> \notin undone
               PROVE  /\ pushes'[c][o] <= 1
                      /\ pushes'[c][o] > 0 => \/ delivery[Owner[c]][o].state = "dispatched"
                                              \/ \E v \in Dispatchers : Telling(v, c, o)'
    BY <1>3 DEF Told, ToldSound
  <2>1. /\ pushes[c][o] <= 1
        /\ pushes[c][o] > 0 => \/ delivery[Owner[c]][o].state = "dispatched"
                               \/ \E v \in Dispatchers : Telling(v, c, o)
    BY DEF Told, ToldSound
  <2>2. ASSUME NEW v \in Dispatchers, Telling(v, c, o) PROVE Telling(v, c, o)'
    <3>1. CASE v # w
      BY <1>6, <2>2, <3>1 DEF Telling, Accepted, Wanted
    <3>2. CASE v = w
      BY <1>1, <1>2, <1>5, <1>6, <2>2, <3>2 DEF Telling, Accepted, Wanted
    <3> QED
      BY <3>1, <3>2
  <2>3. CASE pushes'[c][o] = pushes[c][o]
    BY <2>1, <2>2, <2>3
  <2>4. CASE pushes'[c][o] # pushes[c][o]
    <3>1. c = d /\ o \in Wanted(w) /\ pushes'[c][o] = pushes[c][o] + 1
      BY <1>7, <2>4
    <3>2. delivery[Owner[c]][o].state = "waiting"
      BY <1>1, <1>4, <3>1 DEF DispatchSound, Wanted
    <3>3. \A v \in Dispatchers : ~Telling(v, c, o)
      BY <1>1, <1>2, <3>1 DEF Telling, Accepted, DispatchesSound, OneDispatch, Dispatching
    <3>4. pushes'[c][o] = 1
      BY <1>7, <2>1, <3>1, <3>2, <3>3
    <3>5. Telling(w, c, o)'
      <4>1. q.ending = run[w].ending /\ d \in run[w].held /\ d \notin run[w].ending
        BY <1>1, <1>2, <1>5, <2>4 DEF DispatchSound
      <4> QED
        BY <1>4, <1>5, <1>6, <3>1, <4>1 DEF Telling, Accepted, Wanted
    <3> QED
      BY <3>4, <3>5
  <2> QED
    BY <2>3, <2>4
<1> QED
  BY <1>8, <1>9, <1>10, <1>11, <1>12

\* The commit records what was told and ends the registrations found gone or unreadable.
LEMMA NoticesCommit ==
  ASSUME NotificationsIInv, NEW w \in Dispatchers, Commit(w) PROVE NotificationsIInv'
<1> USE DEF NotificationsIInv
<1>1. /\ run[w] \in Run /\ run[w].pc = "sending" /\ w \in Dispatching
      /\ run[w].u \in Users /\ run[w].o \in Occasions /\ DispatchSound(run[w])
      /\ run[w].rows \subseteq Occasions
  BY DEF Commit, Dispatching, NotificationsTypeOK, DispatchesSound, Run
<1>2. PICK u \in Users : run[w].u = u
  BY <1>1
<1>3. /\ UNCHANGED <<member, departed, prefs, changes, reg, trigger, asked, pushes, undone,
                     lapses>>
      /\ delivery' = [delivery EXCEPT ![u] = [o \in Occasions |->
           IF o \in run[w].rows THEN [@[o] EXCEPT !.state = "dispatched"] ELSE @[o]]]
      /\ sub' = [d \in Devices |-> IF d \in run[w].ending
                   THEN [sub[d] EXCEPT !.state = "revoked", !.sealed = NoId] ELSE sub[d]]
      /\ run' = [run EXCEPT ![w].pc = "completing"]
  BY <1>2 DEF Commit, GoesTo, house
<1> DEFINE q == [run[w] EXCEPT !.pc = "completing"]
<1>4. /\ q \in Run /\ q.pc = "completing" /\ q.u = u /\ q.o = run[w].o
  BY <1>1, <1>2 DEF Run
<1>5. /\ run'[w] = q /\ \A v \in Dispatchers : v # w => run'[v] = run[v]
      /\ run' \in [Dispatchers -> Run]
  BY <1>3, <1>4 DEF NotificationsTypeOK
<1> HIDE DEF q
<1>6. ASSUME NEW v \in Users, NEW o \in Occasions
      PROVE  /\ delivery'[v][o] \in Delivery
             /\ delivery[v][o].due => delivery'[v][o].due
             /\ v = u /\ o \in run[w].rows => delivery'[v][o].state = "dispatched"
             /\ ~(v = u /\ o \in run[w].rows) => delivery'[v][o] = delivery[v][o]
  <2>1. delivery[v][o] \in Delivery
    BY DEF NotificationsTypeOK
  <2>2. delivery'[v][o] = IF v = u /\ o \in run[w].rows
                          THEN [delivery[v][o] EXCEPT !.state = "dispatched"]
                          ELSE delivery[v][o]
    BY <1>3 DEF NotificationsTypeOK
  <2> QED
    BY <2>1, <2>2 DEF Delivery
<1>7. delivery' \in [Users -> [Occasions -> Delivery]]
  <2>1. \A v \in Users : delivery'[v] = [o \in Occasions |-> delivery'[v][o]]
    BY <1>3 DEF NotificationsTypeOK
  <2>2. \A v \in Users : delivery'[v] \in [Occasions -> Delivery]
    BY <1>6, <2>1
  <2> QED
    BY <1>3, <2>2 DEF NotificationsTypeOK
<1>8. ASSUME NEW d \in Devices
      PROVE  /\ sub'[d] \in Subscription /\ sub'[d].id = sub[d].id
             /\ sub'[d].state = "active" => sub'[d] = sub[d]
             /\ sub[d].state # "absent" => sub'[d].state # "absent"
             /\ sub[d].state = "absent" => sub'[d].state = "absent"
  <2>1. sub[d] \in Subscription
    BY DEF NotificationsTypeOK
  <2>2. \/ sub'[d] = sub[d]
        \/ /\ sub'[d] = [[sub[d] EXCEPT !.state = "revoked"] EXCEPT !.sealed = NoId]
           /\ sub[d].state = "active"
    BY <1>1, <1>3 DEF DispatchSound
  <2> QED
    BY <2>1, <2>2 DEF Subscription
<1>9. NotificationsTypeOK'
  <2>1. sub' \in [Devices -> Subscription]
    BY <1>3, <1>8
  <2> QED
    BY <1>1, <1>2, <1>3, <1>4, <1>5, <1>7, <2>1 DEF NotificationsTypeOK
<1>10. DispatchesSound'
  <2>1. \A v \in Dispatchers : v \in Dispatching => v = w
    BY <1>1 DEF DispatchesSound, OneDispatch
  <2>2. ASSUME NEW v \in Dispatchers, v # w PROVE DispatchSound(run[v])'
    <3>1. run[v].pc \notin {"authorized", "sending"} /\ run'[v] = run[v]
      BY <1>5, <2>1, <2>2 DEF Dispatching
    <3>2. CASE run[v].pc = "idle"
      BY <3>1, <3>2 DEF DispatchSound
    <3>3. CASE run[v].pc # "idle"
      <4>1. /\ run[v].u \in Users /\ run[v].o \in Occasions
            /\ DispatchSound(run[v])
        BY <3>3 DEF NotificationsTypeOK, DispatchesSound
      <4>2. /\ delivery[run[v].u][run[v].o].due => delivery'[run[v].u][run[v].o].due
            /\ delivery'[run[v].u][run[v].o].state
                 \in {delivery[run[v].u][run[v].o].state, "dispatched"}
        BY <1>6, <4>1
      <4>3. /\ delivery[run[v].u][run[v].o].state # "absent"
            /\ delivery[run[v].u][run[v].o].due
            /\ run[v].pc = "ready" => run[v].ending = {}
            /\ run[v].pc = "completing" =>
                 delivery[run[v].u][run[v].o].state = "dispatched" \/ run[v].u \in departed
        BY <3>1, <3>3, <4>1 DEF DispatchSound
      <4>4. delivery'[run[v].u][run[v].o].state # "absent"
        BY <4>2, <4>3
      <4>5. delivery'[run[v].u][run[v].o].due
        BY <4>2, <4>3
      <4>6. run[v].pc = "completing" =>
              delivery'[run[v].u][run[v].o].state = "dispatched" \/ run[v].u \in departed'
        BY <1>3, <4>2, <4>3
      <4> QED
        BY <3>1, <4>3, <4>4, <4>5, <4>6 DEF DispatchSound
    <3> QED
      BY <3>2, <3>3
  <2>3. DispatchSound(run[w])'
    <3>1. delivery'[u][run[w].o].state = "dispatched"
      BY <1>1, <1>2, <1>6 DEF DispatchSound
    <3>2. delivery'[u][run[w].o].due
      BY <1>1, <1>2, <1>6 DEF DispatchSound
    <3> QED
      BY <1>4, <1>5, <3>1, <3>2 DEF DispatchSound
  <2>4. OneDispatch'
    BY <1>4, <1>5, <2>1 DEF OneDispatch, Dispatching
  <2> QED
    BY <2>2, <2>3, <2>4 DEF DispatchesSound
<1>11. PlansSound'
  <2> SUFFICES ASSUME NEW v \in Users, NEW o \in Occasions
               PROVE  /\ v \in asked[o] \/ delivery'[v][o].state # "absent" => v \in Known
                      /\ trigger[v][o].state # "absent" => delivery'[v][o].state # "absent"
    BY <1>3 DEF PlansSound, Known
  <2>1. v = u /\ o \in run[w].rows => delivery[v][o].state = "waiting"
    BY <1>1, <1>2 DEF DispatchSound
  <2>2. /\ v \in asked[o] \/ delivery[v][o].state # "absent" => v \in Known
        /\ trigger[v][o].state # "absent" => delivery[v][o].state # "absent"
    BY DEF PlansSound
  <2> QED
    BY <1>6, <2>1, <2>2
<1>12. NothingStranded'
  <2> SUFFICES ASSUME NEW v \in Users, NEW o \in Occasions,
                      delivery'[v][o].state = "waiting"
               PROVE  trigger[v][o].state \in {"pending", "dead_lettered"} \/ v \in departed
    BY <1>3 DEF NothingStranded
  <2>1. delivery[v][o].state = "waiting"
    BY <1>6
  <2> QED
    BY <2>1 DEF NothingStranded
<1>13. SubscriptionsSound'
  <2>1. \A d \in run[w].ending : d \in Devices
    BY <1>1 DEF Run
  <2>2. ASSUME NEW r \in Registrations PROVE RegistrationSound(r)'
    <3>1. PICK d \in Devices : reg[r].device = d
      BY DEF NotificationsTypeOK, Registration
    <3>2. RegistrationSound(r)
      BY DEF SubscriptionsSound
    <3> QED
      BY <1>3, <1>8, <3>1, <3>2 DEF RegistrationSound
  <2>3. ASSUME NEW d \in Devices PROVE Readable(d)' /\ Rowed(d)'
    <3>1. Readable(d) /\ Rowed(d)
      BY DEF SubscriptionsSound
    <3>2. Readable(d)'
      BY <1>3, <1>8, <3>1 DEF Readable
    <3>3. Rowed(d)'
      BY <1>8, <3>1 DEF Rowed
    <3> QED
      BY <3>2, <3>3
  <2> QED
    BY <2>2, <2>3 DEF SubscriptionsSound
<1>14. Told'
  <2> SUFFICES ASSUME NEW d \in Devices, NEW o \in Occasions, <<d, o>> \notin undone
               PROVE  /\ pushes[d][o] <= 1
                      /\ pushes[d][o] > 0 => delivery'[Owner[d]][o].state = "dispatched"
    BY <1>3 DEF Told, ToldSound
  <2>1. /\ pushes[d][o] <= 1
        /\ pushes[d][o] > 0 => \/ delivery[Owner[d]][o].state = "dispatched"
                               \/ \E v \in Dispatchers : Telling(v, d, o)
        /\ Owner[d] \in Users
    BY NotificationsAssumption DEF Told, ToldSound, NotificationsAssumption
  <2>2. \A v \in Dispatchers : Telling(v, d, o) => Owner[d] = u /\ o \in run[w].rows
    BY <1>1, <1>2 DEF Telling, Wanted, DispatchesSound, OneDispatch, Dispatching
  <2> QED
    BY <1>6, <2>1, <2>2
<1> QED
  BY <1>9, <1>10, <1>11, <1>12, <1>13, <1>14, <1>3

LEMMA NotificationsNextKeeps == NotificationsIInv /\ [NotificationsNext]_noticeVars => NotificationsIInv'
<1> SUFFICES ASSUME NotificationsIInv, [NotificationsNext]_noticeVars PROVE NotificationsIInv'
  OBVIOUS
<1>1. CASE UNCHANGED noticeVars
  <2>1. UNCHANGED <<member, departed, sub, reg, delivery, trigger, asked, run, pushes, undone>>
    BY <1>1 DEF noticeVars
  <2>2. NotificationsTypeOK'
    BY <1>1 DEF noticeVars, NotificationsIInv, NotificationsTypeOK
  <2> QED
    BY <2>1, <2>2, HouseMoves DEF Known
<1> QED
  BY <1>1, NoticesHouse, NoticesSubscriptions, NoticesPlans, NoticesStart, NoticesSettle,
     NoticesRun, NoticesPush, NoticesCommit
  DEF NotificationsNext, Dispatch

LEMMA NotificationsInductive ==
  NotificationsSpec => []NotificationsIInv
  BY NotificationsInitHolds, NotificationsNextKeeps, PTL DEF NotificationsSpec

\* No delivery is left without the trigger it waits for, and a subscription that cannot
\* be read comes from registrations that overlapped.
THEOREM NotificationsSound ==
  NotificationsSpec => []NotificationsInv
<1>1. NotificationsIInv => NotificationsInv
  <2> SUFFICES ASSUME NotificationsIInv PROVE UnreadableIfOverlapped
    BY DEF NotificationsIInv, NotificationsInv
  <2> QED
    BY DEF NotificationsIInv, SubscriptionsSound, Readable, UnreadableIfOverlapped
<1> QED
  BY <1>1, NotificationsInductive, PTL

\* A device is told once, unless a push it was told by was taken back.
THEOREM DevicesAreToldOnce ==
  NotificationsSpec => []ToldOnce
<1>1. NotificationsIInv => ToldOnce
  <2> SUFFICES ASSUME NotificationsIInv, NEW d \in Devices, NEW o \in Occasions,
                      pushes[d][o] > 1
               PROVE  <<d, o>> \in undone
    BY DEF ToldOnce
  <2>1. ToldSound(d, o) /\ pushes[d][o] \in Nat
    BY DEF NotificationsIInv, Told, NotificationsTypeOK
  <2> QED
    BY <2>1 DEF ToldSound
<1> QED
  BY <1>1, NotificationsInductive, PTL

LEMMA AuthorizedStep ==
  NotificationsIInv /\ [NotificationsNext]_noticeVars =>
    /\ \A d \in Devices : pushes'[d] # pushes[d] =>
         Owner[d] \in member /\ sub[d].state = "active"
    /\ \A w \in Dispatchers, d \in Devices :
         d \in run[w].held /\ run[w].pc = "sending" /\ run'[w].pc = "sending"
           => sub'[d] = sub[d]
<1> SUFFICES ASSUME NotificationsIInv, [NotificationsNext]_noticeVars
             PROVE  /\ \A d \in Devices : pushes'[d] # pushes[d] =>
                         Owner[d] \in member /\ sub[d].state = "active"
                    /\ \A w \in Dispatchers, d \in Devices :
                         d \in run[w].held /\ run[w].pc = "sending" /\ run'[w].pc = "sending"
                           => sub'[d] = sub[d]
  OBVIOUS
<1> USE DEF NotificationsIInv
<1>1. CASE UNCHANGED <<pushes, sub>>
  BY <1>1
<1>2. ASSUME NEW v \in Dispatchers, Push(v), NEW d \in Devices, pushes'[d] # pushes[d]
      PROVE  Owner[d] \in member /\ sub[d].state = "active" /\ UNCHANGED sub
  <2>1. PICK c \in run[v].todo :
          \/ pushes' = [pushes EXCEPT ![c] = [o \in Occasions |->
               IF o \in Wanted(v) THEN @[o] + 1 ELSE @[o]]]
          \/ UNCHANGED pushes
    BY <1>2 DEF Push
  <2>2. c = d
    BY <1>2, <2>1 DEF NotificationsTypeOK
  <2>3. run[v].pc = "sending" /\ DispatchSound(run[v]) /\ UNCHANGED sub
    BY <1>2 DEF Push, DispatchesSound
  <2> QED
    BY <2>2, <2>3 DEF DispatchSound
<1>3. ASSUME NEW r \in Registrations, UpsertSubscription(r)
      PROVE  /\ UNCHANGED pushes
             /\ \A w \in Dispatchers, d \in Devices :
                  d \in run[w].held /\ run[w].pc = "sending" => sub'[d] = sub[d]
  <2>1. PICK c \in Devices : reg[r].device = c
    BY DEF NotificationsTypeOK, Registration
  <2>2. MayWrite(c) /\ \A d \in Devices : d # c => sub'[d] = sub[d]
    BY <1>3, <2>1 DEF UpsertSubscription, NotificationsTypeOK
  <2> QED
    BY <1>3, <2>2, HeldIsKept DEF UpsertSubscription, history
<1>4. ASSUME NEW c \in Devices, RevokeSubscription(c)
      PROVE  UNCHANGED pushes /\ \A w \in Dispatchers : run[w].pc # "sending"
  BY <1>4 DEF RevokeSubscription, Dispatching, history
<1>5. ASSUME NEW v \in Dispatchers, Commit(v)
      PROVE  /\ UNCHANGED pushes
             /\ \A w \in Dispatchers : run[w].pc = "sending" => run'[w].pc # "sending"
  <2>1. UNCHANGED pushes /\ v \in Dispatching /\ run'[v].pc = "completing"
    BY <1>5 DEF Commit, GoesTo, Dispatching, NotificationsTypeOK,
       Run
  <2> QED
    BY <2>1 DEF DispatchesSound, OneDispatch, Dispatching
<1>6. \A w \in Dispatchers : Push(w) => UNCHANGED sub
  BY DEF Push
<1> QED
  BY <1>1, <1>2, <1>3, <1>4, <1>5, <1>6
  DEF NotificationsNext, Dispatch, noticeVars, RemoveMember,
      AcceptInvitation, PutPreferences, FindSubscription,
      SelectAudience, EnqueueTx, BecomeDue, Start,
      Authorize, SelectRows, Quarantine, DispatchRollsBack,
      Complete, Fail, Settle, Crash, history

\* A push only goes to an active device of a member, and the device stays as it is while
\* its dispatch tries it.
THEOREM DispatchesStayAuthorized ==
  NotificationsSpec => DispatchesAreAuthorized
  BY NotificationsInductive, AuthorizedStep, PTL
  DEF NotificationsSpec, DispatchesAreAuthorized
=============================================================================
