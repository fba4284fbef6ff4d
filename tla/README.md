# Roomies: TLA+ specifications

This directory holds specifications of the Roomies server and worker: TLA+
modules translated from the Go sources, TLC configurations that model-check
them on small instances, and theorems about them that the TLAPS proof system
checks for every value of the constants. Paths below are relative to
`src/backend/internal/` of the repository unless they say otherwise.
`PROJECT.json` names, for every definition, the lines it models, and for every
property a change of the code that would break it.

## The system

Roomies is a Go API server and a worker process that share one PostgreSQL
database; a Flutter client talks to the server over HTTP, and clients of
the API can follow a house by polling or by a stream of server-sent events. There may be several server and worker processes.
Processes share no memory: everything they agree on is a row, and what keeps
them apart is row locks, unique indexes, guarded `UPDATE`s and leases. Tests run
mostly on SQLite, one statement at a time, so the interleavings of transactions
are what tests hardly reach and what these models are about.

| Part | State it keeps | Operations | What is hard | What makes it correct |
|---|---|---|---|---|
| Outbox and durable jobs (`repository/jobs.go`, `reliability.go`, `worker/worker.go`) | `outbox_messages`, `durable_jobs`, what each worker holds | enqueue, acquire under a lease, dispatch, complete, fail and retry, give up | crashes, stalls past the lease, two processes with one owner name, success that cannot be recorded, errors reported after a success | one lease holder, verdicts in both rows, no send recorded that did not happen, links erased, everything settled in the end |
| Membership and invitations (`repository/houses.go`, `reliability.go`, `handlers/houses.go`, `handlers/invitations.go`) | `house_members`, `house_invitations` | create, list, accept, revoke, expire; role changes, removals | admins who act on each other at once, acceptance racing revocation and expiry, roles read before the transaction | never without an admin, verdicts final, nobody joins uninvited, one open invitation to an address, roles change on request only |
| Idempotency (`middleware/idempotency.go`, `repository/idempotency.go`) | `idempotency_keys` | begin, replay, refuse, complete, abort | calls cut off at any point, repetitions meanwhile, errors after a commit | one flight at a time, one answer per key, no second effect behind an answer |
| Expenses and balances (`repository/expenses.go`, `handlers/expenses.go`, `handlers/balances.go`) | `expenses`, `expense_splits`, `expense_visibility` | create, update, delete, share; balances read them | checks before the transaction, replacement of splits, members who leave, several reads without a snapshot | rows stay together, active members are charged, balances can be settled |
| Settlements (`handlers/balances.go`) | none: a calculation | match debtors with creditors | ties, exhaustion of both sides at once | everybody even, nobody pays too much, few payments |
| Notifications (`repository/notifications.go`, `handlers/notifications.go`, `providers/notification_crypto.go`) | preferences, subscriptions, deliveries and their triggers | set preferences, register and revoke devices, plan, dispatch at once or in a digest | registration races, removal and revocation during a dispatch, roll-backs after a push, digests next to new deliveries | no push without authority, nobody told twice without a roll-back, no delivery stranded |
| Scheduled events (`repository/scheduler.go`, `repository/notifications.go`, `recurrence/`) | `scheduled_house_events` | create, edit, delete, fire the next occurrence | edits racing a firing, several workers, workers that are behind | each occurrence announced and reminded of, once |
| House events (`repository/reliability.go`, `handlers/invitations.go`) | `house_events`, the position of each reader | append, poll, stream | cursors are drawn before the commit, so a later cursor can commit first; removal during a stream | what a reader can miss is known; streams end with membership |
| Household rows (`repository/household.go`, `handlers/household.go`) | groceries, calendar events, chores and their completions | create, read, edit under a version, check off, complete an occurrence, delete | clients with stale copies, roles that change, completions racing edits and deletes | no lost update, every version announced, one completion of an occurrence |
| Chat (`repository/household.go`, `handlers/household.go`) | `chat_messages`, `chat_retention_jobs` | send, edit, delete, redact after a year | redaction racing authors, two workers, roll-backs | a body that is gone does not return, only old ones are redacted, all of them in the end |
| Sessions (`handlers/auth.go`, `middleware/auth.go`) | `revoked_sessions` | sign in, check a token, sign out, purge | the purge racing requests and expiry | signed out stays out, the table does not grow for ever |
| Accounts (`handlers/auth.go`, `repository/users.go`) | `users` | register, sign in with a password or through AuthKit, which finds, links, updates or creates an account | no sign-in is a transaction; addresses move between identities; the server changes its way of signing in; accounts older than links | one account for an address and an identity, the same one at every return |
| Sign-in limiter (`middleware/ratelimit.go`) | a map of hits and the time of the last sweep, behind a mutex | allow or deny a hit | the clock is read before the mutex, so calls overtake each other; the sweep | exact verdicts, idle keys are forgotten |
| House settings, notes | `houses`, `notes` | single statements | nothing interleaves | not modelled |
| Schema migrations (`database/`) | the schema, `schema_migrations`, an advisory lock | apply what is missing in one transaction | programs of several releases that start together, die or lose the database | the ledger is the schema, each migration once and in order |
| Internal TLS and start-up (`internaltls/`, `main.go`, `docker-compose.yml` of the repository) | seven files in three directories, what PostgreSQL has loaded | `tls-init` keeps or replaces the CA and the certificates of PostgreSQL and the server; PostgreSQL, serve and worker start | a run that dies between two files, ageing, names that change, a server that keeps what it loaded | pairs that fit after a run that succeeds, the CA kept while it can be, everybody comes up |
| Providers, configuration, HTTP server | none of their own | network, reading of the environment, routing | - | not modelled |
| Flutter client (`src/frontend/lib`) | session, current house, lists | late answers after a switch of house | not modelled (see the plan) |

How they interact: a request passes `JWTAuth` (Sessions), then for mutations the
idempotency middleware (Idempotency), then a handler that reads rows to check the
caller and a repository method that does its work in one transaction. A shared
expense plans notification deliveries, and an invitation an e-mail, in that same
transaction; both leave an outbox message and a job. Most transactions append a
house event, which streams and polls carry to the clients. The worker loop
(`worker.go`) fires a scheduled event, runs the chat retention, purges
revocations and then acquires one job, which it dispatches by e-mail or through
WithAuthorizedDispatch. Registrations, passwords and AuthKit callbacks pass the
limiter before they look for an account, and end with a token. None of this runs
before `tls-init` has written certificates that let serve and worker connect to
PostgreSQL, and one of the two has migrated the schema.

## The modules

Every module models its component's transactions as actions: what PostgreSQL
makes atomic or serialises with row locks is one step, and whatever a handler
does outside its transaction - a read for a check, a value worked out in
advance, a call to a provider - is a step of its own, so that other requests and
workers can come between. An `MC*` module gives the constants of a module values
for TLC; a `*Proofs` module has its theorems. Four of the proof modules are about two
components that touch: they extend both, so the definitions of Notifications, Scheduler,
Chat and Sessions that would have a namesake carry the component's name
(`ChatNext`, `SessionsSpec`, ...).

**OutboxJobs** with **MessageDelivery** (`MCOutboxJobs`, `OutboxJobsProofs`). `job` and `outbox` are the
two rows of a message, `worker` what a process holds between its calls.
`AcquireNextJob` takes the row of a due or lapsed job; `ReadMessage`, `CheckDelivery`
and the dispatch actions follow `dispatch` of the worker up to the provider's answer;
A dispatch can fail although its provider accepted the message (`DispatchFails`): SMTP
reports a `QUIT` that fails after `DATA` was accepted, and a push to a second target or the
commit can fail after the first target was pushed; `disowned` counts these.
`CompleteOutboxJob` and `FailOutboxJob` are the guarded updates that look at owner,
generation and the lease. Time runs as the distance to
`available_at` and to the end of each lease, so no clock grows. Owner names are
a constant function of workers, because two processes can share host name and
process number (containers). Crashes and stalls are actions. `MessageDelivery` is what the outbox
promises its callers: a message is queued, then dispatched only after a
provider had it (or the invitation was withdrawn) or given up; `KeepsPromise`
says that OutboxJobs implements it.

**Membership** (`MCMembership`, `MembershipProofs`). `role`, `invite` and `link`
are the rows; a request holds its actor and subject between the handler's
checks and its transaction. The role an admin had when the handler looked is
not looked at again, and neither does the model.

**Idempotency** (`MCIdempotency`, `IdempotencyProofs`). `record` is the row of a
key. A call is at one of the places the middleware can be in when it is cut off:
before the `INSERT`, reading the record it lost to, in the handler, answering,
settling. `effects` counts what handlers changed.

**Expenses** (`MCExpenses`, `ExpensesProofs`). A request keeps what its handler read:
the whole expense it will write back. Money is whole cents. The several
reads of one handler are one step, as the properties that hold need no more and
the one that fails (see below) fails already so. A balance request reads expenses and splits in
two steps, as in the code.

**Settlements** (`MCExpenses`, `ExpensesProofs`). `calculateSettlements` on the nets of a house:
`Turn` is a turn of its loop, `Turns` the loop as a recursive function of the number of
turns, with what each participant has `left` and the places `i` and `j` reached in the two
lists. `sort.Slice` is not stable, so equal nets come in any order.

**Balances** (`MCExpenses`, `ExpensesProofs`) composes Settlements with the balances Expenses
answers (`BalancesSettle`).

**Notifications** (`MCNotifications`, `OutboxJobsProofs`). Subscriptions are rows of devices;
registration is a read, then an upsert. `run` is a worker in
`WithAuthorizedDispatch`, from the lock on the house to the commit, pushing in
between. `pushes`, `departed` and `undone` are history: `undone` has the pushes that
providers accepted in dispatches that were rolled back. Whether a delivery is due
is a flag that turns true at some time.

**Scheduler** (`MCScheduler`, `HouseEventsProofs`). A rule is the set of its occurrences. A save works
its next occurrence out in `Prepare` and writes it in `Save`; a worker locks the row of an event
in `Claim` and writes everything in `Fire`. The lease
`RunDueScheduledEvent` writes is written and cleared in one transaction and compared with the time
the run began, so nobody ever sees it; the row lock is what the model has.

**HouseEvents** (`MCHouseEvents`, `HouseEventsProofs`). A writer takes its cursor from the sequence,
inserts and commits in separate steps. The kinds of writers differ in the lock
they hold on the house: exclusive, shared (the foreign key of an insert), or
none before the cursor is drawn. Readers are polls and streams. **HouseLog** is what the log
promises streams: its events in order, to members only, and no durable one left out. `Log`
maps an event that is committed to its cursor, and the durable events to those written
under a lock; pages, locks, breaks and reconnections are steps that change nothing there.

**Household** (`MCHousehold`, `HouseholdProofs`). Rows with the copies clients hold of them and the
request each user has in flight. `kind` is the table of an item, chosen once in
`Init`, so that one run covers groceries, chores and calendar events.
`CopiesAgree`, for instance, is about the answers a client got and the row at that
version. **HouseItems** is what the items of a house promise to those who share them, without versions,
requests and roles: whoever changes, checks off or deletes an item had been shown what it
says, changes leave the check mark alone and are announced, one user completes an
occurrence. `Shared` maps what a user was shown to the copy of their client.

**Chat** (`MCChat`, `HouseholdProofs`). Messages with their age, the retention's row with its lock,
and a run that selects a batch and redacts it message by message.

**Sessions** (`MCSessions`, `AccountsProofs`). Tokens, requests that carry them through the check of
the signature and expiry and then of `revoked_sessions`, sign-outs, and the purge
of a worker whose clock may be behind. Expiries have whole seconds, the clock
fractions of them (`Second`).

**RateLimit** (`MCSessions`, `AccountsProofs`). `WindowLimiter` has no interleaving but the order in which its
mutex serves the calls, so it is a function of the sequence of calls in that
order: `Allow` takes a limiter and a call to a limiter, and `Limiters` is the recursive function
that does so along a history. A hit is the place of its call in the history, which tells apart hits of the
same time. The times of a history are in any order, since a call reads the clock
before it has the mutex. **SignIns** puts the limiter beside Sessions.

**Accounts** (`MCAccounts`, `AccountsProofs`). `user` are the rows, `attempt` the sign-ins
between their statements: `ByIdentity`, `ByEmail`, `UpdateProfile`, `Link` and `Insert` are the
statements of `UpsertFromWorkOS`, and `Register` with `Insert` those of a registration.
`vouched` is what AuthKit would answer, `authkit` which of the two ways of signing in
the server was started with. `home` and `displaced` are history. A row whose link is
`Unset` is an account from before migration 9, which nothing that reads a whole
user can read.

**Startup** (`MCStartup`, `StartupProofs`) composes two modules. **InternalTLS** has the files by
what keys they hold and certify, the steps of `Ensure` in the order of its writes,
and the files PostgreSQL loaded. **Migrations** has what has been done to the schema, the
ledger, and each program in the one transaction that waits for the advisory lock and
holds it, at the migration it checks or makes; a ledger from before migrations had
names is among the initial states. Startup adds what ties
them: the containers are created once a run has succeeded, programs begin to migrate
once they can verify PostgreSQL, what dies starts again, and serve loads its own pair last.

## What the runs check

Each property is commented in its module with the code behaviour it is about.
Every run is one instance of one module with all the properties that are checked
of it, safety (invariants and action properties) and liveness. The type invariant
and the plainer invariants of a module are checked as one (`OutboxInv`,
`MembershipInv`, ...), defined at its end.

| Run | Instance | Shows |
|---|---|---|
| `outbox` | two messages (an invitation with a link, a push), two workers under one owner name, two attempts, one lapsed lease or crash a message | leases exclude each other and fence what stale workers write; rows agree; links are erased; nothing counts as sent that was not; a duplicate send has a cause of its own, a lapsed lease or an error after the acceptance, and their number is bounded; every message is settled in the end; OutboxJobs implements MessageDelivery |
| `membership` | two users, two invitations, two requests at once | a house keeps an admin (in `MembershipInv`); verdicts are final; an address has one open invitation, whatever marks were rolled back (in `MembershipInv`); joining needs one's own open invitation, accepted in time; roles change only by the requests that are for it |
| `idempotency` | three calls, two keys, two requests | one flight, one answer, repetitions only behind server errors; a record in `processing` has a call at work or a call that was cut off |
| `expenses` | two users, one expense, two requests of all five kinds, one change of membership; every balance of five people up to four cents | rows stay together, only active members are charged, and the only step that parts a split from its amount is the stale update; a balance request that reads between writes answers nets that its payments settle in full; payments are few and leave everybody even, in whatever order ties are sorted |
| `notifications` | one user who may be a member and have registered before, one device, two occasions of two categories, two workers, one upset (a change, a lapse, a crash or a registration) | nobody is told twice without a roll-back of that very push, nothing is stranded, pushes are authorised, no registration changes under a dispatch |
| `scheduler` | one event, two saves, two workers, one crash | no occurrence is passed over or reminded of twice; workers alone announce each once, and each edit can have it announced once more; the schedule moves on |
| `house_events` | three transactions of three kinds, a stream, a poll, pages of one event, two changes of membership | a stream can skip only events written without any lock on the house; a poll none whose transaction holds it exclusively; streams serve members and end with membership; HouseEvents implements HouseLog: in order, and in the end, what cannot be skipped |
| `household` | two users, one item of any kind, three versions or two and a change of role | no lost update: Household implements HouseItems; copies of one version agree; every version announced; one completion of an occurrence, gone with the chore |
| `chat` | two messages, two workers, one message a batch, one roll-back | bodies that are gone stay gone; only old messages are redacted, each announced once; all of them in the end |
| `sessions` | two tokens, three requests, seconds of two units; all 20736 histories of four calls to a limiter of two keys and two hits a window | a signed-out token is not accepted while valid; revocations go in the end; verdicts of the limiter are exact for calls that were not overtaken, and idle keys are forgotten |
| `startup` | serve and worker, two migrations, six keys, one death, two units of time or changes of name | a run of `tls-init` that succeeds has repaired whatever an earlier one left; PostgreSQL is refused only if expired or stale; the ledger is the schema; a CA is replaced only when missing or about to expire; everybody who can come up does |
| `accounts` | two identities, three addresses, three accounts, two sign-ins at once | one account for an address and an identity; a return reaches the same account; a sign-in writes into another account only if what it read has changed meanwhile |

### Where code and words disagree

Every run passes. Where the code does not quite do what a comment or a message says, the
property states exactly how far it does, so that a change in either direction
shows.

- *Cut-off calls.* A call that is cut off between the `INSERT` of its key and its
  settlement leaves the key in `processing` for ever, and repetitions are told
  "request already in progress" (`middleware/idempotency.go:66`). `InProgressOrCutOff`, part of
  `IdempotencyInv`, says that such calls are the only reason for it.
- *Stale updates.* An update of an expense that brings no split writes back the amount it
  read before its transaction; after a concurrent replacement of amount and
  split the two disagree, and the balances of the house answer 500.
  `OnlyStaleUpdatesDisagree` says that nothing but that update can part a split
  from its amount.
- *Accounts older than migration 9.* The migration adds the column of the link without a
  default (`database/migrations.go`), and a NULL there cannot be read into a user: a right
  password is answered like a wrong one, an AuthKit callback for the address by an
  error. `AccountsInv` says that no sign-in ever gets hold of such an account, so nothing
  the server does repairs it.
- *Addresses that are taken.* An AuthKit user whose address there has become that of another
  account cannot sign in to their own any more: `UpdateProfile` meets the unique index and
  ends in a 500 (`repository/users.go:100-106`, `handlers/auth.go:188-190`) at every try,
  until one of the two addresses changes. The model has these tries (`Fails`); no property is
  about them, as nothing is written.
- *Private expenses.* They are said to "stay hidden (and immutable) for every member they were
  not shared with" (`handlers/expenses.go:335`). An update or deletion that was admitted while the
  expense was shared still changes it after its payer has made it private, as the
  transaction does not look at the audience again. The model has that window; no property
  is stated of it, since what holds is only the check the handler makes before it.
- *Sign-ins without a transaction.* Between the statements of a sign-in an address can
  move to another identity, or an account be linked by a second sign-in.
  `OnlyOutdatedSignInsCross` says that this is the only way one sign-in can write into an
  account that is not its own; `SameAccountAgain` that an identity changes accounts only
  if its own was linked to another one.
- *Overtaken calls.* Calls of one key that overtake each other between the clock and the mutex
  can be counted inexactly (a sweep forgets what a late call still counts, or
  the other way round). `LimitIsExact` is about all others. What it calls a "fixed window"
  (`middleware/ratelimit.go:8`) is a sliding one: hits are kept with their times, and the model has them so.

Two more behaviours are in the models, and listed as hazards. Two overlapping
registrations of one device leave a ciphertext bound to an id its row does not
have, which the next dispatch quarantines. And the worker sends the link it has read even if the
invitation is decided after `InvitationDeliveryAvailable` looked at it: the outbox does not
prevent that, and what makes it harmless is Membership, where a link that comes late admits
nobody (`JoinsByInvitation`, `VerdictsAreFinal`).

### Bounds, and why they are enough

Bounds are constants with names (`MaxLapses`, `MaxCrashes`, `MaxChanges`,
`MaxUpsets`, `MaxVersion`, `MaxTime`, `MaxNet`, `MaxFaults`, ...), given in each configuration.

- *Two of each actor.* Row locks and guarded updates let two transactions of a kind
  conflict over a row; a third finds what the second would. Idempotency has
  three calls, since a key can be taken, released and taken again.
- *Attempts, lapses, crashes.* Two attempts separate a retry from the last
  attempt. One lapse or crash already leaves a stale worker beside a second one that
  takes over; larger bounds were run while the modules were written and showed
  nothing new. A lease of one tick is as good as a longer one: what happens depends on
  whether it has run out, and the theorems are about leases of any length.
- *Devices.* With one device, a target that fails after another was told shows as a push
  followed by a roll-back; `undone` is of pairs of device and occasion, and `DevicesAreToldOnce`
  is proved for any number of devices.
- *Time.* OutboxJobs and Chat count distances, which makes their state spaces
  finite without a last moment. Scheduler and Sessions have a clock
  that runs long enough for a window, a life or a schedule to pass and
  something to follow it.
- *Money.* Two amounts show what differs; Settlements tries every balance in
  range, ties included.
- *Upsets.* Notifications counts lapses, crashes, changes and registrations
  together, Startup deaths in `MaxFaults` and ageing with changes of names in
  `MaxChanges`. One death splits a run of `tls-init` or a transaction anywhere, and the run that
  follows meets what it left. `Init` is an empty volume or a deployment a unit of time old; one more
  unit makes the server certificates due and the CA not, a second one lets
  them expire and makes the CA due.
- *Keys.* One more than the five places that can hold one when a new one is drawn, so that
  a new key is never one in use.
- *Accounts.* Two identities and three addresses let an address pass from one to
  the other while both keep one; two attempts interleave in every order, one after the
  other for as long as a run lasts, as nothing there is bounded but the rows.
- *Rows.* With three versions a copy can be stale when the row may still change. A change
  of role takes one of them. Groceries and calendar events have two names, without which
  a stale check-off could not be told from a current one; chores differ in their rules and need one.
- *Limiter.* Four calls fill a window of two hits, leave it and fill it again;
  times span three windows.
- *Symmetry* is used only in runs without liveness, over values the modules never order.
- `CHECK_DEADLOCK FALSE` stands where a finite set of requests is used up and
  nothing is left to do. Where the system never stops (Membership), deadlock is
  checked.

### Fairness

- Workers: `Worker.Run` polls for ever and its database calls return, so each worker's
  next step is weakly fair. Crashes, stalls, failures and everything clients do
  are never fair, and crashes and lapses are bounded: under unbounded ones no
  liveness holds, in the code neither.
- Time passes (`Tick`).
- HouseEvents: a transaction goes on (weak), and whoever waits for a row lock
  gets it (strong), as PostgreSQL queues waiters. A client whose stream
  ended reconnects with its `Last-Event-ID`, as event-stream clients do
  (`TestHouseEventsSSEReconnectUsesCursorAndPollingFallback`).
- Startup: docker restarts what exits (`restart: unless-stopped`), so PostgreSQL and
  each program are weakly fair, and so is a run of `tls-init` once begun; the operator repeats one
  that failed, and leaves it at one that succeeded (`OperatorRests`). Deaths are
  not fair and bounded. PostgreSQL loads its certificate when it starts and
  nothing in the deployment restarts it, so `EventuallyReady` excuses who meets
  one that does not verify.

An iteration of the worker ends at the first error, so an error that never
stops in an earlier stage would keep it from later ones; fairness assumes that
errors of the database pass.

## What is proved

All theorems hold for every value of the constants under the modules' named
assumptions (`OutboxAssumption`-style `ASSUME`s, which TLC also evaluates for every instance).
Each proof follows the same line: an inductive invariant `IInv`, a lemma per
action that it is preserved (one step per conjunct the action disturbs), a
lemma for `Next` by cases, and theorems that combine them with the PTL backend.

- **OutboxJobsProofs.** `IInv` adds three parts to the type. `Rows` says what a
  job row and its message row may look like together; `Snapshots` ties what a worker holds in memory
  to the generation it was leased under (it is never newer than the row, and
  two workers never hold the same one); `Stages` says what must have happened
  for a worker to be at a stage. The properties alone are not inductive: that
  rows agree after a completion needs that the completing worker holds the
  current generation. Proved: `TypeOK`, `RowsAgree`, `LinkErased`, `OneLeaseHolder`,
  `DispatchedMeansSent`, `DeadLetterAfterRetries`, `LeaseFences`, and
  `KeepsPromise`, the refinement of MessageDelivery. `DuplicatesHaveCause` needs an
  account of sends to come: a worker that lost its lease before it sent (`Stale`) may still
  send, and a second one may be sending meanwhile. `Budget` says that what a provider has accepted
  of a message, without the sends that were taken for failed, and the stale workers that hold it are
  together no more than its lapsed leases and the one send that is due (`Slack`). A lapse makes at most one
  worker stale and raises the bound by one; a stale worker's send moves it from one summand to the
  other. Its second half needs an account of the leases instead: sends and workers about to
  send are no more than the leases taken (`Tries`), each of which is an attempt that `FailOutboxJob` counts or one
  that ran out (`Retries`).
- **OutboxJobsProofs, Notifications.** `DispatchesSound`: one worker at a time is in a dispatch
  (the lock on the house), and until it commits everything it has read still holds - the user's
  membership, the active rows of the devices it holds, the deliveries that wait. `PlansSound`: only who is or was a
  member is told, and a trigger comes with a delivery. `SubscriptionsSound`: what a registration
  may have encrypted under. `Told`: a device has been told an occasion at
  most once, and if the delivery still waits the dispatch under way is the one that told it, or that push is
  among those `undone`. Proved: all safety properties of the run, `NotificationsInv`, `ToldOnce` and
  `DispatchesAreAuthorized`.
- **MembershipProofs.** `IInv` adds `InFlight`, what a request between checks
  and transaction may hold. Proved: all properties of the run. That an address has one open
  invitation (`OneInvitationPerAddress`) rests on creations that clear what is overdue before they look. That a house keeps
  an admin rests on the look at other admins under the row lock of the house,
  never on the role read before.
- **IdempotencyProofs.** `IInv` ties each record to the one call past its
  `INSERT`, and each answer to a completed record. Proved: all properties of the run,
  among them `InProgressOrCutOff`, which needs that a call at work holds the
  record of its key alone.
- **ExpensesProofs.** `IInv` adds what requests hold of the rows they read.
  Proved: `TypeOK`, `NoOrphans`, `ChargedUsersAreActive` and `OnlyStaleUpdatesDisagree`.
- **ExpensesProofs, Balances.** What a request has counted adds up to nothing (`NetsAddUp`): an
  expense is counted only if the splits read now make up the amount read before, so what its
  payer gains is what the others lose, whatever was updated or deleted in between. Of the
  settlement loop, `LoopSound`: those before its places in the two lists are even and the
  others still on their side, what is left adds up to nothing, everyone has been paid what they
  no longer have left, and payments and people left uneven are together no more than the people who were uneven at
  first. A turn makes somebody even, and the last one two at once, hence fewer payments than
  people. When a list is used up, what is left is on one side only and adds up to nothing, so
  it is nothing (`LoopEnds`). Proved: `BalancesSettle` and `EverybodyEven`, for any number of people and any
  nets; on the way a small theory of the library's sums over finite sets (`SumStep`, `SumPlus`,
  `SumOn`, `SumChange`, ...).
- **HouseholdProofs.** `IInv` adds `Untouched` (a row that was never stored has left nothing
  behind), `CopiesSound` and `RequestsSound` (a copy a client holds or a
  request brings is of a version the row has had, and shows the row if that is still its version) and `CompletionsSound`.
  Proved: `HouseholdInv`, `CompletedOnce`, `NoLostUpdate`. An update is guarded by a version
  number only; that nothing unseen is overwritten needs that equal versions of a row are
  equal in content, which no single step shows. For the answers to updates to agree, only
  groceries may be checked off (`ChecksSound`). That Household implements HouseItems
  (`HouseholdSharesItems`) needs that a request brings what its user was last shown (`Brings`):
  a client asks for nothing else while its request is on the way.
- **HouseholdProofs, Chat.** `RunsSound`: of the messages a run of the retention has found, each is still to be
  redacted, is redacted under its lock, or had lost its body when its turn came, and none has
  been announced yet; a run that is claimed holds the lock. From this `RedactionsAreAnnounced`
  follows at the commit. Proved: `ChatInv` and `BodyNeverReturns`: an edit is refused for a
  message that was deleted or redacted, and waits (`Held`) for the row lock of a redaction under
  way, so that none writes a body between the redaction and its commit.
- **HouseEventsProofs.** `IInv` adds `CursorsSound` (cursors are distinct and drawn
  in order), `LocksSound` (who holds which lock on the house), `PagesSound` and `PassedSound`
  (what a reader has passed without receiving it is of a kind it may pass). Proved: `HouseEventsInv` and `StreamsOnlyToMembers`. The last event of a
  page is a maximum of cursors, taken from the well-foundedness of `<` on the
  naturals. That HouseEvents implements HouseLog (`StreamsFollowLog`) needs two more facts:
  what a stream has received is committed and not ahead of its cursor (`Received`), and a writer that
  commits under a lock has a cursor beyond every stream's (`CommitsAhead`), as a stream reads its
  page while nobody else holds the house.
- **HouseEventsProofs, Scheduler.** `RunsSound`: the occurrence a worker has claimed is the `next` of the event still,
  and nobody else has claimed that event. `SaversSound`: a save that was worked out brings the first
  occurrence since the time it read. `Announced`: an occurrence still ahead has been announced for
  earlier edits only, which is what lets an edit set `next` back to it. Proved: `SchedulerInv`
  (`NothingPassedOver`, one reminder of an occurrence, announcements bounded by edits).
- **AccountsProofs.** `IInv` adds `Rows` (uniqueness, and which links a row with a password can
  have), `AttemptsSound` (what an attempt holds of the account it found, which is one that can be read), `VouchedOnce` and `Homes`
  (the account of an identity carries its link unless it was displaced). Proved: all
  properties of the run.
- **AccountsProofs, Sessions.** `RequestsKnow`: a request past the check of its token's signature
  carries a token that was issued, and one that began after the sign-out (`late`) a token that was signed out.
  Proved: `SessionsInv`, that no purge takes the revocation of a token that could still be used,
  whatever the clock of the worker, and `SignedOutStaysOut`.
- **AccountsProofs, RateLimit.** `HitsSound`: the hits a limiter holds of a key are calls it has allowed, and one
  it has allowed and holds no more had left the window of some later call. If the calls of the
  key are in order, that one is outside the window of every call to come, which makes the
  verdicts exact. `SweepSound`: a key that is held was used since, or less than a window
  before, the last sweep, and the last sweep is less than a window ago. Proved: both halves of `SignInsAreLimited`, for
  histories of any length, any window and any limit.
- **StartupProofs.** `IInv` has a part for the files and one for the schema, each
  preserved by the steps of its module and untouched by the other's. `CertificatesInv` says
  at each step of `Ensure` what the run has seen to by then (`RunSound`), and that a CA
  whose key is not its own was due (`CAKeyLags`: a run died between the two files of a
  new CA); without it a dead run would be a reason of its own to replace the CA.
  `SchemaInv` says that the lock has one holder, whose transaction continues the
  prefix the ledger has. Proved: `StartupInv` and `TrustRootKept`.

The invariants the runs check as one (`OutboxInv`, `MembershipInv`,
`IdempotencyInv`, `ExpensesInv`, ...) follow from their parts. `DispatchedMeansSent` is
checked as part of `KeepsPromise`; `LeaseFences` is proved and in no run.

Only model-checked: the liveness properties `EventuallySettled`, `EventuallyDue`,
`LogIsServed` (its half `Log!Served`), `RemovedStreamsClose` (its second half), `EventuallyForgotten`,
`EventuallyPurged` and `EventuallyReady` (liveness and `ENABLED` are out of the prover's reach).
Every safety property of a run is a theorem.

Histories, loops and sums need induction over numbers and finite sets. The library's
induction theorems take an operator the installed provers cannot instantiate, so the proofs go by least
counterexample instead: a set of numbers without a least one is empty (`Least`, from the
well-foundedness of `<`), hence a *set* of numbers that has 0 and is closed under successor has all (`Reaches`), and
so for subsets of a finite set (`Subsets`). The same gives the existence of the recursive functions (`LimitersExist`,
`TurnsExist`, `FoldExists`), which a definition by `CHOOSE` does not give by itself.

## What the models leave out

- SQLite: its transactions are serial, so whatever holds of PostgreSQL's holds there.
- Amounts are cents already: `moneyToCents` rounds floating-point input.
- Calendar arithmetic: recurrence rules are sets of instants, quiet hours and
  digest times a flag that turns.
- Notifications: one house in each instance (locks and rows of houses do not
  interact), no rotation of keys, no audit entries. Deliveries to a member who
  left and returned may stay undispatched, and the model allows it as the code does.
- Household: validation and the check of an assignee are among the ways `Refuse`
  may end a request; the answer of an update to a client that sent no field shows the row
  as it was read.
- House events of role changes, removals and renames are appended after their
  commit on a best effort; a roll-back of the writer stands for the loss.
- Sessions: a worker whose clock is ahead of the server's would purge early. The
  deployments the repository describes run both on one host.
- RateLimit: each process has limiters of its own, and they start empty with it.
- Accounts: the exchange of codes, `state` and PKCE of AuthKit and the comparison
  of passwords are external; names are left out, but that a name has changed is a
  reason to update.
- Startup: owners and modes of files, orderly shutdown, and backups. A migration is its
  number; what its SQL does is left out, but for the NULLs of migration 9 in Accounts.

### Not modelled

- House settings and notes are single statements on single rows: nothing comes between.
- Providers are network calls, which OutboxJobs and Notifications see as accepted,
  failed or accepted by a dispatch that then fails, and cryptography, of which Notifications has what binds a ciphertext to its row.
- Configuration and the HTTP server read the environment, route and log.
- Recurrence is modelled as far as Scheduler needs it (the next occurrence after a time); the
  calendar itself belongs to a library.
- The Flutter client: see the plan.

## Plan

Done, in order of importance: OutboxJobs with MessageDelivery, Membership, Idempotency,
Expenses, Settlements, Notifications, HouseEvents with HouseLog,
Household with HouseItems, Chat, Sessions,
Scheduler, Startup with InternalTLS and Migrations, Accounts, RateLimit; proofs of every
safety property of all of them. Next:

1. An abstract specification of "each reminder once", composed of Scheduler and
   Notifications.
2. *Client*: the Flutter client's session and house (`app_state.dart`,
   `api_client.dart`): late answers after a switch of house or a sign-out, and
   the idempotency keys it repeats, composed with Idempotency.
3. *Recurrence*: the limits of `Validate` and `Expand` as operators against a
   definition.
