------------------------------- MODULE Startup -------------------------------
(***************************************************************************)
(* How the system comes up (docker-compose.yml and main.go): `tls-init'    *)
(* writes the certificates, PostgreSQL starts with its pair, and `serve'   *)
(* and `worker' connect with verify-full, migrate the schema and serve.    *)
(* The containers are created once a run of `tls-init' has ended with      *)
(* success; from then on docker restarts whatever exits, also in the       *)
(* middle of a later run.                                                  *)
(***************************************************************************)
EXTENDS InternalTLS, Migrations

CONSTANTS
  MaxFaults,    \* bound on what dies
  MaxChanges    \* bound on units of time and changes of names together

ASSUME StartupAssumption == MaxFaults \in Nat /\ MaxChanges \in Nat

VARIABLES
  created,   \* the containers exist
  stale,     \* PostgreSQL started in an unfinished run, or before the CA was replaced
  faults,
  changes

vars == <<files, step, newCA, hosts, completed, served,
          schema, ledger, named, prog, created, stale, faults, changes>>

TypeOK ==
  /\ TLSTypeOK /\ MigrationsTypeOK
  /\ created \in BOOLEAN /\ stale \in BOOLEAN /\ faults \in 0..MaxFaults /\ changes \in 0..MaxChanges

Init ==
  /\ TLSInit /\ MigrationsInit
  /\ completed <=> schema # <<>>   \* a new deployment or an old one
  /\ created = completed /\ stale = FALSE /\ faults = 0 /\ changes = 0

Fault == faults < MaxFaults /\ faults' = faults + 1

-----------------------------------------------------------------------------
(* tls-init *)

\* The operator brings the system up, again after a run that failed.
RunTLSInit ==
  /\ Ensure
  /\ UNCHANGED <<migrationVars, created, stale, faults, changes>>

\* A server that runs while the CA is replaced keeps the certificate of the old one.
TLSInitStep ==
  /\ EnsureStep
  /\ created' = (created \/ completed')
  /\ stale' = IF IssueCA THEN Running ELSE stale
  /\ UNCHANGED <<migrationVars, faults, changes>>

TLSInitDies ==
  /\ Fault /\ Interrupted
  /\ UNCHANGED <<migrationVars, created, stale, changes>>

Change == changes < MaxChanges /\ changes' = changes + 1

ChangeHosts ==
  /\ Change /\ \E l \in Leaves : AskFor(l)
  /\ UNCHANGED <<migrationVars, created, stale, faults>>

\* Nor does a start take such time.
Tick ==
  /\ Change /\ Age
  /\ \A p \in Programs : prog[p].pc \in {"down", "ready"}
  /\ UNCHANGED <<migrationVars, created, stale, faults>>

-----------------------------------------------------------------------------
(* PostgreSQL *)

StartDB ==
  /\ created /\ StartServer
  /\ stale' = ~completed
  /\ UNCHANGED <<migrationVars, created, faults, changes>>

\* The transactions of its clients are gone with it, and they exit; a program that is
\* past its migrations connects again when it needs to.
DBDies ==
  /\ Fault /\ StopServer
  /\ prog' = [p \in Programs |-> IF InTransaction(p) THEN Down(prog[p].release) ELSE prog[p]]
  /\ stale' = FALSE
  /\ UNCHANGED <<schema, ledger, named, created, changes>>

-----------------------------------------------------------------------------
(* run *)

\* database.Connect, which fails the start, and docker tries again, until PostgreSQL
\* runs and its certificate verifies.
Connect(p) ==
  /\ created /\ Verifies /\ Begin(p)
  /\ UNCHANGED <<tlsVars, created, stale, faults, changes>>

Migrate(p) ==
  /\ MigrationStep(p)
  /\ UNCHANGED <<tlsVars, created, stale, faults, changes>>

\* The worker has no certificate.
RunWorker(p) ==
  /\ p = "worker" /\ prog[p].pc = "migrated"
  /\ Moves(p, "ready")
  /\ UNCHANGED <<tlsVars, schema, ledger, named, created, stale, faults, changes>>

\* ListenAndServeTLS: a pair that does not match ends the program.
RunServer(p) ==
  /\ p = "serve" /\ prog[p].pc = "migrated"
  /\ prog' = [prog EXCEPT ![p] = IF Paired("backend") THEN [@ EXCEPT !.pc = "ready"]
                                 ELSE Down(prog[p].release)]
  /\ UNCHANGED <<tlsVars, schema, ledger, named, created, stale, faults, changes>>

Dies(p) ==
  /\ Fault /\ Exit(p)
  /\ UNCHANGED <<tlsVars, created, stale, changes>>

NewRelease(p) ==
  /\ Upgrade(p)
  /\ UNCHANGED <<tlsVars, created, stale, faults, changes>>

Starts(p) == Connect(p) \/ Migrate(p) \/ RunWorker(p) \/ RunServer(p)

Next ==
  \/ RunTLSInit \/ TLSInitStep \/ TLSInitDies \/ ChangeHosts \/ Tick
  \/ StartDB \/ DBDies
  \/ \E p \in Programs : Starts(p) \/ Dies(p) \/ NewRelease(p)

Spec == Init /\ [][Next]_vars

\* The operator repeats a run that failed and leaves it at that some day, runs get on,
\* and docker restarts the rest ("restart: unless-stopped").
OperatorRests == <>[](step = At("idle"))

FairSpec ==
  /\ Spec /\ OperatorRests
  /\ WF_vars(~completed /\ RunTLSInit) /\ WF_vars(TLSInitStep) /\ WF_vars(StartDB)
  /\ \A p \in Programs : WF_vars(Starts(p))

-----------------------------------------------------------------------------
(* Correctness *)

\* PostgreSQL is refused by its clients only when a certificate has expired,
\* or when it started before the CA was replaced or in a run that was not over: an
\* interrupted run, repaired by the next, costs nobody a restart but these.
RefusedOnlyIfStale == Running /\ ~Expired /\ ~Verifies => stale

\* Files, schema and programs fit together.
StartupInv ==
  /\ TypeOK /\ RunsRepair /\ RefusedOnlyIfStale
  /\ SchemaIsThePrefix /\ NoCollision /\ ReadyIsMigrated

\* Whatever has died, every program comes up again, unless PostgreSQL holds a
\* certificate clients refuse, which only its own restart changes.
EventuallyReady ==
  \A p \in Programs : []<>(prog[p].pc = "ready" \/ (Running /\ ~Verifies))
=============================================================================
