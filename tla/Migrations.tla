----------------------------- MODULE Migrations -----------------------------
(***************************************************************************)
(* Schema migrations: RunMigrations of database/database.go and            *)
(* database/migrations.go, as every program runs them when it starts, on   *)
(* PostgreSQL.  (On SQLite, BEGIN IMMEDIATE is the lock.)                  *)
(*                                                                         *)
(* One transaction takes the advisory lock, prepares the ledger and goes   *)
(* through the migrations the program knows: it looks each one up in the   *)
(* ledger and, unless it is there, changes the schema and records it.      *)
(* Nothing is seen by others before the commit.  A migration is not        *)
(* idempotent, and programs of different releases know different numbers   *)
(* of them.                                                                *)
(***************************************************************************)
EXTENDS Integers, Sequences, FiniteSets

CONSTANTS
  Programs,
  Latest      \* number of migrations the last release knows

ASSUME MigrationsAssumption == Latest \in Nat \ {0}

VARIABLES
  schema,   \* the migrations whose changes are committed, in their order
  ledger,   \* rows of schema_migrations
  named,    \* schema_migrations exists, with the column every record fills
  prog      \* each program, with its own transaction

migrationVars == <<schema, ledger, named, prog>>

Versions == 1..Latest

\* `next' is the migration its transaction is at, `done' those it has made so far.
Program == [pc : {"down", "waiting", "check", "up", "migrated", "ready"},
            release : Versions, next : 1..(Latest + 1), done : Seq(Versions)]
Down(r) == [pc |-> "down", release |-> r, next |-> 1, done |-> <<>>]

MigrationsTypeOK ==
  /\ schema \in Seq(Versions)
  /\ ledger \subseteq Versions
  /\ named \in BOOLEAN
  /\ prog \in [Programs -> Program]

\* A new database, or one whose ledger is older than the names of migrations.
MigrationsInit ==
  /\ schema \in {<<>>, <<1>>}
  /\ ledger = {schema[i] : i \in 1..Len(schema)}
  /\ named = FALSE
  /\ prog = [p \in Programs |-> Down(1)]

InTransaction(p) == prog[p].pc \in {"waiting", "check", "up"}
HasLock(p) == prog[p].pc \in {"check", "up"}
Own(p) == {prog[p].done[i] : i \in 1..Len(prog[p].done)}
Moves(p, pc) == prog' = [prog EXCEPT ![p].pc = pc]

\* Connect has an answer, and the transaction begins.
Begin(p) ==
  /\ prog[p].pc = "down"
  /\ Moves(p, "waiting")
  /\ UNCHANGED <<schema, ledger, named>>

\* Mutant of Lock: there is no advisory lock.
LockNothing(p) ==
  /\ prog[p].pc = "waiting"
  /\ Moves(p, "check")
  /\ UNCHANGED <<schema, ledger, named>>

\* pg_advisory_xact_lock, held until the transaction ends.  The ledger is created, or
\* given its column, in the same transaction (see Commit).
Lock(p) ==
  /\ prog[p].pc = "waiting"
  /\ \A q \in Programs : ~HasLock(q)
  /\ Moves(p, "check")
  /\ UNCHANGED <<schema, ledger, named>>

\* Mutant of CheckMigration: a ledger that knows more than the program stops it.
CheckMigrationStrictly(p) ==
  /\ prog[p].pc = "check" /\ prog[p].next <= prog[p].release
  /\ prog' = IF \E v \in ledger : v > prog[p].release
       THEN [prog EXCEPT ![p] = Down(prog[p].release)]
       ELSE IF prog[p].next \in ledger \cup Own(p)
         THEN [prog EXCEPT ![p].next = @ + 1]
         ELSE [prog EXCEPT ![p].pc = "up"]
  /\ UNCHANGED <<schema, ledger, named>>

\* The row of the next migration is looked up.
CheckMigration(p) ==
  /\ prog[p].pc = "check" /\ prog[p].next <= prog[p].release
  /\ IF prog[p].next \in ledger \cup Own(p)
       THEN prog' = [prog EXCEPT ![p].next = @ + 1]
       ELSE Moves(p, "up")
  /\ UNCHANGED <<schema, ledger, named>>

\* Another transaction has made the same change and has not ended.
Blocked(p) ==
  \E q \in Programs \ {p} : prog[p].next \in Own(q)

\* The change and its row: a column that exists, or a version that is recorded, fails
\* the transaction, and with it the start of the program.
Up(p) ==
  /\ prog[p].pc = "up" /\ ~Blocked(p)
  /\ prog' = IF prog[p].next \in ledger
       THEN [prog EXCEPT ![p] = Down(prog[p].release)]
       ELSE [prog EXCEPT ![p].pc = "check", ![p].next = @ + 1,
                         ![p].done = Append(@, prog[p].next)]
  /\ UNCHANGED <<schema, ledger, named>>

Commit(p) ==
  /\ prog[p].pc = "check" /\ prog[p].next > prog[p].release
  /\ schema' = schema \o prog[p].done
  /\ ledger' = ledger \cup Own(p)
  /\ named' = TRUE
  /\ prog' = [prog EXCEPT ![p] = [Down(prog[p].release) EXCEPT !.pc = "migrated"]]

\* The program exits or is killed, and its transaction is rolled back.
Exit(p) ==
  /\ prog[p].pc # "down"
  /\ prog' = [prog EXCEPT ![p] = Down(prog[p].release)]
  /\ UNCHANGED <<schema, ledger, named>>

\* The image of the next release.
Upgrade(p) ==
  /\ prog[p].pc = "down" /\ prog[p].release < Latest
  /\ prog' = [prog EXCEPT ![p].release = @ + 1]
  /\ UNCHANGED <<schema, ledger, named>>

MigrationStep(p) == Lock(p) \/ CheckMigration(p) \/ Up(p) \/ Commit(p)

-----------------------------------------------------------------------------
(* Correctness *)

\* Each migration has changed the schema once, in the order of the versions, and the
\* ledger says so, whoever dies between which two of its statements.
SchemaIsThePrefix ==
  /\ schema = [i \in 1..Len(schema) |-> i]
  /\ ledger = 1..Len(schema)

\* Programs that start together never make a migration twice: the one at hand is
\* nobody's but its own, so no start fails on the work of another.
NoCollision ==
  \A p \in Programs : prog[p].pc = "up" =>
    /\ prog[p].next \notin ledger
    /\ \A q \in Programs \ {p} : prog[p].next \notin Own(q)

\* A program that serves finds every change of its release.
ReadyIsMigrated ==
  \A p \in Programs : prog[p].pc \in {"migrated", "ready"} => prog[p].release <= Len(schema) /\ named
=============================================================================
