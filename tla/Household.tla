------------------------------ MODULE Household ------------------------------
(***************************************************************************)
(* Groceries, chores and calendar events of one house                      *)
(* (repository/household.go, handlers/household.go): rows that clients     *)
(* copy, change and write back under the version they copied, and the      *)
(* completions of the occurrences of a chore.                              *)
(*                                                                         *)
(* A request is admitted by the role of its user, reads the row it is      *)
(* about (chores and calendar events) and runs one transaction, each step  *)
(* against the state it finds.  The first write of a transaction holds the *)
(* row, or the key, until the commit, so that a transaction is one step.   *)
(***************************************************************************)
EXTENDS Integers, FiniteSets

CONSTANTS
  Users,
  Items,        \* ids models.NewID() gives, each to one row
  Occurrences,  \* instants a recurrence rule may contain
  Names,        \* what else a row says
  NamesOf,      \* those a user may write into a row of each kind
  NoName, Nobody, NoItem,
  MaxVersion,   \* bound on the version of a row, to which changes of roles count
  MaxRoles      \* bound on changes of roles

Kinds == {"grocery", "chore", "calendar"}

ASSUME HouseholdAssumption ==
  /\ NamesOf \in [Kinds -> SUBSET Names]
  /\ NoName \notin Names /\ Nobody \notin Users /\ NoItem \notin Items
  /\ MaxVersion \in Nat \ {0} /\ MaxRoles \in Nat

VARIABLES
  kind,        \* the table of each item
  role,        \* of each user in house_members
  row,         \* the row of each item
  completion,  \* chore_completions: who completed an occurrence
  copy,        \* the representation each client holds of each item
  req,         \* the request each user has in flight
  journal,     \* house_events that announce a version of each item
  thanked,     \* how many requests were answered 201 for an occurrence
  changes

vars == <<kind, role, row, completion, copy, req, journal, thanked, changes>>

Roles == {"admin", "member", "monitor", "none"}

\* What a user sees of a row and may send back.
Content == [name : Names \cup {NoName}, checked : BOOLEAN,
            rule : SUBSET Occurrences, enabled : BOOLEAN]
Blank == [name |-> NoName, checked |-> FALSE, rule |-> {}, enabled |-> TRUE]

Row == [state : {"absent", "stored", "deleted"}, creator : Users \cup {Nobody},
        version : 0..MaxVersion, content : Content]

\* `answer' marks a copy that is the answer to an update of a grocery.
Copy == [version : 0..MaxVersion, content : Content, answer : BOOLEAN]
NoCopy == [version |-> 0, content |-> Blank, answer |-> FALSE]

\* `loaded' is what is left of the content the handler read; `keep' says the request leaves out
\* "enabled".
Request == [pc : {"idle", "admitted", "ready", "toggled"},
            op : {"none", "create", "update", "toggle", "delete", "complete"},
            item : Items \cup {NoItem}, base : Copy, new : Content,
            keep : BOOLEAN, as : Roles, loaded : Content]
Idle == [pc |-> "idle", op |-> "none", item |-> NoItem, base |-> NoCopy,
         new |-> Blank, keep |-> FALSE, as |-> "none", loaded |-> Blank]

TypeOK ==
  /\ kind \in [Items -> Kinds]
  /\ role \in [Users -> Roles]
  /\ row \in [Items -> Row]
  /\ completion \in [Items -> [Occurrences -> Users \cup {Nobody}]]
  /\ copy \in [Users -> [Items -> Copy]]
  /\ req \in [Users -> Request]
  /\ journal \in [Items -> Nat]
  /\ thanked \in [Items -> [Occurrences -> Nat]]
  /\ changes \in 0..MaxRoles
  /\ \A i \in Items : row[i].state = "stored" => row[i].version > 0

Init ==
  /\ kind \in [Items -> Kinds]
  /\ role \in [Users -> {"admin", "member"}] /\ \E u \in Users : role[u] = "admin"
  /\ row = [i \in Items |-> [state |-> "absent", creator |-> Nobody, version |-> 0,
                             content |-> Blank]]
  /\ completion = [i \in Items |-> [o \in Occurrences |-> Nobody]]
  /\ copy = [u \in Users |-> [i \in Items |-> NoCopy]]
  /\ req = [u \in Users |-> Idle]
  /\ journal = [i \in Items |-> 0]
  /\ thanked = [i \in Items |-> [o \in Occurrences |-> 0]]
  /\ changes = 0

Stored(i) == row[i].state = "stored"
Owned(i) == kind[i] # "grocery"

\* Promotion, demotion, removal, return; a house keeps an admin.
SetRole(u) ==
  /\ changes < MaxRoles /\ changes' = changes + 1
  /\ \A i \in Items : row[i].version + changes < MaxVersion
  /\ \E r \in Roles \ {role[u]} : role' = [role EXCEPT ![u] = r]
  /\ \E v \in Users : role'[v] = "admin"
  /\ UNCHANGED <<kind, row, completion, copy, req, journal, thanked>>

\* GET: the client holds what the row is now.
Get(u, i) ==
  /\ req[u].pc = "idle" /\ role[u] # "none"
  /\ copy' = [copy EXCEPT ![u][i] =
       IF Stored(i)
         THEN [version |-> row[i].version, content |-> row[i].content, answer |-> FALSE]
         ELSE NoCopy]
  /\ UNCHANGED <<kind, role, row, completion, req, journal, thanked, changes>>

-----------------------------------------------------------------------------
(* Requests *)

\* What a request may write into an item: only chores have occurrences that matter
\* and a switch, and no request but a toggle carries the check mark.
Writable(i) == {c \in Content : /\ c.name \in NamesOf[kind[i]] /\ ~c.checked
                                /\ kind[i] # "chore" => c.rule = {} /\ c.enabled}

\* mutator(): the role of the user is read, and kept.
MayAsk(u) == req[u].pc = "idle" /\ role[u] \notin {"none", "monitor"}
Admit(u, op, i, new, keep) ==
  /\ req' = [req EXCEPT ![u] =
       [pc |-> IF Owned(i) /\ op # "create" THEN "admitted" ELSE "ready",
        op |-> op, item |-> i, base |-> copy[u][i], new |-> new, keep |-> keep,
        as |-> role[u], loaded |-> Blank]]
  /\ UNCHANGED <<kind, role, row, completion, copy, journal, thanked, changes>>

AskCreate(u) ==
  /\ MayAsk(u)
  /\ \E i \in Items : \E new \in Writable(i) :
       /\ row[i].state = "absent" /\ \A v \in Users : req[v].item # i
       /\ Admit(u, "create", i, new, FALSE)

\* A client asks to change the items it holds, under the version it holds; a request
\* that leaves out the switch has none, for which TRUE stands.
AskUpdate(u) ==
  /\ MayAsk(u)
  /\ \E i \in Items : \E new \in Writable(i), keep \in BOOLEAN :
       /\ copy[u][i].version > 0
       /\ keep => kind[i] = "chore" /\ new.enabled
       /\ Admit(u, "update", i, new, keep)

AskToggle(u) ==
  /\ MayAsk(u)
  /\ \E i \in Items, c \in BOOLEAN :
       /\ copy[u][i].version > 0 /\ kind[i] = "grocery"
       /\ Admit(u, "toggle", i, [Blank EXCEPT !.checked = c], FALSE)

AskDelete(u) ==
  MayAsk(u) /\ \E i \in Items : copy[u][i].version > 0 /\ Admit(u, "delete", i, Blank, FALSE)

AskComplete(u) ==
  /\ MayAsk(u)
  /\ \E i \in Items, o \in Occurrences :
       /\ copy[u][i].version > 0 /\ kind[i] = "chore"
       /\ Admit(u, "complete", i, [Blank EXCEPT !.rule = {o}], FALSE)

\* The request ends without a change: validation, 403, 404, 409, or a failure.
Refuse(u) ==
  /\ req[u].pc \in {"admitted", "ready"}
  /\ req' = [req EXCEPT ![u] = Idle]
  /\ UNCHANGED <<kind, role, row, completion, copy, journal, thanked, changes>>

\* GetChore or GetCalendar, and canMutateOwnedResource; anyone who may write
\* completes a chore.  Of what was read the request needs the rule for a completion and
\* the switch it leaves out, and no longer the role.
Load(u) ==
  LET i == req[u].item IN
  /\ req[u].pc = "admitted" /\ Stored(i)
  /\ req[u].op = "complete" \/ req[u].as = "admin" \/ row[i].creator = u
  /\ req' = [req EXCEPT ![u].pc = "ready", ![u].as = "none", ![u].loaded =
       [Blank EXCEPT !.rule = IF req[u].op = "complete" THEN row[i].content.rule ELSE {},
                     !.enabled = req[u].keep => row[i].content.enabled]]
  /\ UNCHANGED <<kind, role, row, completion, copy, journal, thanked, changes>>

-----------------------------------------------------------------------------
(* Transactions *)

Runs(u, op) == req[u].pc = "ready" /\ req[u].op = op
Answered(u) == req' = [req EXCEPT ![u] = Idle]
Announced(i) == journal' = [journal EXCEPT ![i] = @ + 1]

\* Mutant of Current: the WHERE clause leaves out the version.
CurrentUnversioned(u) == Stored(req[u].item)

\* WHERE house_id = ... AND id = ... AND version = ...
Current(u) ==
  Stored(req[u].item) /\ row[req[u].item].version = req[u].base.version

Create(u) ==
  LET i == req[u].item IN
  /\ Runs(u, "create") /\ row[i].state = "absent"
  /\ row' = [row EXCEPT ![i] = [state |-> "stored", creator |-> u, version |-> 1,
                                content |-> req[u].new]]
  /\ copy' = [copy EXCEPT ![u][i] = [version |-> 1, content |-> req[u].new, answer |-> FALSE]]
  /\ Announced(i) /\ Answered(u)
  /\ UNCHANGED <<kind, role, completion, thanked, changes>>

\* What the update stores: an omitted switch is the one the handler read, and the
\* check mark is not among the columns.
Stores(u) ==
  [req[u].new EXCEPT !.enabled = IF req[u].keep THEN req[u].loaded.enabled ELSE @,
                     !.checked = row[req[u].item].content.checked]

\* UpdateGrocery, SaveChore, SaveCalendar.  The answer is the request with the next
\* version, so a grocery that is checked is answered as unchecked.
Update(u) ==
  LET i == req[u].item IN
  /\ Runs(u, "update") /\ Current(u) /\ row[i].version + changes < MaxVersion
  /\ row' = [row EXCEPT ![i].version = @ + 1, ![i].content = Stores(u)]
  /\ copy' = [copy EXCEPT ![u][i] = [version |-> row[i].version + 1, answer |-> ~Owned(i),
                content |-> [Stores(u) EXCEPT !.checked = FALSE]]]
  /\ Announced(i) /\ Answered(u)
  /\ UNCHANGED <<kind, role, completion, thanked, changes>>

\* Mutants of Toggle: a check mark is no reason for a new version; it is set whatever
\* the version.
ToggleUnversioned(u) ==
  LET i == req[u].item IN
  /\ Runs(u, "toggle") /\ Current(u) /\ row[i].version + changes < MaxVersion
  /\ row' = [row EXCEPT ![i].content.checked = req[u].new.checked]
  /\ req' = [req EXCEPT ![u].pc = "toggled"]
  /\ UNCHANGED <<kind, role, completion, copy, journal, thanked, changes>>

ToggleUnseen(u) ==
  LET i == req[u].item IN
  /\ Runs(u, "toggle") /\ Stored(i) /\ row[i].version + changes < MaxVersion
  /\ row' = [row EXCEPT ![i].version = @ + 1, ![i].content.checked = req[u].new.checked]
  /\ req' = [req EXCEPT ![u].pc = "toggled"]
  /\ Announced(i)
  /\ UNCHANGED <<kind, role, completion, copy, thanked, changes>>

Toggle(u) ==
  LET i == req[u].item IN
  /\ Runs(u, "toggle") /\ Current(u) /\ row[i].version + changes < MaxVersion
  /\ row' = [row EXCEPT ![i].version = @ + 1, ![i].content.checked = req[u].new.checked]
  /\ req' = [req EXCEPT ![u].pc = "toggled"]
  /\ Announced(i)
  /\ UNCHANGED <<kind, role, completion, copy, thanked, changes>>

\* After its commit a toggle reads the row it answers with.
AnswerToggle(u) ==
  LET i == req[u].item IN
  /\ req[u].pc = "toggled"
  /\ copy' = [copy EXCEPT ![u][i] =
       IF Stored(i)
         THEN [version |-> row[i].version, content |-> row[i].content, answer |-> FALSE]
         ELSE NoCopy]
  /\ Answered(u)
  /\ UNCHANGED <<kind, role, row, completion, journal, thanked, changes>>

\* DeleteGrocery and deleteVersioned; the completions of a chore go with it.
Delete(u) ==
  LET i == req[u].item IN
  /\ Runs(u, "delete") /\ Current(u)
  /\ row' = [row EXCEPT ![i].state = "deleted"]
  /\ completion' = [completion EXCEPT ![i] = [o \in Occurrences |-> Nobody]]
  /\ copy' = [copy EXCEPT ![u][i] = NoCopy]
  /\ Answered(u)
  /\ UNCHANGED <<kind, role, journal, thanked, changes>>

\* Mutant of Complete: an occurrence that is found completed counts as completed by
\* this request.
CompleteAgain(u) ==
  LET i == req[u].item IN
  /\ Runs(u, "complete") /\ req[u].new.rule \subseteq req[u].loaded.rule
  /\ Stored(i)
  /\ \E o \in req[u].new.rule :
       /\ completion' = [completion EXCEPT ![i][o] = IF @ = Nobody THEN u ELSE @]
       /\ thanked' = [thanked EXCEPT ![i][o] = @ + 1]
  /\ Answered(u)
  /\ UNCHANGED <<kind, role, row, copy, journal, changes>>

\* The occurrence must be on the rule the handler read.  ON CONFLICT DO NOTHING
\* leaves the completion of someone else in place, and the request is refused; so
\* does the foreign key when the chore is gone.
Complete(u) ==
  LET i == req[u].item IN
  /\ Runs(u, "complete") /\ req[u].new.rule \subseteq req[u].loaded.rule
  /\ Stored(i)
  /\ \E o \in req[u].new.rule :
       /\ completion[i][o] = Nobody
       /\ completion' = [completion EXCEPT ![i][o] = u]
       /\ thanked' = [thanked EXCEPT ![i][o] = @ + 1]
  /\ Answered(u)
  /\ UNCHANGED <<kind, role, row, copy, journal, changes>>

Transaction(u) ==
  Create(u) \/ Update(u) \/ Toggle(u) \/ AnswerToggle(u) \/ Delete(u) \/ Complete(u)

Next ==
  \E u \in Users :
    \/ SetRole(u)
    \/ \E i \in Items : Get(u, i)
    \/ AskCreate(u) \/ AskUpdate(u) \/ AskToggle(u) \/ AskDelete(u) \/ AskComplete(u)
    \/ Load(u) \/ Refuse(u) \/ Transaction(u)

Spec == Init /\ [][Next]_vars

-----------------------------------------------------------------------------
(* Correctness *)

\* A version names one content: a copy whose version is the one stored shows what
\* is stored.  The check mark in the answer to an update of a grocery is excepted, as that
\* answer repeats the request, which has none.
CopiesAgree ==
  \A u \in Users, i \in Items :
    copy[u][i].version > 0 /\ Stored(i) /\ copy[u][i].version = row[i].version =>
      [copy[u][i].content EXCEPT !.checked =
         IF copy[u][i].answer THEN row[i].content.checked ELSE @] = row[i].content

\* "want version conflict" (TestHouseholdVersionsRecurrenceCompletionAndRetention):
\* whatever a user overwrites or deletes is what their client showed them, and a
\* switch their request leaves out stays as it was.
NoLostUpdate ==
  [][\A u \in Users, i \in Items :
       /\ Runs(u, "update") \/ Runs(u, "delete")
       /\ req[u].item = i /\ req'[u].pc = "idle" /\ row'[i] # row[i]
       => LET seen == req[u].base.content
              old == row[i].content IN
          /\ seen.name = old.name /\ seen.rule = old.rule /\ seen.enabled = old.enabled
          /\ seen.checked # old.checked => req[u].base.answer
          /\ req[u].keep => row'[i].content.enabled = old.enabled]_vars

\* What an item says, apart from its check mark.
Text(c) == [name |-> c.name, rule |-> c.rule, enabled |-> c.enabled]

\* Rows as those who share them see them: what a user was shown is the copy of their
\* client.
Shared == INSTANCE HouseItems WITH
  Texts <- {Text(c) : c \in Content},
  life <- [i \in Items |-> CASE row[i].state = "absent" -> "unborn"
                              [] row[i].state = "stored" -> "present"
                              [] row[i].state = "deleted" -> "gone"],
  text <- [i \in Items |-> Text(row[i].content)],
  mark <- [i \in Items |-> row[i].content.checked],
  shown <- [u \in Users |-> [i \in Items |->
              IF copy[u][i].version = 0 THEN {} ELSE {Text(copy[u][i].content)}]],
  waiting <- {u \in Users : req[u].pc = "toggled"},
  announced <- journal, done <- completion, told <- thanked

\* Versions do for users what they are for: no update is lost, and Household implements
\* HouseItems, so that nobody changes, checks off or deletes an item unless it says
\* what they were shown.
ChangesAreInformed == NoLostUpdate /\ Shared!Spec

\* "want unique completion": at most one user is told that they completed an
\* occurrence, and while the chore lives it is the one on record.
CompletedOnce ==
  \A i \in Items, o \in Occurrences :
    /\ thanked[i][o] <= 1
    /\ Stored(i) => (thanked[i][o] = 1 <=> completion[i][o] # Nobody)

\* Completions live and die with their chore.
NoOrphanCompletions ==
  \A i \in Items, o \in Occurrences : completion[i][o] # Nobody => Stored(i)

\* Every version of a row is announced to the house by one event.
VersionsAreAnnounced == \A i \in Items : Stored(i) => journal[i] = row[i].version

\* A row, the copies of it, the events that announce it and its completions belong
\* together, however transactions of several users follow each other.
HouseholdInv == TypeOK /\ VersionsAreAnnounced /\ CopiesAgree /\ NoOrphanCompletions
=============================================================================
