---------------------------- MODULE HouseholdProofs ----------------------------
(* What holds of household rows for every number of users, items, versions and *)
(* occurrences.                                                                *)
EXTENDS Household, Chat, FiniteSetTheorems, TLAPS

\* A row that was never stored has left nothing behind.
Untouched ==
  \A i \in Items : row[i].state = "absent" =>
    /\ row[i].version = 0 /\ journal[i] = 0
    /\ \A o \in Occurrences : thanked[i][o] = 0

Agrees(c, r) ==
  [c.content EXCEPT !.checked = IF c.answer THEN r.content.checked ELSE @] = r.content

\* A copy is of a version the row has had, and shows the row if that is its version.
CopySound(c, i) ==
  /\ c.version <= row[i].version
  /\ c.version > 0 /\ Stored(i) /\ c.version = row[i].version => Agrees(c, row[i])

CopiesSound == \A u \in Users, i \in Items : CopySound(copy[u][i], i)

\* What a request brings is a copy like others, and the switch its handler has read is
\* that of the row, unless the row has moved on since.
RequestSound(q) ==
  /\ q.pc # "idle" => q.item \in Items
  /\ q.item \in Items => CopySound(q.base, q.item)
  /\ q.op \in {"update", "toggle", "delete", "complete"} => q.base.version > 0
  /\ q.op = "update" /\ q.keep => kind[q.item] = "chore"
  /\ q.op = "create" => ~q.new.checked
  /\ q.op = "toggle" => ~Owned(q.item)
  /\ q.op = "update" /\ q.keep /\ q.pc = "ready" /\ Stored(q.item)
       /\ q.base.version = row[q.item].version
       => q.loaded.enabled = row[q.item].content.enabled

RequestsSound == \A u \in Users : RequestSound(req[u])

CompletionsSound == CompletedOnce /\ NoOrphanCompletions

\* Only groceries are checked off.
ChecksSound == \A i \in Items : Owned(i) => ~row[i].content.checked

\* The strengthening of the invariants that is inductive.
IInv ==
  /\ TypeOK /\ VersionsAreAnnounced /\ Untouched /\ ChecksSound
  /\ CopiesSound /\ RequestsSound /\ CompletionsSound

-----------------------------------------------------------------------------
(* Steps that change no row *)

LEMMA IdleSound == Idle \in Request /\ NoCopy \in Copy /\ RequestSound(Idle)
<1>1. 0 \in 0..MaxVersion
  BY HouseholdAssumption DEF HouseholdAssumption
<1>2. Blank \in Content
  BY HouseholdAssumption DEF HouseholdAssumption, Blank, Content
<1>3. NoCopy \in Copy
  BY <1>1, <1>2 DEF NoCopy, Copy
<1>4. Idle \in Request
  BY <1>2, <1>3, HouseholdAssumption DEF HouseholdAssumption, Idle, Request, Roles
<1>5. RequestSound(Idle)
  BY HouseholdAssumption DEF HouseholdAssumption, RequestSound, Idle
<1> QED
  BY <1>3, <1>4, <1>5

LEMMA RowTyped ==
  ASSUME TypeOK, NEW i \in Items
  PROVE  /\ row[i] \in Row /\ row[i].version \in Nat /\ row[i].version \in 0..MaxVersion
         /\ row[i].content \in Content /\ MaxVersion \in Nat
         /\ row[i].content.checked \in BOOLEAN
BY HouseholdAssumption DEF HouseholdAssumption, TypeOK, Row, Content

LEMMA CopyTyped ==
  ASSUME TypeOK, NEW u \in Users, NEW i \in Items
  PROVE  copy[u][i] \in Copy /\ copy[u][i].version \in Nat
BY HouseholdAssumption DEF HouseholdAssumption, TypeOK, Copy

\* A request is taken up, goes on or ends.
LEMMA RequestMoves ==
  ASSUME IInv, NEW u \in Users, NEW q \in Request, RequestSound(q),
         req' = [req EXCEPT ![u] = q],
         UNCHANGED <<kind, role, row, completion, copy, journal, thanked, changes>>
  PROVE  IInv'
<1>1. /\ req' \in [Users -> Request]
      /\ \A v \in Users : req'[v] = IF v = u THEN q ELSE req[v]
  BY DEF IInv, TypeOK
<1>2. TypeOK'
  BY <1>1 DEF IInv, TypeOK
<1>3. RequestsSound'
  <2> SUFFICES ASSUME NEW v \in Users PROVE RequestSound(req[v])'
    BY DEF RequestsSound
  <2>1. RequestSound(req'[v])
    BY <1>1 DEF IInv, RequestsSound
  <2> QED
    BY <2>1 DEF RequestSound, CopySound, Stored, Owned
<1>4. VersionsAreAnnounced' /\ Untouched' /\ ChecksSound' /\ CopiesSound' /\ CompletionsSound'
  BY DEF IInv, VersionsAreAnnounced, Untouched, ChecksSound, Owned,
         CopiesSound, CopySound, Stored, CompletionsSound, CompletedOnce, NoOrphanCompletions
<1> QED
  BY <1>2, <1>3, <1>4 DEF IInv

LEMMA AdmitKeeps ==
  ASSUME IInv, NEW u \in Users, NEW i \in Items, NEW new \in Content, NEW keep \in BOOLEAN,
         NEW op \in {"create", "update", "toggle", "delete", "complete"},
         op # "create" => copy[u][i].version > 0,
         op = "update" /\ keep => kind[i] = "chore",
         op = "create" => ~new.checked,
         op = "toggle" => ~Owned(i),
         Admit(u, op, i, new, keep)
  PROVE  IInv'
<1> DEFINE q == [pc |-> IF Owned(i) /\ op # "create" THEN "admitted" ELSE "ready",
                 op |-> op, item |-> i, base |-> copy[u][i], new |-> new, keep |-> keep,
                 as |-> role[u], loaded |-> Blank]
<1>1. copy[u][i] \in Copy /\ role[u] \in Roles /\ Blank \in Content
  BY CopyTyped, HouseholdAssumption DEF HouseholdAssumption, IInv, TypeOK, Blank, Content
<1>2. q \in Request
  BY <1>1 DEF Request
<1>3. /\ q.item = i /\ q.op = op /\ q.base = copy[u][i] /\ q.keep = keep /\ q.new = new
      /\ q.pc = IF Owned(i) /\ op # "create" THEN "admitted" ELSE "ready"
  OBVIOUS
<1>4. /\ req' = [req EXCEPT ![u] = q]
      /\ UNCHANGED <<kind, role, row, completion, copy, journal, thanked, changes>>
  BY DEF Admit
<1> HIDE DEF q
<1>5. RequestSound(q)
  <2>1. op = "update" /\ keep => q.pc # "ready"
    BY <1>3 DEF Owned
  <2> QED
    BY <1>3, <2>1 DEF RequestSound, IInv, CopiesSound
<1> QED
  BY <1>2, <1>4, <1>5, RequestMoves

LEMMA AskKeeps ==
  ASSUME IInv, NEW u \in Users,
         AskCreate(u) \/ AskUpdate(u) \/ AskToggle(u) \/ AskDelete(u) \/ AskComplete(u)
  PROVE  IInv'
<1>1. \A i \in Items : \A new \in Writable(i) : new \in Content /\ ~new.checked
  BY DEF Writable
<1>2. Blank \in Content
  BY HouseholdAssumption DEF HouseholdAssumption, Blank, Content
<1>3. CASE AskCreate(u)
  BY <1>1, <1>3, AdmitKeeps DEF AskCreate
<1>4. CASE AskUpdate(u)
  <2>1. PICK i \in Items, new \in Content, keep \in BOOLEAN :
          /\ copy[u][i].version > 0
          /\ keep => kind[i] = "chore"
          /\ Admit(u, "update", i, new, keep)
    BY <1>1, <1>4 DEF AskUpdate
  <2> QED
    BY <2>1, AdmitKeeps
<1>5. CASE AskToggle(u)
  <2>1. PICK i \in Items, c \in BOOLEAN :
          /\ copy[u][i].version > 0 /\ ~Owned(i)
          /\ Admit(u, "toggle", i, [Blank EXCEPT !.checked = c], FALSE)
    BY <1>5 DEF AskToggle, Owned
  <2>2. [Blank EXCEPT !.checked = c] \in Content
    BY <1>2 DEF Content
  <2> QED
    BY <2>1, <2>2, AdmitKeeps
<1>6. CASE AskDelete(u)
  BY <1>2, <1>6, AdmitKeeps DEF AskDelete
<1>7. CASE AskComplete(u)
  <2>1. PICK i \in Items, o \in Occurrences :
          /\ copy[u][i].version > 0
          /\ Admit(u, "complete", i, [Blank EXCEPT !.rule = {o}], FALSE)
    BY <1>7 DEF AskComplete
  <2>2. [Blank EXCEPT !.rule = {o}] \in Content
    BY <1>2 DEF Content
  <2> QED
    BY <2>1, <2>2, AdmitKeeps
<1> QED
  BY <1>3, <1>4, <1>5, <1>6, <1>7

LEMMA RefuseKeeps ==
  ASSUME IInv, NEW u \in Users, Refuse(u)
  PROVE  IInv'
BY IdleSound, RequestMoves DEF Refuse

LEMMA LoadKeeps ==
  ASSUME IInv, NEW u \in Users, Load(u)
  PROVE  IInv'
<1> DEFINE i == req[u].item
           loaded == [Blank EXCEPT
             !.rule = IF req[u].op = "complete" THEN row[i].content.rule ELSE {},
             !.enabled = req[u].keep => row[i].content.enabled]
           q == [req[u] EXCEPT !.pc = "ready", !.as = "none", !.loaded = loaded]
<1>1. req[u] \in Request /\ req[u].pc = "admitted" /\ i \in Items
  BY DEF Load, IInv, TypeOK, RequestsSound, RequestSound
<1>2. /\ loaded \in Content
      /\ req[u].keep => loaded.enabled = row[i].content.enabled
  <2>1. row[i].content \in Content /\ Blank \in Content /\ req[u].keep \in BOOLEAN
    BY <1>1, RowTyped, HouseholdAssumption
    DEF HouseholdAssumption, IInv, Blank, Content, Request
  <2>2. row[i].content.enabled \in BOOLEAN /\ row[i].content.rule \in SUBSET Occurrences
    BY <2>1 DEF Content
  <2> QED
    BY <2>1, <2>2 DEF Content, Blank
<1> HIDE DEF loaded
<1>3. /\ q \in Request
      /\ q.item = i /\ q.op = req[u].op /\ q.base = req[u].base /\ q.keep = req[u].keep
      /\ q.pc = "ready" /\ q.loaded = loaded /\ q.new = req[u].new
  BY <1>1, <1>2 DEF Request, Roles
<1>4. req' = [req EXCEPT ![u] = q]
  BY DEF Load, IInv, TypeOK, loaded
<1>5. UNCHANGED <<kind, role, row, completion, copy, journal, thanked, changes>>
  BY DEF Load
<1> HIDE DEF q
<1>6. RequestSound(q)
  BY <1>1, <1>2, <1>3 DEF IInv, RequestsSound, RequestSound
<1> QED
  BY <1>3, <1>4, <1>5, <1>6, RequestMoves

\* What a client is shown is the row.
LEMMA ShownSound ==
  ASSUME IInv, NEW i \in Items
  PROVE  LET c == IF Stored(i)
                    THEN [version |-> row[i].version, content |-> row[i].content, answer |-> FALSE]
                    ELSE NoCopy
         IN  c \in Copy /\ CopySound(c, i)
<1>1. CASE Stored(i)
  <2> DEFINE c == [version |-> row[i].version, content |-> row[i].content, answer |-> FALSE]
  <2>1. c \in Copy
    BY RowTyped DEF IInv, Copy
  <2>2. [c.content EXCEPT !.checked = c.content.checked] = row[i].content
    BY RowTyped DEF IInv, Content
  <2>3. CopySound(c, i)
    BY <2>2, RowTyped DEF IInv, CopySound, Agrees
  <2> QED
    BY <1>1, <2>1, <2>3
<1>2. CASE ~Stored(i)
  BY <1>2, IdleSound, RowTyped DEF IInv, CopySound, NoCopy
<1> QED
  BY <1>1, <1>2

\* One client's copy of one item is replaced.
LEMMA CopyReplaced ==
  ASSUME TypeOK, NEW u \in Users, NEW i \in Items, NEW c \in Copy,
         copy' = [copy EXCEPT ![u][i] = c]
  PROVE  /\ copy' \in [Users -> [Items -> Copy]]
         /\ \A v \in Users, j \in Items :
              copy'[v][j] = IF v = u /\ j = i THEN c ELSE copy[v][j]
BY DEF TypeOK

LEMMA GetKeeps ==
  ASSUME IInv, NEW u \in Users, NEW i \in Items, Get(u, i)
  PROVE  IInv'
<1> DEFINE c == IF Stored(i)
                  THEN [version |-> row[i].version, content |-> row[i].content, answer |-> FALSE]
                  ELSE NoCopy
<1>1. c \in Copy /\ CopySound(c, i)
  BY ShownSound
<1>2. /\ copy' = [copy EXCEPT ![u][i] = c]
      /\ UNCHANGED <<kind, role, row, completion, req, journal, thanked, changes>>
  BY DEF Get
<1> HIDE DEF c
<1>3. /\ copy' \in [Users -> [Items -> Copy]]
      /\ \A v \in Users, j \in Items :
           copy'[v][j] = IF v = u /\ j = i THEN c ELSE copy[v][j]
  BY <1>1, <1>2, CopyReplaced DEF IInv
<1>4. CopiesSound'
  BY <1>1, <1>2, <1>3 DEF IInv, CopiesSound, CopySound, Stored
<1>5. RequestsSound'
  BY <1>2 DEF IInv, RequestsSound, RequestSound, CopySound, Stored, Owned
<1>6. VersionsAreAnnounced' /\ Untouched' /\ ChecksSound' /\ CompletionsSound'
  BY <1>2
  DEF IInv, VersionsAreAnnounced, Untouched, ChecksSound, Owned, Stored, CompletionsSound,
      CompletedOnce, NoOrphanCompletions
<1> QED
  BY <1>2, <1>3, <1>4, <1>5, <1>6 DEF IInv, TypeOK

LEMMA AnswerToggleKeeps ==
  ASSUME IInv, NEW u \in Users, AnswerToggle(u)
  PROVE  IInv'
<1> DEFINE i == req[u].item
           c == IF Stored(i)
                  THEN [version |-> row[i].version, content |-> row[i].content, answer |-> FALSE]
                  ELSE NoCopy
<1>1. i \in Items
  BY DEF AnswerToggle, IInv, RequestsSound, RequestSound
<1>2. c \in Copy /\ CopySound(c, i)
  BY <1>1, ShownSound
<1>3. /\ copy' = [copy EXCEPT ![u][i] = c] /\ req' = [req EXCEPT ![u] = Idle]
      /\ UNCHANGED <<kind, role, row, completion, journal, thanked, changes>>
  BY DEF AnswerToggle, Answered
<1> HIDE DEF c
<1>4. /\ copy' \in [Users -> [Items -> Copy]]
      /\ \A v \in Users, j \in Items :
           copy'[v][j] = IF v = u /\ j = i THEN c ELSE copy[v][j]
  BY <1>1, <1>2, <1>3, CopyReplaced DEF IInv
<1>5. /\ req' \in [Users -> Request]
      /\ \A v \in Users : req'[v] = IF v = u THEN Idle ELSE req[v]
  BY <1>3, IdleSound DEF IInv, TypeOK
<1>6. CopiesSound'
  BY <1>2, <1>3, <1>4 DEF IInv, CopiesSound, CopySound, Stored
<1>7. RequestsSound'
  <2> SUFFICES ASSUME NEW v \in Users PROVE RequestSound(req[v])'
    BY DEF RequestsSound
  <2>1. RequestSound(req'[v])
    BY <1>5, IdleSound DEF IInv, RequestsSound
  <2> QED
    BY <1>3, <2>1 DEF RequestSound, CopySound, Stored, Owned
<1>8. VersionsAreAnnounced' /\ Untouched' /\ ChecksSound' /\ CompletionsSound'
  BY <1>3
  DEF IInv, VersionsAreAnnounced, Untouched, ChecksSound, Owned, Stored, CompletionsSound,
      CompletedOnce, NoOrphanCompletions
<1> QED
  BY <1>3, <1>4, <1>5, <1>6, <1>7, <1>8 DEF IInv, TypeOK

LEMMA SetRoleKeeps ==
  ASSUME IInv, NEW u \in Users, SetRole(u)
  PROVE  IInv'
<1>1. /\ role' \in [Users -> Roles] /\ changes' \in 0..MaxRoles
      /\ UNCHANGED <<kind, row, completion, copy, req, journal, thanked>>
  BY HouseholdAssumption DEF HouseholdAssumption, SetRole, IInv, TypeOK
<1>2. RequestsSound' /\ CopiesSound'
  BY <1>1 DEF IInv, RequestsSound, RequestSound, CopySound, Stored, Owned, CopiesSound
<1>3. VersionsAreAnnounced' /\ Untouched' /\ ChecksSound' /\ CompletionsSound'
  BY <1>1
  DEF IInv, VersionsAreAnnounced, Untouched, ChecksSound, Owned, Stored, CompletionsSound,
      CompletedOnce, NoOrphanCompletions
<1> QED
  BY <1>1, <1>2, <1>3 DEF IInv, TypeOK

-----------------------------------------------------------------------------
(* Steps that change a row *)

\* A row that moves on leaves every copy of it behind, and what requests know of it.
LEMMA RowMovesOn ==
  ASSUME IInv, NEW i \in Items, NEW r \in Row, row' = [row EXCEPT ![i] = r], UNCHANGED kind,
         \/ r.version > row[i].version
         \/ r.version = row[i].version /\ r.state = "deleted"
  PROVE  /\ row' \in [Items -> Row]
         /\ \A j \in Items : row'[j] = IF j = i THEN r ELSE row[j]
         /\ \A c \in Copy, j \in Items : CopySound(c, j) => CopySound(c, j)'
         /\ \A q \in Request : RequestSound(q) => RequestSound(q)'
<1>1. row' \in [Items -> Row] /\ \A j \in Items : row'[j] = IF j = i THEN r ELSE row[j]
  BY DEF IInv, TypeOK
<1>2. ASSUME NEW c \in Copy, NEW j \in Items, CopySound(c, j)
      PROVE  CopySound(c, j)' /\ (Stored(j)' /\ c.version = row'[j].version => row'[j] = row[j])
  <2>1. c.version \in Nat /\ row[j].version \in Nat /\ r.version \in Nat
    BY RowTyped, HouseholdAssumption DEF HouseholdAssumption, IInv, Copy, Row
  <2>2. CASE j # i
    BY <1>1, <1>2, <2>2 DEF CopySound, Stored
  <2>3. CASE j = i /\ r.version > row[i].version
    BY <1>1, <1>2, <2>1, <2>3 DEF CopySound, Stored
  <2>4. CASE j = i /\ r.version = row[i].version /\ r.state = "deleted"
    BY <1>1, <1>2, <2>1, <2>4 DEF CopySound, Stored
  <2> QED
    BY <2>2, <2>3, <2>4
<1>3. ASSUME NEW q \in Request, RequestSound(q) PROVE RequestSound(q)'
  <2>1. CASE q.item \in Items
    <3>1. q.base \in Copy /\ CopySound(q.base, q.item)
      BY <1>3, <2>1 DEF Request, RequestSound
    <3>2. /\ CopySound(q.base, q.item)'
          /\ Stored(q.item)' /\ q.base.version = row'[q.item].version => row'[q.item] = row[q.item]
      BY <1>2, <2>1, <3>1
    <3> QED
      BY <1>3, <2>1, <3>2 DEF RequestSound, Owned, Stored
  <2>2. CASE q.item \notin Items
    <3>1. q.pc = "idle"
      BY <1>3, <2>2 DEF RequestSound
    <3> QED
      BY <1>3, <2>2, <3>1 DEF RequestSound, Owned
  <2> QED
    BY <2>1, <2>2
<1> QED
  BY <1>1, <1>2, <1>3

\* The transaction of a request writes the row, and its event.
LEMMA Written ==
  ASSUME IInv, NEW u \in Users, NEW q \in Request, NEW i \in Items, NEW r \in Row,
         row' = [row EXCEPT ![i] = r], r.state = "stored", r.version = row[i].version + 1,
         row[i].state \in {"absent", "stored"}, Owned(i) => ~r.content.checked,
         NEW c \in Copy,
         \/ UNCHANGED copy
         \/ copy' = [copy EXCEPT ![u][i] = c] /\ c.version = r.version /\ Agrees(c, r),
         RequestSound(q)', req' = [req EXCEPT ![u] = q],
         Announced(i),
         UNCHANGED <<kind, role, completion, thanked, changes>>
  PROVE  IInv'
<1>1. row[i].version \in Nat /\ r.version \in Nat /\ r.version > row[i].version
  BY RowTyped DEF IInv
<1>2. /\ row' \in [Items -> Row]
      /\ \A j \in Items : row'[j] = IF j = i THEN r ELSE row[j]
      /\ \A d \in Copy, j \in Items : CopySound(d, j) => CopySound(d, j)'
      /\ \A p \in Request : RequestSound(p) => RequestSound(p)'
  BY <1>1, RowMovesOn
<1>3. /\ req' \in [Users -> Request]
      /\ \A v \in Users : req'[v] = IF v = u THEN q ELSE req[v]
  BY DEF IInv, TypeOK
<1>4. /\ journal' \in [Items -> Nat]
      /\ \A j \in Items : journal'[j] = IF j = i THEN journal[j] + 1 ELSE journal[j]
  BY DEF Announced, IInv, TypeOK
<1>5. /\ copy' \in [Users -> [Items -> Copy]]
      /\ \A v \in Users, j \in Items : copy'[v][j] = copy[v][j] \/
           (j = i /\ copy'[v][j] = c /\ c.version = r.version /\ Agrees(c, r))
  BY CopyReplaced DEF IInv, TypeOK
<1>6. TypeOK'
  <2>1. (\A j \in Items : row[j].state = "stored" => row[j].version > 0)'
    BY <1>1, <1>2 DEF IInv, TypeOK
  <2> QED
    BY <1>2, <1>3, <1>4, <1>5, <2>1 DEF IInv, TypeOK
<1>7. VersionsAreAnnounced'
  BY <1>1, <1>2, <1>4 DEF IInv, VersionsAreAnnounced, Untouched, ChecksSound, Owned, Stored
<1>8. Untouched'
  BY <1>2, <1>4 DEF IInv, Untouched
<1>9. CopiesSound'
  <2> SUFFICES ASSUME NEW v \in Users, NEW j \in Items PROVE CopySound(copy[v][j], j)'
    BY DEF CopiesSound
  <2>1. CASE copy'[v][j] = copy[v][j]
    <3>1. copy[v][j] \in Copy /\ CopySound(copy[v][j], j)
      BY CopyTyped DEF IInv, CopiesSound
    <3>2. \A d \in Copy : CopySound(d, j) => CopySound(d, j)'
      BY <1>2
    <3> QED
      BY <2>1, <3>1, <3>2 DEF CopySound, Stored
  <2>2. CASE j = i /\ copy'[v][j] = c /\ c.version = r.version /\ Agrees(c, r)
    BY <1>1, <1>2, <2>2 DEF CopySound
  <2> QED
    BY <1>5, <2>1, <2>2
<1>10. RequestsSound'
  <2> SUFFICES ASSUME NEW v \in Users PROVE RequestSound(req[v])'
    BY DEF RequestsSound
  <2>1. CASE v = u
    BY <1>3, <2>1 DEF RequestSound, CopySound, Stored, Owned
  <2>2. CASE v # u
    <3>1. req[v] \in Request /\ RequestSound(req[v]) /\ req'[v] = req[v]
      BY <1>3, <2>2 DEF IInv, TypeOK, RequestsSound
    <3>2. \A p \in Request : RequestSound(p) => RequestSound(p)'
      BY <1>2
    <3> QED
      BY <3>1, <3>2 DEF RequestSound, CopySound, Stored, Owned
  <2> QED
    BY <2>1, <2>2
<1>11. CompletionsSound'
  <2>1. \A j \in Items : Stored(j) => Stored(j)'
    BY <1>2 DEF Stored
  <2>2. \A j \in Items : Stored(j)' /\ ~Stored(j) =>
          j = i /\ row[i].state = "absent"
    BY <1>2 DEF Stored
  <2>3. ASSUME NEW j \in Items, NEW o \in Occurrences
        PROVE  /\ thanked[j][o] <= 1
               /\ Stored(j)' => (thanked[j][o] = 1 <=> completion[j][o] # Nobody)
               /\ completion[j][o] # Nobody => Stored(j)'
    <3>1. /\ thanked[j][o] <= 1
          /\ Stored(j) => (thanked[j][o] = 1 <=> completion[j][o] # Nobody)
          /\ completion[j][o] # Nobody => Stored(j)
      BY DEF IInv, CompletionsSound, CompletedOnce, NoOrphanCompletions
    <3>2. Stored(j)' /\ ~Stored(j) => thanked[j][o] = 0
      BY <2>2 DEF IInv, Untouched
    <3> QED
      BY <2>1, <3>1, <3>2
  <2> QED
    BY <2>3 DEF CompletionsSound, CompletedOnce, NoOrphanCompletions
<1>12. ChecksSound'
  BY <1>2 DEF IInv, ChecksSound, Owned
<1> QED
  BY <1>6, <1>7, <1>8, <1>9, <1>10, <1>11, <1>12 DEF IInv

LEMMA IdleSoundThen == RequestSound(Idle)'
  BY HouseholdAssumption DEF HouseholdAssumption, RequestSound, Idle

LEMMA CreateKeeps ==
  ASSUME IInv, NEW u \in Users, Create(u)
  PROVE  IInv'
<1> DEFINE i == req[u].item
           r == [state |-> "stored", creator |-> u, version |-> 1, content |-> req[u].new]
           c == [version |-> 1, content |-> req[u].new, answer |-> FALSE]
<1>1. /\ i \in Items /\ req[u].new \in Content /\ 1 \in 0..MaxVersion
      /\ ~req[u].new.checked
  BY HouseholdAssumption
  DEF HouseholdAssumption, Create, Runs, IInv, TypeOK, Request, RequestsSound,
      RequestSound
<1>2. r \in Row /\ c \in Copy
  BY <1>1 DEF Row, Copy
<1>3. row[i].state = "absent" /\ row[i].version = 0
  BY <1>1 DEF Create, IInv, Untouched
<1>4. /\ row' = [row EXCEPT ![i] = r] /\ copy' = [copy EXCEPT ![u][i] = c]
      /\ Announced(i) /\ req' = [req EXCEPT ![u] = Idle]
      /\ UNCHANGED <<kind, role, completion, thanked, changes>>
  BY DEF Create, Answered
<1>5. r.state = "stored" /\ r.version = 1 /\ c.version = 1 /\ ~r.content.checked
  BY <1>1
<1>6. Agrees(c, r)
  <2>1. [req[u].new EXCEPT !.checked = req[u].new.checked] = req[u].new
    BY <1>1 DEF Content
  <2> QED
    BY <2>1 DEF Agrees
<1>7. r.version = row[i].version + 1 /\ c.version = r.version
  BY <1>3, <1>5
<1>8. row[i].state \in {"absent", "stored"}
  BY <1>3
<1> HIDE DEF i, r, c
<1> QED
  BY <1>1, <1>2, <1>4, <1>5, <1>6, <1>7, <1>8, IdleSound, IdleSoundThen, Written

LEMMA UpdateKeeps ==
  ASSUME IInv, NEW u \in Users, Update(u)
  PROVE  IInv'
<1> DEFINE i == req[u].item
           r == [row[i] EXCEPT !.version = @ + 1, !.content = Stores(u)]
           c == [version |-> row[i].version + 1, answer |-> ~Owned(i),
                 content |-> [Stores(u) EXCEPT !.checked = FALSE]]
<1>1. i \in Items /\ req[u] \in Request
  BY DEF Update, Runs, IInv, TypeOK, RequestsSound, RequestSound
<1>2. /\ row[i] \in Row /\ row[i].version \in Nat /\ row[i].state = "stored"
      /\ row[i].version + 1 \in 0..MaxVersion /\ row[i].content.checked \in BOOLEAN
  BY <1>1, RowTyped DEF Update, Current, Stored, IInv, TypeOK
<1>3. /\ Stores(u) \in Content /\ Stores(u).checked \in BOOLEAN
      /\ Owned(i) => ~Stores(u).checked
  BY <1>1, <1>2 DEF Stores, Request, Content, IInv, ChecksSound
<1>4. /\ r \in Row /\ r.state = "stored" /\ r.version = row[i].version + 1
      /\ r.content = Stores(u)
  BY <1>2, <1>3 DEF Row
<1>5. [Stores(u) EXCEPT !.checked = FALSE] \in Content
  BY <1>3 DEF Content
<1>6. c \in Copy /\ c.version = row[i].version + 1
  BY <1>2, <1>5 DEF Copy, Owned
<1>7. Agrees(c, r)
  <2>1. [[Stores(u) EXCEPT !.checked = FALSE] EXCEPT !.checked = Stores(u).checked] = Stores(u)
    BY <1>3 DEF Content
  <2>2. Owned(i) => [[Stores(u) EXCEPT !.checked = FALSE] EXCEPT !.checked = FALSE] = Stores(u)
    BY <1>3, <2>1 DEF Content
  <2> QED
    BY <1>4, <2>1, <2>2 DEF Agrees
<1>8. /\ row' = [row EXCEPT ![i] = r] /\ copy' = [copy EXCEPT ![u][i] = c]
      /\ Announced(i) /\ req' = [req EXCEPT ![u] = Idle]
      /\ UNCHANGED <<kind, role, completion, thanked, changes>>
  BY DEF Update, Answered, IInv, TypeOK
<1> HIDE DEF r, c
<1> QED
  BY <1>1, <1>2, <1>3, <1>4, <1>6, <1>7, <1>8, IdleSound, IdleSoundThen, Written

LEMMA ToggleKeeps ==
  ASSUME IInv, NEW u \in Users, Toggle(u)
  PROVE  IInv'
<1> DEFINE i == req[u].item
           r == [row[i] EXCEPT !.version = @ + 1, !.content.checked = req[u].new.checked]
<1>0. PICK q : q = [req[u] EXCEPT !.pc = "toggled"]
  OBVIOUS
<1>1. i \in Items /\ req[u] \in Request /\ req[u].op = "toggle" /\ RequestSound(req[u])
      /\ ~Owned(i)
  BY DEF Toggle, Runs, IInv, TypeOK, RequestsSound, RequestSound
<1>2. /\ row[i] \in Row /\ row[i].version \in Nat /\ row[i].state = "stored"
      /\ row[i].version + 1 \in 0..MaxVersion
  BY <1>1, RowTyped DEF Toggle, Current, Stored, IInv, TypeOK
<1>3. /\ r \in Row /\ r.state = "stored" /\ r.version = row[i].version + 1
  <2>1. [row[i].content EXCEPT !.checked = req[u].new.checked] \in Content
    BY <1>1, <1>2 DEF Row, Content, Request
  <2> QED
    BY <1>2, <2>1 DEF Row
<1>4. /\ q \in Request /\ q.item = i /\ i = req[u].item
      /\ q.op = "toggle" /\ q.base = req[u].base
      /\ q.pc = "toggled"
  BY <1>0, <1>1 DEF Request
<1>5. /\ row' = [row EXCEPT ![i] = r] /\ req' = [req EXCEPT ![u] = q]
      /\ Announced(i) /\ UNCHANGED <<kind, role, completion, copy, thanked, changes>>
  BY <1>0 DEF Toggle, IInv, TypeOK
<1> HIDE DEF i, r
<1>6. r.version > row[i].version
  BY <1>2, <1>3
<1>7. RequestSound(q)'
  <2>1. RequestSound(q)
    BY <1>1, <1>4 DEF RequestSound
  <2>2. \A p \in Request : RequestSound(p) => RequestSound(p)'
    BY <1>1, <1>3, <1>5, <1>6, RowMovesOn
  <2> QED
    BY <1>4, <2>1, <2>2
<1>8. NoCopy \in Copy /\ row[i].state \in {"absent", "stored"}
  BY <1>2, IdleSound
<1> QED
  BY <1>1, <1>3, <1>4, <1>5, <1>7, <1>8, Written

LEMMA DeleteKeeps ==
  ASSUME IInv, NEW u \in Users, Delete(u)
  PROVE  IInv'
<1> DEFINE i == req[u].item
           r == [row[i] EXCEPT !.state = "deleted"]
<1>1. i \in Items
  BY DEF Delete, Runs, IInv, RequestsSound, RequestSound
<1>2. /\ row[i] \in Row /\ row[i].version \in Nat /\ row[i].state = "stored"
  BY <1>1, RowTyped DEF Delete, Current, Stored, IInv
<1>3. /\ r \in Row /\ r.state = "deleted" /\ r.version = row[i].version
      /\ r.content = row[i].content
  BY <1>2 DEF Row
<1>4. /\ row' = [row EXCEPT ![i] = r] /\ req' = [req EXCEPT ![u] = Idle]
      /\ completion' = [completion EXCEPT ![i] = [o \in Occurrences |-> Nobody]]
      /\ copy' = [copy EXCEPT ![u][i] = NoCopy]
      /\ UNCHANGED <<kind, role, journal, thanked, changes>>
  BY DEF Delete, Answered, IInv, TypeOK
<1> HIDE DEF r
<1>5. /\ row' \in [Items -> Row]
      /\ \A j \in Items : row'[j] = IF j = i THEN r ELSE row[j]
      /\ \A d \in Copy, j \in Items : CopySound(d, j) => CopySound(d, j)'
      /\ \A p \in Request : RequestSound(p) => RequestSound(p)'
  BY <1>1, <1>3, <1>4, RowMovesOn
<1>6. /\ req' \in [Users -> Request]
      /\ \A v \in Users : req'[v] = IF v = u THEN Idle ELSE req[v]
  BY <1>4, IdleSound DEF IInv, TypeOK
<1>7. /\ completion' \in [Items -> [Occurrences -> Users \cup {Nobody}]]
      /\ \A j \in Items, o \in Occurrences :
           completion'[j][o] = IF j = i THEN Nobody ELSE completion[j][o]
  BY <1>4 DEF IInv, TypeOK
<1>8. /\ copy' \in [Users -> [Items -> Copy]]
      /\ \A v \in Users, j \in Items :
           copy'[v][j] = IF v = u /\ j = i THEN NoCopy ELSE copy[v][j]
  BY <1>1, <1>4, IdleSound, CopyReplaced DEF IInv
<1>9. TypeOK'
  BY <1>3, <1>4, <1>5, <1>6, <1>7, <1>8 DEF IInv, TypeOK
<1>10. VersionsAreAnnounced' /\ Untouched' /\ ChecksSound'
  BY <1>3, <1>4, <1>5 DEF IInv, VersionsAreAnnounced, Untouched, ChecksSound, Owned, Stored
<1>11. CopiesSound'
  <2> SUFFICES ASSUME NEW v \in Users, NEW j \in Items PROVE CopySound(copy[v][j], j)'
    BY DEF CopiesSound
  <2>1. \A d \in Copy : CopySound(d, j) => CopySound(d, j)'
    BY <1>5
  <2>2. copy[v][j] \in Copy /\ CopySound(copy[v][j], j)
    BY CopyTyped DEF IInv, CopiesSound
  <2>3. NoCopy \in Copy /\ CopySound(NoCopy, j)
    BY IdleSound, RowTyped DEF IInv, CopySound, NoCopy
  <2>4. copy'[v][j] \in Copy /\ CopySound(copy'[v][j], j)
    BY <1>8, <2>2, <2>3
  <2> QED
    BY <2>1, <2>4 DEF CopySound, Stored
<1>12. RequestsSound'
  <2> SUFFICES ASSUME NEW v \in Users PROVE RequestSound(req[v])'
    BY DEF RequestsSound
  <2>1. \A p \in Request : RequestSound(p) => RequestSound(p)'
    BY <1>5
  <2>2. req'[v] \in Request /\ RequestSound(req'[v])
    BY <1>6, IdleSound DEF IInv, TypeOK, RequestsSound
  <2> QED
    BY <2>1, <2>2 DEF RequestSound, CopySound, Stored, Owned
<1>13. CompletionsSound'
  <2>1. \A j \in Items : Stored(j)' <=> j # i /\ Stored(j)
    BY <1>3, <1>5 DEF Stored
  <2> QED
    BY <1>4, <1>7, <2>1 DEF IInv, CompletionsSound, CompletedOnce, NoOrphanCompletions
<1> QED
  BY <1>9, <1>10, <1>11, <1>12, <1>13 DEF IInv

LEMMA CompleteKeeps ==
  ASSUME IInv, NEW u \in Users, Complete(u)
  PROVE  IInv'
<1> DEFINE i == req[u].item
<1>1. i \in Items /\ req[u] \in Request
  BY DEF Complete, Runs, IInv, TypeOK, RequestsSound, RequestSound
<1>2. PICK o \in req[u].new.rule :
        /\ completion[i][o] = Nobody
        /\ completion' = [completion EXCEPT ![i][o] = u]
        /\ thanked' = [thanked EXCEPT ![i][o] = @ + 1]
  BY DEF Complete
<1>3. o \in Occurrences
  BY <1>1 DEF Request, Content
<1>4. /\ Stored(i) /\ req' = [req EXCEPT ![u] = Idle]
      /\ UNCHANGED <<kind, role, row, copy, journal, changes>>
  BY DEF Complete, Answered
<1>5. /\ req' \in [Users -> Request]
      /\ \A v \in Users : req'[v] = IF v = u THEN Idle ELSE req[v]
  BY <1>4, IdleSound DEF IInv, TypeOK
<1>6. /\ completion' \in [Items -> [Occurrences -> Users \cup {Nobody}]]
      /\ \A j \in Items, p \in Occurrences :
           completion'[j][p] = IF j = i /\ p = o THEN u ELSE completion[j][p]
  BY <1>1, <1>2, <1>3 DEF IInv, TypeOK
<1>7. /\ thanked' \in [Items -> [Occurrences -> Nat]]
      /\ \A j \in Items, p \in Occurrences :
           thanked'[j][p] = IF j = i /\ p = o THEN thanked[j][p] + 1 ELSE thanked[j][p]
  BY <1>1, <1>2, <1>3 DEF IInv, TypeOK
<1>8. thanked[i][o] = 0
  <2>1. thanked[i][o] \in Nat /\ thanked[i][o] <= 1 /\ thanked[i][o] # 1
    BY <1>1, <1>2, <1>3, <1>4 DEF IInv, TypeOK, CompletionsSound, CompletedOnce
  <2> QED
    BY <2>1
<1>9. TypeOK'
  BY <1>4, <1>5, <1>6, <1>7 DEF IInv, TypeOK
<1>10. VersionsAreAnnounced' /\ Untouched' /\ ChecksSound'
  BY <1>4, <1>7 DEF IInv, VersionsAreAnnounced, Untouched, ChecksSound, Owned, Stored
<1>11. CopiesSound'
  BY <1>4 DEF IInv, CopiesSound, CopySound, Stored
<1>12. RequestsSound'
  <2> SUFFICES ASSUME NEW v \in Users PROVE RequestSound(req[v])'
    BY DEF RequestsSound
  <2>1. RequestSound(req'[v])
    BY <1>5, IdleSound DEF IInv, RequestsSound
  <2> QED
    BY <1>4, <2>1 DEF RequestSound, CopySound, Stored, Owned
<1>13. CompletionsSound'
  <2>1. u # Nobody
    BY HouseholdAssumption DEF HouseholdAssumption
  <2>2. \A j \in Items : Stored(j)' <=> Stored(j)
    BY <1>4 DEF Stored
  <2>3. CompletedOnce'
    BY <1>6, <1>7, <1>8, <2>1, <2>2 DEF IInv, CompletionsSound, CompletedOnce
  <2>4. NoOrphanCompletions'
    BY <1>4, <1>6, <2>2 DEF IInv, CompletionsSound, NoOrphanCompletions
  <2> QED
    BY <2>3, <2>4 DEF CompletionsSound
<1> QED
  BY <1>9, <1>10, <1>11, <1>12, <1>13 DEF IInv

-----------------------------------------------------------------------------
LEMMA InitHolds == Init => IInv
<1> SUFFICES ASSUME Init PROVE IInv
  OBVIOUS
<1> DEFINE r == [state |-> "absent", creator |-> Nobody, version |-> 0, content |-> Blank]
<1>1. Blank \in Content /\ 0 \in 0..MaxVersion /\ 0 \in 0..MaxRoles
  BY HouseholdAssumption DEF HouseholdAssumption, Blank, Content
<1>2. r \in Row /\ r.state = "absent" /\ r.version = 0
  BY <1>1 DEF Row
<1>3. row = [i \in Items |-> r]
  BY DEF Init
<1> HIDE DEF r
<1>4. TypeOK
  BY <1>1, <1>2, <1>3, IdleSound DEF Init, TypeOK, Roles
<1>5. VersionsAreAnnounced /\ Untouched /\ CompletionsSound
  BY <1>2, <1>3 DEF Init, VersionsAreAnnounced, Untouched, Stored, CompletionsSound,
                    CompletedOnce, NoOrphanCompletions
<1>6. CopiesSound
  BY <1>2, <1>3 DEF Init, CopiesSound, CopySound, NoCopy, Stored
<1>7. RequestsSound
  BY IdleSound DEF Init, RequestsSound
<1>8. ChecksSound
  BY DEF Init, ChecksSound, Blank
<1> QED
  BY <1>4, <1>5, <1>6, <1>7, <1>8 DEF IInv

LEMMA NextKeeps == IInv /\ [Next]_vars => IInv'
<1> SUFFICES ASSUME IInv, [Next]_vars PROVE IInv'
  OBVIOUS
<1>1. CASE Next
  BY <1>1, SetRoleKeeps, GetKeeps, AskKeeps, LoadKeeps, RefuseKeeps, CreateKeeps,
     UpdateKeeps, ToggleKeeps, AnswerToggleKeeps, DeleteKeeps, CompleteKeeps
  DEF Next, Transaction
<1>2. CASE UNCHANGED vars
  BY <1>2 DEF vars, IInv, TypeOK, VersionsAreAnnounced, Untouched, ChecksSound, CopiesSound,
              CopySound,
              RequestsSound, RequestSound, Stored, Owned, CompletionsSound, CompletedOnce,
              NoOrphanCompletions
<1> QED
  BY <1>1, <1>2

LEMMA Inductive == Spec => []IInv
  BY InitHolds, NextKeeps, PTL DEF Spec

\* Rows, copies, the events that announce versions and the completions of a chore belong
\* together, for any number of clients (repository/household.go).
THEOREM HouseholdSound == Spec => []HouseholdInv
<1>1. IInv => HouseholdInv
  BY DEF IInv, HouseholdInv, CopiesAgree, CopiesSound, CopySound, Agrees, CompletionsSound
<1> QED
  BY <1>1, Inductive, PTL

\* "want unique completion" (CompleteChore).
THEOREM OccurrencesCompletedOnce == Spec => []CompletedOnce
<1>1. IInv => CompletedOnce
  BY DEF IInv, CompletionsSound
<1> QED
  BY <1>1, Inductive, PTL

\* "want version conflict": nobody overwrites or deletes what their client did not show
\* (UpdateGrocery, SaveChore, SaveCalendar, deleteVersioned).
THEOREM UpdatesAreNotLost == Spec => NoLostUpdate
<1> DEFINE Shown(u, i) ==
      LET seen == req[u].base.content
          old == row[i].content IN
      /\ seen.name = old.name /\ seen.rule = old.rule /\ seen.enabled = old.enabled
      /\ seen.checked # old.checked => req[u].base.answer
      /\ req[u].keep => row'[i].content.enabled = old.enabled
<1>1. IInv /\ [Next]_vars =>
        [\A u \in Users, i \in Items :
           /\ Runs(u, "update") \/ Runs(u, "delete")
           /\ req[u].item = i /\ req'[u].pc = "idle" /\ row'[i] # row[i]
           => Shown(u, i)]_vars
  <2> SUFFICES ASSUME IInv, Next, NEW u \in Users, NEW i \in Items,
                      Runs(u, "update") \/ Runs(u, "delete"),
                      req[u].item = i, req'[u].pc = "idle", row'[i] # row[i]
               PROVE  Shown(u, i)
    OBVIOUS
  <2>1. req[u].pc = "ready" /\ req[u].op \in {"update", "delete"} /\ req[u] \in Request
        /\ RequestSound(req[u])
    BY DEF Runs, IInv, TypeOK, RequestsSound
  <2>2. Update(u) \/ Delete(u)
    <3>1. PICK v \in Users : Create(v) \/ Update(v) \/ Toggle(v) \/ Delete(v)
      BY DEF Next, Transaction, SetRole, Get, AskCreate, AskUpdate, AskToggle, AskDelete,
             AskComplete, Admit, Load, Refuse, AnswerToggle, Complete
    <3>2. v = u
      <4>1. v # u => req'[u] = req[u]
        BY <3>1 DEF Create, Update, Toggle, Delete, Answered, IInv, TypeOK
      <4> QED
        BY <2>1, <4>1
    <3> QED
      BY <2>1, <3>1, <3>2 DEF Create, Toggle, Runs
  <2>3. Stored(i) /\ row[i].version = req[u].base.version /\ row[i] \in Row
        /\ row[i].content \in Content
    BY <2>2, RowTyped DEF Update, Delete, Current, IInv
  <2>4. Agrees(req[u].base, row[i]) /\ req[u].base \in Copy
    BY <2>1, <2>3 DEF RequestSound, CopySound, Request
  <2> DEFINE seen == req[u].base.content
             old == row[i].content
  <2>5. seen \in Content /\ old \in Content
        /\ [seen EXCEPT !.checked = IF req[u].base.answer THEN old.checked ELSE @] = old
    BY <2>3, <2>4 DEF Agrees, Copy
  <2>6. /\ seen.name = old.name /\ seen.rule = old.rule /\ seen.enabled = old.enabled
        /\ seen.checked # old.checked => req[u].base.answer
    <3> HIDE DEF seen, old
    <3> QED
      BY <2>5 DEF Content
  <2>7. ASSUME req[u].keep PROVE row'[i].content.enabled = old.enabled
    <3>1. CASE Delete(u)
      BY <2>3, <3>1 DEF Delete, IInv, TypeOK, Row
    <3>2. CASE Update(u)
      <4>1. kind[i] = "chore" /\ req[u].op = "update"
        BY <2>1, <2>7, <3>2 DEF RequestSound, Update, Runs
      <4>2. req[u].loaded.enabled = old.enabled
        BY <2>1, <2>3, <2>7, <4>1 DEF RequestSound
      <4>3. row'[i].content = Stores(u)
        BY <2>3, <3>2 DEF Update, IInv, TypeOK, Row
      <4>4. Stores(u).enabled = req[u].loaded.enabled
        BY <2>1, <2>7 DEF Stores, Request, Content
      <4> QED
        BY <4>2, <4>3, <4>4
    <3> QED
      BY <2>2, <3>1, <3>2
  <2> QED
    BY <2>6, <2>7
<1> QED
  BY <1>1, Inductive, PTL DEF Spec, NoLostUpdate

-----------------------------------------------------------------------------
(* Household implements HouseItems *)

\* What a request brings is what its user has been shown.
Brings ==
  \A u \in Users : req[u].pc \in {"admitted", "ready"} => req[u].base = copy[u][req[u].item]

\* The state of HouseItems.
LifeOf(i) == CASE row[i].state = "absent" -> "unborn"
               [] row[i].state = "stored" -> "present"
               [] row[i].state = "deleted" -> "gone"
Life == [i \in Items |-> LifeOf(i)]
Texts == [i \in Items |-> Text(row[i].content)]
MarkOf(i) == row[i].content.checked
Marks == [i \in Items |-> MarkOf(i)]
Seen(u, i) == IF copy[u][i].version = 0 THEN {} ELSE {Text(copy[u][i].content)}
Shown == [u \in Users |-> [i \in Items |-> Seen(u, i)]]
Waiting == {u \in Users : req[u].pc = "toggled"}

LEMMA BringsStep == IInv /\ Brings /\ [Next]_vars => Brings'
<1> SUFFICES ASSUME IInv, Brings, [Next]_vars PROVE Brings'
  OBVIOUS
<1>0. req \in [Users -> Request] /\ copy \in [Users -> [Items -> Copy]]
  BY DEF IInv, TypeOK
<1>1. ASSUME NEW u \in Users, NEW q,
             req' = [req EXCEPT ![u] = q], q.pc \notin {"admitted", "ready"},
             \A v \in Users : v # u => copy'[v] = copy[v]
      PROVE  Brings'
  BY <1>0, <1>1 DEF Brings
<1>2. ASSUME NEW u \in Users,
             AskCreate(u) \/ AskUpdate(u) \/ AskToggle(u) \/ AskDelete(u) \/ AskComplete(u)
      PROVE  Brings'
  <2>1. PICK op, i, new, keep : Admit(u, op, i, new, keep)
    BY <1>2 DEF AskCreate, AskUpdate, AskToggle, AskDelete, AskComplete
  <2>2. /\ UNCHANGED copy /\ \A v \in Users : v # u => req'[v] = req[v]
        /\ req'[u].base = copy[u][i] /\ req'[u].item = i
    BY <1>0, <2>1 DEF Admit
  <2> QED
    BY <2>2 DEF Brings
<1>3. ASSUME NEW u \in Users, Load(u) PROVE Brings'
  <2>1. /\ UNCHANGED copy /\ \A v \in Users : v # u => req'[v] = req[v]
        /\ req'[u].base = req[u].base /\ req'[u].item = req[u].item
        /\ req[u].pc = "admitted"
    BY <1>0, <1>3 DEF Load, Request
  <2> QED
    BY <2>1 DEF Brings
<1>4. ASSUME NEW u \in Users, NEW i \in Items, Get(u, i) PROVE Brings'
  <2>1. UNCHANGED req /\ req[u].pc = "idle" /\ \A v \in Users : v # u => copy'[v] = copy[v]
    BY <1>0, <1>4 DEF Get
  <2> QED
    BY <2>1 DEF Brings
<1>5. ASSUME NEW u \in Users, Refuse(u) \/ Transaction(u) PROVE Brings'
  <2>1. \E q : req' = [req EXCEPT ![u] = q] /\ q.pc \notin {"admitted", "ready"}
    <3>1. CASE Toggle(u)
      <4>1. req' = [req EXCEPT ![u] = [req[u] EXCEPT !.pc = "toggled"]]
        BY <1>0, <3>1 DEF Toggle
      <4>2. [req[u] EXCEPT !.pc = "toggled"].pc = "toggled"
        BY <1>0 DEF Request
      <4> QED
        BY <4>1, <4>2
    <3>2. CASE ~Toggle(u)
      <4>1. req' = [req EXCEPT ![u] = Idle]
        BY <1>5, <3>2 DEF Refuse, Transaction, Create, Update, AnswerToggle, Delete, Complete,
                          Answered
      <4>2. Idle.pc = "idle"
        BY DEF Idle
      <4> QED
        BY <4>1, <4>2
    <3> QED
      BY <3>1, <3>2
  <2>2. \A v \in Users : v # u => copy'[v] = copy[v]
    BY <1>0, <1>5 DEF Refuse, Transaction, Create, Update, Toggle, AnswerToggle, Delete, Complete
  <2> QED
    BY <1>1, <2>1, <2>2
<1>6. CASE UNCHANGED vars \/ \E u \in Users : SetRole(u)
  BY <1>6 DEF vars, SetRole, Brings
<1> QED
  BY <1>2, <1>3, <1>4, <1>5, <1>6 DEF Next

LEMMA BringsHolds == Spec => []Brings
<1>1. Init => Brings
  BY DEF Init, Brings, Idle
<1> QED
  BY <1>1, BringsStep, Inductive, PTL DEF Spec

\* Copies and rows that agree say the same.
LEMMA SaySame ==
  ASSUME NEW c \in Copy, NEW r \in Row, Agrees(c, r)
  PROVE  Text(c.content) = Text(r.content)
<1> DEFINE a == c.content
           b == r.content
<1>1. a \in Content /\ b \in Content
      /\ [a EXCEPT !.checked = IF c.answer THEN b.checked ELSE @] = b
  BY DEF Agrees, Copy, Row
<1> HIDE DEF a, b
<1>2. a.name = b.name /\ a.rule = b.rule /\ a.enabled = b.enabled
  BY <1>1 DEF Content
<1> QED
  BY <1>2 DEF Text, a, b

\* A request that passes the check of its version brings what the row says.
LEMMA CurrentIsSeen ==
  ASSUME IInv, Brings, NEW u \in Users, NEW op \in {"update", "toggle", "delete"},
         Runs(u, op), Current(u)
  PROVE  /\ req[u].item \in Items /\ Stored(req[u].item)
         /\ Seen(u, req[u].item) = {Text(row[req[u].item].content)}
<1> DEFINE i == req[u].item
<1>1. /\ i \in Items /\ Stored(i) /\ row[i].version = req[u].base.version
      /\ req[u].base.version > 0 /\ CopySound(req[u].base, i)
      /\ req[u].base = copy[u][i]
  BY DEF Runs, Current, IInv, RequestsSound, RequestSound, Brings
<1>2. Agrees(copy[u][i], row[i]) /\ copy[u][i].version # 0
  BY <1>1 DEF CopySound
<1>3. copy[u][i] \in Copy /\ row[i] \in Row
  BY <1>1, CopyTyped, RowTyped DEF IInv
<1> QED
  BY <1>1, <1>2, <1>3, SaySame DEF Seen

LEMMA ShownChanges ==
  ASSUME NEW u \in Users, NEW i \in Items, NEW S,
         \A v \in Users, j \in Items : Seen(v, j)' = IF v = u /\ j = i THEN S ELSE Seen(v, j)
  PROVE  Shown' = [Shown EXCEPT ![u][i] = S]
BY DEF Shown

LEMMA RowChanges ==
  ASSUME IInv, NEW i \in Items, NEW r \in Row, row' = [row EXCEPT ![i] = r]
  PROVE  /\ Texts' = [Texts EXCEPT ![i] = Text(r.content)]
         /\ Marks' = [Marks EXCEPT ![i] = r.content.checked]
         /\ r.state = "stored" => Life' = [Life EXCEPT ![i] = "present"]
         /\ r.state = "deleted" => Life' = [Life EXCEPT ![i] = "gone"]
<1>1. row'[i] = r /\ \A j \in Items \ {i} : row'[j] = row[j]
  BY DEF IInv, TypeOK
<1>2. Texts' = [Texts EXCEPT ![i] = Text(r.content)]
  BY <1>1 DEF Texts, Text
<1>3. MarkOf(i)' = r.content.checked /\ \A j \in Items \ {i} : MarkOf(j)' = MarkOf(j)
  BY <1>1 DEF MarkOf
<1>4. Marks' = [Marks EXCEPT ![i] = r.content.checked]
  BY <1>3 DEF Marks
<1>5. /\ r.state = "stored" => LifeOf(i)' = "present"
      /\ r.state = "deleted" => LifeOf(i)' = "gone"
  BY <1>1 DEF LifeOf
<1>6. \A j \in Items \ {i} : LifeOf(j)' = LifeOf(j)
  BY <1>1 DEF LifeOf
<1>7. /\ r.state = "stored" => Life' = [Life EXCEPT ![i] = "present"]
      /\ r.state = "deleted" => Life' = [Life EXCEPT ![i] = "gone"]
  BY <1>5, <1>6 DEF Life
<1> QED
  BY <1>2, <1>4, <1>7

LEMMA ToggleWrites ==
  ASSUME IInv, NEW u \in Users, Toggle(u), NEW i, i = req[u].item
  PROVE  row' = [row EXCEPT ![i] =
           [row[i] EXCEPT !.version = @ + 1, !.content.checked = req[u].new.checked]]
<1> DEFINE r == [row[i] EXCEPT !.version = @ + 1, !.content.checked = req[u].new.checked]
<1>1. row' = [row EXCEPT ![i] = r]
  BY DEF Toggle, IInv, TypeOK
<1> QED
  BY <1>1

\* A transaction of u stores r as item i and answers with c.
Writes(u, i, r, c) ==
  /\ row' = [row EXCEPT ![i] = r] /\ r.state = "stored"
  /\ copy' = [copy EXCEPT ![u][i] = c] /\ c.version # 0
  /\ Text(c.content) = Text(r.content)
  /\ Announced(i) /\ UNCHANGED <<completion, thanked>>
  /\ req' = [req EXCEPT ![u] = Idle] /\ req[u].pc = "ready"

\* Every step of Household is a step of HouseItems or changes nothing there.
LEMMA SharedStep == IInv /\ IInv' /\ Brings /\ [Next]_vars => [Shared!Next]_Shared!vars
<1> SUFFICES ASSUME IInv, IInv', Brings, [Next]_vars PROVE [Shared!Next]_Shared!vars
  OBVIOUS
<1>0. /\ req \in [Users -> Request] /\ copy \in [Users -> [Items -> Copy]]
      /\ row \in [Items -> Row] /\ row' \in [Items -> Row]
  BY DEF IInv, TypeOK
<1>1. ASSUME UNCHANGED <<row, copy, journal, completion, thanked, Waiting>>
      PROVE  UNCHANGED Shared!vars
  BY <1>1 DEF Shared!vars, Waiting
<1>2. ASSUME NEW u \in Users, NEW q,
             UNCHANGED <<row, copy, journal, completion, thanked>>,
             req' = [req EXCEPT ![u] = q], req[u].pc # "toggled", q.pc # "toggled"
      PROVE  UNCHANGED Shared!vars
  <2>1. UNCHANGED Waiting
    BY <1>0, <1>2 DEF Waiting
  <2> QED
    BY <1>1, <1>2, <2>1
<1>3. CASE UNCHANGED vars \/ \E u \in Users : SetRole(u)
  BY <1>1, <1>3 DEF vars, SetRole, Waiting
<1>4. ASSUME NEW u \in Users,
             \/ AskCreate(u) \/ AskUpdate(u) \/ AskToggle(u) \/ AskDelete(u) \/ AskComplete(u)
             \/ Load(u) \/ Refuse(u)
      PROVE  UNCHANGED Shared!vars
  <2>1. UNCHANGED <<row, copy, journal, completion, thanked>> /\ req[u].pc # "toggled"
    BY <1>4 DEF AskCreate, AskUpdate, AskToggle, AskDelete, AskComplete, MayAsk, Admit, Load,
                Refuse
  <2>2. \E q : req' = [req EXCEPT ![u] = q] /\ q.pc # "toggled"
    <3>1. CASE Load(u)
      <4>1. /\ req' = [req EXCEPT ![u] = req'[u]]
            /\ req'[u].pc = "ready"
        BY <1>0, <3>1 DEF Load, Request
      <4> QED
        BY <4>1
    <3>2. CASE Refuse(u)
      <4>1. req' = [req EXCEPT ![u] = Idle] /\ Idle.pc = "idle"
        BY <3>2 DEF Refuse, Idle
      <4> QED
        BY <4>1
    <3>3. CASE ~Load(u) /\ ~Refuse(u)
      <4>1. PICK op, i, new, keep : Admit(u, op, i, new, keep)
        BY <1>4, <3>3 DEF AskCreate, AskUpdate, AskToggle, AskDelete, AskComplete
      <4>2. req' = [req EXCEPT ![u] = req'[u]] /\ req'[u].pc \in {"admitted", "ready"}
        BY <1>0, <4>1 DEF Admit
      <4> QED
        BY <4>2
    <3> QED
      BY <3>1, <3>2, <3>3
  <2> QED
    BY <1>2, <2>1, <2>2
\* What a client is shown.
<1>5. ASSUME NEW u \in Users, NEW i \in Items,
             UNCHANGED <<row, journal, completion, thanked>>,
             Waiting' \in {Waiting, Waiting \ {u}},
             copy' = [copy EXCEPT ![u][i] =
               IF Stored(i)
                 THEN [version |-> row[i].version, content |-> row[i].content, answer |-> FALSE]
                 ELSE NoCopy]
      PROVE  Shared!Next
  <2>1. Seen(u, i)' = IF Life[i] = "present" THEN {Texts[i]} ELSE {}
    <3>1. CASE Stored(i)
      BY <1>0, <1>5, <3>1 DEF IInv, TypeOK, Stored, Seen, Life, LifeOf, Texts
    <3>2. CASE ~Stored(i)
      <4>1. Life[i] # "present"
        BY <1>0, <3>2 DEF Life, LifeOf, Stored, Row
      <4>2. copy'[u][i].version = 0
        BY <1>0, <1>5, <3>2 DEF NoCopy
      <4> QED
        BY <4>1, <4>2 DEF Seen
    <3> QED
      BY <3>1, <3>2
  <2>2. \A v \in Users, j \in Items : ~(v = u /\ j = i) => Seen(v, j)' = Seen(v, j)
    BY <1>0, <1>5 DEF Seen
  <2>3. Shown' = [Shown EXCEPT ![u][i] = IF Life[i] = "present" THEN {Texts[i]} ELSE {}]
    BY <2>1, <2>2, ShownChanges
  <2>4. UNCHANGED <<Life, Texts, Marks, journal, completion, thanked>>
    BY <1>5 DEF Life, LifeOf, Texts, Marks, MarkOf
  <2>5. Shared!Show(u, i)
    BY <1>5, <2>3, <2>4
    DEF Shared!Show, Shared!There, Shared!Present, Shown, Seen, Life, LifeOf, Texts, Marks,
        MarkOf, Waiting
  <2> QED
    BY <2>5 DEF Shared!Next
<1>6. ASSUME NEW u \in Users, NEW i \in Items, Get(u, i) PROVE Shared!Next
  BY <1>5, <1>6 DEF Get, Waiting
<1>7. ASSUME NEW u \in Users, AnswerToggle(u) PROVE Shared!Next
  <2>1. req[u].item \in Items
    BY <1>7 DEF AnswerToggle, IInv, RequestsSound, RequestSound
  <2>2. Waiting' = Waiting \ {u}
    BY <1>0, <1>7 DEF AnswerToggle, Answered, Waiting, Idle
  <2> QED
    BY <1>5, <1>7, <2>1, <2>2 DEF AnswerToggle
\* What a transaction writes.
<1>8. ASSUME NEW u \in Users, NEW i \in Items, NEW r \in Row, NEW c \in Copy,
             Writes(u, i, r, c)
      PROVE  /\ Shared!Says(u, i)
             /\ Life' = [Life EXCEPT ![i] = "present"]
             /\ Marks' = [Marks EXCEPT ![i] = r.content.checked]
  <2>1. UNCHANGED Waiting
    BY <1>0, <1>8 DEF Writes, Waiting, Idle
  <2>2. /\ Texts' = [Texts EXCEPT ![i] = Text(r.content)]
        /\ Marks' = [Marks EXCEPT ![i] = r.content.checked]
        /\ Life' = [Life EXCEPT ![i] = "present"]
    BY <1>8, RowChanges DEF Writes
  <2>3. Seen(u, i)' = {Text(r.content)}
        /\ \A v \in Users, j \in Items : ~(v = u /\ j = i) => Seen(v, j)' = Seen(v, j)
    BY <1>0, <1>8 DEF Writes, Seen
  <2>4. Shown' = [Shown EXCEPT ![u][i] = {Text(r.content)}]
    BY <2>3, ShownChanges
  <2>5. Text(r.content) \in {Text(d) : d \in Content}
    BY DEF Row
  <2>6. journal' = [journal EXCEPT ![i] = @ + 1]
    BY <1>8 DEF Writes, Announced
  <2>7. \E t \in {Text(d) : d \in Content} :
          /\ Texts' = [Texts EXCEPT ![i] = t]
          /\ Shown' = [Shown EXCEPT ![u][i] = {t}]
    BY <2>2, <2>4, <2>5
  <2>8. Shared!Says(u, i)
    BY <1>8, <2>1, <2>6, <2>7 DEF Writes, Shared!Says, Shown, Seen, Texts, Waiting
  <2> QED
    BY <2>2, <2>8
<1>9. ASSUME NEW u \in Users, Create(u) PROVE Shared!Next
  <2>0. PICK i \in Items : i = req[u].item
    BY <1>9 DEF Create, Runs, IInv, RequestsSound, RequestSound
  <2> DEFINE r == [state |-> "stored", creator |-> u, version |-> 1, content |-> req[u].new]
             c == [version |-> 1, content |-> req[u].new, answer |-> FALSE]
  <2>1. /\ req[u].new \in Content /\ ~req[u].new.checked /\ req[u].pc = "ready"
        /\ req[u].new.checked \in BOOLEAN
    BY <1>9, <2>0 DEF Create, Runs, IInv, TypeOK, Request, RequestsSound, RequestSound, Content
  <2>2. r \in Row /\ c \in Copy
    BY <2>1, HouseholdAssumption DEF HouseholdAssumption, Row, Copy
  <2>3. /\ row' = [row EXCEPT ![i] = r] /\ copy' = [copy EXCEPT ![u][i] = c]
        /\ Announced(i) /\ req' = [req EXCEPT ![u] = Idle]
        /\ UNCHANGED <<completion, thanked>> /\ row[i].state = "absent"
    BY <1>9, <2>0 DEF Create, Answered
  <2>4. r.state = "stored" /\ r.content = req[u].new /\ c.version # 0 /\ c.content = req[u].new
    OBVIOUS
  <2>5. Life[i] = "unborn"
    BY <2>1, <2>3 DEF Life, LifeOf
  <2> HIDE DEF r, c
  <2>6. /\ Shared!Says(u, i)
        /\ Life' = [Life EXCEPT ![i] = "present"]
        /\ Marks' = [Marks EXCEPT ![i] = r.content.checked]
    <3>1. Writes(u, i, r, c)
      BY <2>1, <2>3, <2>4 DEF Writes
    <3> QED
      BY <1>8, <2>2, <3>1
  <2>7. r.content.checked = FALSE
    BY <2>1, <2>4
  <2>8. Shared!Create(u, i)
    BY <2>5, <2>6, <2>7 DEF Shared!Create, Life, LifeOf, Marks, MarkOf
  <2> QED
    BY <2>1, <2>8 DEF Shared!Next
<1>10. ASSUME NEW u \in Users, NEW op \in {"update", "toggle", "delete"},
              Runs(u, op), Current(u)
       PROVE  Shared!Saw(u, req[u].item) /\ Life[req[u].item] = "present"
  <2> DEFINE i == req[u].item
  <2>1. i \in Items /\ Stored(i) /\ Seen(u, i) = {Text(row[i].content)}
    BY <1>10, CurrentIsSeen
  <2>2. Life[i] = "present" /\ Texts[i] = Text(row[i].content) /\ Shown[u][i] = Seen(u, i)
    BY <2>1 DEF Life, LifeOf, Stored, Texts, Shown
  <2>3. Life[i] = "present" /\ Shown[u][i] = {Texts[i]}
    BY <2>1, <2>2
  <2> QED
    BY <2>3 DEF Shared!Saw, Shared!Present, Life, LifeOf, Shown, Seen, Texts
<1>11. ASSUME NEW u \in Users, Update(u) PROVE Shared!Next
  <2>0. PICK i \in Items : i = req[u].item
    BY <1>11 DEF Update, Runs, IInv, RequestsSound, RequestSound
  <2> DEFINE r == [row[i] EXCEPT !.version = @ + 1, !.content = Stores(u)]
             c == [version |-> row[i].version + 1, answer |-> ~Owned(i),
                   content |-> [Stores(u) EXCEPT !.checked = FALSE]]
  <2>1. req[u] \in Request /\ req[u].pc = "ready"
    BY <1>11, <2>0 DEF Update, Runs, IInv, TypeOK, RequestsSound, RequestSound
  <2>2. /\ row[i] \in Row /\ row[i].version \in Nat /\ row[i].state = "stored"
        /\ row[i].version + 1 \in 0..MaxVersion /\ row[i].content.checked \in BOOLEAN
    BY <1>11, <2>0, <2>1, RowTyped DEF Update, Current, Stored, IInv, TypeOK
  <2>3. /\ Stores(u) \in Content /\ Stores(u).checked = row[i].content.checked
    BY <2>0, <2>1, <2>2 DEF Stores, Request, Content
  <2>4. [Stores(u) EXCEPT !.checked = FALSE] \in Content
        /\ Text([Stores(u) EXCEPT !.checked = FALSE]) = Text(Stores(u))
    BY <2>3 DEF Content, Text
  <2>5. /\ r \in Row /\ r.state = "stored" /\ r.content = Stores(u)
        /\ c \in Copy /\ c.version # 0 /\ Text(c.content) = Text(r.content)
    <3>1. r \in Row /\ r.state = "stored" /\ r.content = Stores(u)
      BY <2>2, <2>3 DEF Row
    <3>2. c \in Copy /\ c.version # 0
      BY <2>2, <2>4 DEF Copy, Owned
    <3>3. c.content = [Stores(u) EXCEPT !.checked = FALSE]
      OBVIOUS
    <3> QED
      BY <2>4, <3>1, <3>2, <3>3
  <2>6. /\ row' = [row EXCEPT ![i] = r] /\ copy' = [copy EXCEPT ![u][i] = c]
        /\ Announced(i) /\ req' = [req EXCEPT ![u] = Idle]
        /\ UNCHANGED <<completion, thanked>>
    BY <1>11, <2>0 DEF Update, Answered, IInv, TypeOK
  <2> HIDE DEF r, c
  <2>7. /\ Shared!Says(u, i)
        /\ Life' = [Life EXCEPT ![i] = "present"]
        /\ Marks' = [Marks EXCEPT ![i] = r.content.checked]
    <3>1. Writes(u, i, r, c)
      BY <2>1, <2>5, <2>6 DEF Writes
    <3> QED
      BY <1>8, <2>5, <3>1
  <2>8. Shared!Saw(u, i) /\ Life[i] = "present"
    BY <1>10, <1>11, <2>0 DEF Update
  <2>9. MarkOf(i) = r.content.checked
    BY <2>3, <2>5 DEF MarkOf
  <2>10. UNCHANGED <<Life, Marks>>
    BY <2>7, <2>8, <2>9 DEF Life, Marks
  <2>11. Shared!Change(u, i)
    BY <2>7, <2>8, <2>10 DEF Shared!Change, Life, LifeOf, Marks, MarkOf
  <2> QED
    BY <2>1, <2>11 DEF Shared!Next
<1>12. ASSUME NEW u \in Users, Toggle(u) PROVE Shared!Next
  <2>0. PICK i \in Items : i = req[u].item
    BY <1>12 DEF Toggle, Runs, IInv, RequestsSound, RequestSound
  <2> DEFINE r == [row[i] EXCEPT !.version = @ + 1, !.content.checked = req[u].new.checked]
  <2>1. req[u] \in Request /\ req[u].pc = "ready"
    BY <1>12, <2>0 DEF Toggle, Runs, IInv, TypeOK, RequestsSound, RequestSound
  <2>2. /\ row[i] \in Row /\ row[i].version \in Nat /\ row[i].state = "stored"
        /\ row[i].version + 1 \in 0..MaxVersion
    BY <1>12, <2>0, <2>1, RowTyped DEF Toggle, Current, Stored, IInv, TypeOK
  <2>3. /\ [row[i].content EXCEPT !.checked = req[u].new.checked] \in Content
        /\ req[u].new.checked \in BOOLEAN
        /\ Text([row[i].content EXCEPT !.checked = req[u].new.checked]) = Text(row[i].content)
    BY <2>1, <2>2 DEF Row, Content, Request, Text
  <2>4. /\ r \in Row /\ r.state = "stored" /\ Text(r.content) = Text(row[i].content)
        /\ r.content.checked \in BOOLEAN
    BY <2>2, <2>3 DEF Row, Content
  <2>5. /\ row' = [row EXCEPT ![i] = r]
        /\ Announced(i) /\ UNCHANGED <<copy, completion, thanked>>
        /\ req' = [req EXCEPT ![u].pc = "toggled"]
    <3>1. row' = [row EXCEPT ![i] = r]
      BY <1>12, <2>0, ToggleWrites
    <3>2. /\ Announced(i) /\ UNCHANGED <<copy, completion, thanked>>
          /\ req' = [req EXCEPT ![u].pc = "toggled"]
      BY <1>12, <2>0 DEF Toggle
    <3> QED
      BY <3>1, <3>2
  <2> HIDE DEF r
  <2>6. /\ Texts' = [Texts EXCEPT ![i] = Text(r.content)]
        /\ Marks' = [Marks EXCEPT ![i] = r.content.checked]
        /\ Life' = [Life EXCEPT ![i] = "present"]
    BY <2>1, <2>4, <2>5, RowChanges
  <2>7. Shared!Saw(u, i) /\ Life[i] = "present"
    BY <1>10, <1>12, <2>0 DEF Toggle
  <2>8. UNCHANGED <<Life, Texts, Shown>>
    <3>1. Texts' = Texts
      BY <2>4, <2>6 DEF Texts
    <3>2. Life' = Life
      BY <2>6, <2>7 DEF Life
    <3> QED
      BY <2>5, <3>1, <3>2 DEF Shown, Seen
  <2>9. u \notin Waiting /\ Waiting' = Waiting \cup {u}
    BY <1>0, <2>1, <2>5 DEF Waiting, Request
  <2>10. journal' = [journal EXCEPT ![i] = @ + 1]
    BY <2>5 DEF Announced
  <2>11. \E m \in BOOLEAN : Marks' = [Marks EXCEPT ![i] = m]
    BY <2>4, <2>6
  <2>12. Shared!Check(u, i)
    BY <2>5, <2>7, <2>8, <2>9, <2>10, <2>11
    DEF Shared!Check, Shown, Seen, Life, LifeOf, Texts, Marks, MarkOf, Waiting
  <2> QED
    BY <2>1, <2>12 DEF Shared!Next
<1>13. ASSUME NEW u \in Users, Delete(u) PROVE Shared!Next
  <2>0. PICK i \in Items : i = req[u].item
    BY <1>13 DEF Delete, Runs, IInv, RequestsSound, RequestSound
  <2> DEFINE r == [row[i] EXCEPT !.state = "deleted"]
  <2>1. row[i] \in Row /\ req[u].pc = "ready"
    BY <1>13, <2>0, RowTyped DEF Delete, Runs, IInv, RequestsSound, RequestSound
  <2>2. /\ r \in Row /\ r.state = "deleted" /\ r.content = row[i].content
    BY <2>1 DEF Row
  <2>3. /\ row' = [row EXCEPT ![i] = r] /\ req' = [req EXCEPT ![u] = Idle]
        /\ completion' = [completion EXCEPT ![i] = [o \in Occurrences |-> Nobody]]
        /\ copy' = [copy EXCEPT ![u][i] = NoCopy]
        /\ UNCHANGED <<journal, thanked>>
    BY <1>13, <2>0 DEF Delete, Answered, IInv, TypeOK
  <2> HIDE DEF r
  <2>4. /\ Texts' = [Texts EXCEPT ![i] = Text(r.content)]
        /\ Marks' = [Marks EXCEPT ![i] = r.content.checked]
        /\ Life' = [Life EXCEPT ![i] = "gone"]
    BY <2>1, <2>2, <2>3, RowChanges
  <2>5. UNCHANGED <<Texts, Marks>>
    <3>1. Texts' = Texts
      BY <2>2, <2>4 DEF Texts
    <3>2. MarkOf(i) = r.content.checked
      BY <2>2 DEF MarkOf
    <3>3. Marks' = Marks
      BY <2>4, <3>2 DEF Marks
    <3> QED
      BY <3>1, <3>3
  <2>6. /\ Seen(u, i)' = {}
        /\ \A v \in Users, j \in Items : ~(v = u /\ j = i) => Seen(v, j)' = Seen(v, j)
    BY <1>0, <2>1, <2>3 DEF Seen, NoCopy
  <2>7. Shown' = [Shown EXCEPT ![u][i] = {}]
    BY <2>1, <2>6, ShownChanges
  <2>8. UNCHANGED Waiting
    BY <1>0, <2>1, <2>3 DEF Waiting, Idle
  <2>9. Shared!Saw(u, i)
    BY <1>10, <1>13, <2>0 DEF Delete
  <2>10. Shared!Delete(u, i)
    BY <2>3, <2>4, <2>5, <2>7, <2>8, <2>9
    DEF Shared!Delete, Shared!Nothing, Shown, Seen, Life, LifeOf, Texts, Marks, MarkOf, Waiting
  <2> QED
    BY <2>1, <2>10 DEF Shared!Next
<1>14. ASSUME NEW u \in Users, Complete(u) PROVE Shared!Next
  <2>0. PICK i \in Items : i = req[u].item
    BY <1>14 DEF Complete, Runs, IInv, RequestsSound, RequestSound
  <2>1. req[u] \in Request /\ req[u].pc = "ready"
    BY <1>14, <2>0 DEF Complete, Runs, IInv, TypeOK, RequestsSound, RequestSound
  <2>2. PICK o \in req[u].new.rule :
          /\ completion[i][o] = Nobody
          /\ completion' = [completion EXCEPT ![i][o] = u]
          /\ thanked' = [thanked EXCEPT ![i][o] = @ + 1]
    BY <1>14, <2>0 DEF Complete
  <2>3. o \in Occurrences
    BY <2>1 DEF Request, Content
  <2>4. Stored(i) /\ req' = [req EXCEPT ![u] = Idle] /\ UNCHANGED <<row, copy, journal>>
    BY <1>14, <2>0 DEF Complete, Answered
  <2>5. Life[i] = "present"
    BY <2>1, <2>4 DEF Life, LifeOf, Stored
  <2>6. UNCHANGED <<Life, Texts, Marks, Shown>>
    BY <2>4 DEF Life, LifeOf, Texts, Marks, MarkOf, Shown, Seen
  <2>7. UNCHANGED Waiting
    BY <1>0, <2>1, <2>4 DEF Waiting, Idle
  <2>8. Shared!Complete(u, i, o)
    BY <2>2, <2>4, <2>5, <2>6, <2>7
    DEF Shared!Complete, Shared!Present, Shown, Seen, Life, LifeOf, Texts, Marks, MarkOf, Waiting
  <2> QED
    BY <2>1, <2>3, <2>8 DEF Shared!Next
<1> QED
  BY <1>3, <1>4, <1>6, <1>7, <1>9, <1>11, <1>12, <1>13, <1>14 DEF Next, Transaction

\* No update is lost, and users see the items of a house as HouseItems has them: the check of
\* a version (requireVersionedRow) stands for having been shown what the row says.
THEOREM HouseholdSharesItems == Spec => ChangesAreInformed
<1>1. Init => Shared!Init
  <2> SUFFICES ASSUME Init PROVE Shared!Init
    OBVIOUS
  <2>1. Blank \in Content /\ Blank.checked = FALSE
    BY HouseholdAssumption DEF HouseholdAssumption, Blank, Content
  <2>2. \A i \in Items : row[i].state = "absent" /\ row[i].content = Blank
    BY DEF Init
  <2>3. /\ \A i \in Items : LifeOf(i) = "unborn" /\ MarkOf(i) = FALSE
        /\ \A i \in Items : Text(row[i].content) \in {Text(c) : c \in Content}
    BY <2>1, <2>2 DEF LifeOf, MarkOf
  <2>4. \A u \in Users, i \in Items : Seen(u, i) = {}
    BY DEF Init, Seen, NoCopy
  <2>5. Waiting = {}
    BY DEF Init, Waiting, Idle
  <2>6. /\ Life = [i \in Items |-> "unborn"] /\ Marks = [i \in Items |-> FALSE]
        /\ Texts \in [Items -> {Text(c) : c \in Content}]
        /\ Shown = [u \in Users |-> [i \in Items |-> {}]]
    BY <2>3, <2>4 DEF Life, Marks, Texts, Shown
  <2>7. /\ journal = [i \in Items |-> 0]
        /\ completion = [i \in Items |-> [o \in Occurrences |-> Nobody]]
        /\ thanked = [i \in Items |-> [o \in Occurrences |-> 0]]
    BY DEF Init
  <2> QED
    BY <2>5, <2>6, <2>7
    DEF Shared!Init, Shared!Nothing, Life, LifeOf, Texts, Marks, MarkOf, Shown, Seen, Waiting
<1> QED
  BY <1>1, SharedStep, Inductive, BringsHolds, UpdatesAreNotLost, PTL
  DEF Spec, Shared!Spec, ChangesAreInformed

-----------------------------------------------------------------------------
(* Chat, the rows of a house that lose their content with age. *)

\* What a run of the retention holds.  Of what it has found, a message is still to be
\* redacted, is redacted and locked, or had lost its body when its turn came.
RunSound(w) ==
  /\ run[w].pc # "claimed" => run[w].todo = {} /\ run[w].done = {} /\ run[w].found = {}
  /\ run[w].pc = "claimed" => lock = w
  /\ run[w].todo \cup run[w].done \subseteq run[w].found
  /\ \A m \in run[w].found :
       /\ message[m].state = "stored" /\ age[m] - run[w].lag >= Year
       /\ announced[m] = 0
       /\ m \in run[w].done => ~Gone(m)
       /\ m \in run[w].todo \cup run[w].done \/ Gone(m)

RunsSound == \A w \in Workers : RunSound(w)

Story ==
  /\ BodyGoneMeansTombstone /\ RedactedAreOld
  /\ RedactionsAreAnnounced

ChatIInv == ChatTypeOK /\ Story /\ RunsSound

LEMMA ChatInitHolds == ChatInit => ChatIInv
<1> SUFFICES ASSUME ChatInit PROVE ChatIInv
  OBVIOUS
<1>1. run \in [Workers -> Run] /\ \A w \in Workers : run[w] = IdleRun
  BY ChatAssumption DEF ChatAssumption, ChatInit, Run, IdleRun
<1>2. RunsSound
  BY <1>1 DEF RunsSound, RunSound, IdleRun
<1>3. message \in [Messages -> Message]
  BY DEF ChatInit, Message
<1>4. Story
  BY ChatAssumption
  DEF ChatAssumption, ChatInit, Story, BodyGoneMeansTombstone, RedactedAreOld,
      RedactionsAreAnnounced, Gone
<1>5. /\ age \in [Messages -> 0..(Year + MaxLag)]
      /\ due \in (-MaxLag)..Day
      /\ announced \in [Messages -> Nat]
      /\ crashes \in 0..MaxCrashes
  BY ChatAssumption DEF ChatAssumption, ChatInit
<1>6. lock = NoWorker /\ NoWorker \notin Workers
  BY ChatAssumption DEF ChatAssumption, ChatInit
<1> QED
  BY <1>1, <1>2, <1>3, <1>4, <1>5, <1>6 DEF ChatIInv, ChatTypeOK

\* A run that is done with a message leaves it to its author again.
LEMMA ChatTick == ASSUME ChatIInv, Tick PROVE ChatIInv'
<1> USE DEF ChatIInv
<1>1. Year \in Nat \ {0} /\ Day \in Nat \ {0} /\ MaxLag \in Nat
  BY ChatAssumption DEF ChatAssumption
<1>2. \A m \in Messages :
        /\ age'[m] \in 0..(Year + MaxLag)
        /\ message[m].state = "stored" => age'[m] = age[m] + 1 \/ age'[m] = Year + MaxLag
  BY <1>1 DEF Tick, Least, ChatTypeOK, Message
<1>3. age' \in [Messages -> 0..(Year + MaxLag)]
  BY <1>2 DEF Tick
<1>4. \A w \in Workers :
        /\ run'[w] = [run[w] EXCEPT !.lag = run'[w].lag]
        /\ run'[w].lag \in 0..MaxLag
        /\ run'[w].lag = run[w].lag + 1 \/ run[w].pc = "idle"
  BY <1>1 DEF Tick, ChatTypeOK, Run
<1>5. run' \in [Workers -> Run]
  <2>1. \A w \in Workers : run'[w] \in Run
    BY <1>4 DEF ChatTypeOK, Run
  <2> QED
    BY <2>1 DEF Tick
<1>6. due' \in (-MaxLag)..Day
  <2>1. due \in (-MaxLag)..Day
    BY DEF ChatTypeOK
  <2>2. due' = IF due = -MaxLag THEN due ELSE due - 1
    BY DEF Tick
  <2> QED
    BY <1>1, <2>1, <2>2
<1>7. ChatTypeOK'
  <2>1. \A w \in Workers : run'[w].pc = run[w].pc
    <3>1. \A w \in Workers : run[w] \in Run
      BY DEF ChatTypeOK
    <3> QED
      BY <1>4, <3>1 DEF Run
  <2> QED
    BY <1>3, <1>5, <1>6, <2>1 DEF Tick, ChatTypeOK
<1>8. Story'
  <2>1. \A m \in Messages : message[m].redacted => message[m].state = "stored"
    BY DEF Story, BodyGoneMeansTombstone, Gone
  <2>2. \A m \in Messages : age[m] >= Year /\ message[m].state = "stored" => age'[m] >= Year
    BY <1>1, <1>2 DEF ChatTypeOK
  <2>3. RedactedAreOld'
    BY <2>1, <2>2 DEF Tick, Story, RedactedAreOld
  <2> QED
    BY <2>3 DEF Tick, Story, BodyGoneMeansTombstone,
                RedactionsAreAnnounced, Gone
<1>9. ASSUME NEW w \in Workers PROVE RunSound(w)'
  <2>1. RunSound(w)
    BY DEF RunsSound
  <2>2. /\ run'[w].pc = run[w].pc /\ run'[w].todo = run[w].todo
        /\ run'[w].done = run[w].done /\ run'[w].found = run[w].found
    <3>1. run[w] \in Run
      BY DEF ChatTypeOK
    <3> QED
      BY <1>4, <3>1 DEF Run
  <2>3. ASSUME NEW m \in run[w].found PROVE age'[m] - run'[w].lag >= Year
    <3>1. m \in Messages /\ run[w].pc = "claimed" /\ message[m].state = "stored"
      BY <2>1, <2>3 DEF RunSound, ChatTypeOK, Run
    <3>2. run'[w].lag = run[w].lag + 1 /\ run'[w].lag \in 0..MaxLag
      BY <1>4, <3>1
    <3>3. age[m] - run[w].lag >= Year
      BY <2>1, <2>3 DEF RunSound
    <3>4. run[w].lag \in 0..MaxLag /\ age[m] \in 0..(Year + MaxLag)
      BY <3>1 DEF ChatTypeOK, Run
    <3> QED
      BY <1>1, <1>2, <3>1, <3>2, <3>3, <3>4
  <2> QED
    BY <2>1, <2>2, <2>3 DEF Tick, RunSound, Gone
<1> QED
  BY <1>1, <1>7, <1>8, <1>9 DEF RunsSound

\* A request on one message, which no run has redacted.
LEMMA PersonSound ==
  ASSUME ChatIInv, NEW m \in Messages, NEW written \in Message,
         message' = [message EXCEPT ![m] = written], written.state = "stored",
         ~Held(m),
         written.redacted = message[m].redacted,
         (written.body = "none") <=> written.deleted \/ written.redacted,
         Gone(m) => written.body = "none",
         UNCHANGED <<age, due, lock, run, announced, crashes>>
  PROVE  ChatIInv'
<1> USE DEF ChatIInv
<1>1. ChatTypeOK'
  BY DEF ChatTypeOK
<1>2. /\ \A n \in Messages : n # m => message'[n] = message[n]
      /\ message'[m] = written
  BY DEF ChatTypeOK
<1>3. \A n \in Messages : Gone(n) => Gone(n)'
  BY <1>2 DEF Gone
<1>4. Story'
  BY <1>2, <1>3 DEF Story, BodyGoneMeansTombstone, RedactedAreOld,
                    RedactionsAreAnnounced, Gone
<1>5. ASSUME NEW w \in Workers PROVE RunSound(w)'
  <2>1. RunSound(w) /\ run[w].found \subseteq Messages
    BY DEF RunsSound, ChatTypeOK, Run
  <2>2. m \notin run[w].done
    BY DEF Held
  <2>3. \A n \in run[w].found : /\ message'[n].state = "stored"
                                /\ n \in run[w].done => message'[n] = message[n]
    BY <1>2, <2>1, <2>2 DEF RunSound
  <2>4. \A n \in run[w].found : /\ n \in run[w].done => ~Gone(n)'
                                /\ n \in run[w].todo \cup run[w].done \/ Gone(n)'
    BY <1>3, <2>1, <2>3 DEF RunSound, Gone
  <2> QED
    BY <2>1, <2>3, <2>4 DEF RunSound
<1> QED
  BY <1>1, <1>4, <1>5 DEF RunsSound

LEMMA ChatRequests ==
  ASSUME ChatIInv, NEW m \in Messages,
         CreateChat(m) \/ EditChat(m) \/ DeleteChat(m)
  PROVE  ChatIInv'
<1> USE DEF ChatIInv
<1>1. message[m] \in Message
  BY DEF ChatTypeOK
<1>2. Gone(m) <=> message[m].deleted \/ message[m].redacted
  BY DEF Story, BodyGoneMeansTombstone
<1>3. CASE CreateChat(m)
  <2> DEFINE written == [message[m] EXCEPT !.state = "stored", !.body = "first"]
  <2>1. message' = [message EXCEPT ![m] = written] /\ written \in Message
    BY <1>1, <1>3 DEF CreateChat, Message, ChatTypeOK
  <2>2. ~Held(m)
    <3>1. \A w \in Workers : RunSound(w)
      BY DEF RunsSound
    <3> QED
      BY <1>3, <3>1 DEF CreateChat, Held, RunSound
  <2>3. /\ written.state = "stored" /\ written.body = "first"
        /\ written.redacted = message[m].redacted /\ written.deleted = message[m].deleted
    BY <1>1 DEF Message
  <2>4. ~Gone(m)
    BY <1>3 DEF CreateChat, Gone
  <2> HIDE DEF written
  <2> QED
    BY <1>2, <1>3, <2>1, <2>2, <2>3, <2>4, PersonSound DEF CreateChat
<1>4. CASE EditChat(m)
  <2> DEFINE written == [message[m] EXCEPT !.body = "edited"]
  <2>1. message' = [message EXCEPT ![m] = written] /\ written \in Message
    BY <1>1, <1>4 DEF EditChat, Message, ChatTypeOK
  <2>2. /\ written.state = "stored" /\ written.body = "edited"
        /\ written.redacted = message[m].redacted /\ written.deleted = message[m].deleted
        /\ ~message[m].deleted /\ ~message[m].redacted
    BY <1>1, <1>4 DEF EditChat, Message
  <2> HIDE DEF written
  <2> QED
    BY <1>2, <1>4, <2>1, <2>2, PersonSound DEF EditChat
<1>5. CASE DeleteChat(m)
  <2> DEFINE written == [message[m] EXCEPT !.deleted = TRUE, !.body = "none"]
  <2>1. message' = [message EXCEPT ![m] = written] /\ written \in Message
    BY <1>1, <1>5 DEF DeleteChat, Message, ChatTypeOK
  <2>2. /\ written.state = "stored" /\ written.body = "none"
        /\ written.redacted = message[m].redacted /\ written.deleted
    BY <1>1, <1>5 DEF DeleteChat, Message
  <2> HIDE DEF written
  <2> QED
    BY <1>5, <2>1, <2>2, PersonSound DEF DeleteChat
<1> QED
  BY <1>3, <1>4, <1>5

\* A step of a run that changes no row.
LEMMA RunGoes ==
  ASSUME ChatIInv, NEW w \in Workers, NEW q \in Run,
         run' = [run EXCEPT ![w] = q],
         lock' \in Workers \cup {NoWorker},
         \A v \in Workers : v # w => (lock' = v <=> lock = v),
         q.pc = "claimed" <=> lock' = w,
         UNCHANGED <<message, age, due, announced>>, crashes' \in 0..MaxCrashes,
         q.pc # "claimed" => q.todo = {} /\ q.done = {} /\ q.found = {},
         q.todo \cup q.done \subseteq q.found,
         \A m \in q.found :
           /\ message[m].state = "stored" /\ age[m] - q.lag >= Year
           /\ announced[m] = 0
           /\ m \in q.done => ~Gone(m)
           /\ m \in q.todo \cup q.done \/ Gone(m)
  PROVE  ChatIInv'
<1> USE DEF ChatIInv
<1>1. run'[w] = q /\ \A v \in Workers : v # w => run'[v] = run[v]
  BY DEF ChatTypeOK
<1>2. run' \in [Workers -> Run]
  BY DEF ChatTypeOK
<1>3. ChatTypeOK'
  BY <1>1, <1>2 DEF ChatTypeOK
<1>4. Story'
  BY DEF Story, BodyGoneMeansTombstone, RedactedAreOld,
         RedactionsAreAnnounced, Gone
<1>5. \A m \in Messages : Gone(m)' = Gone(m)
  BY DEF Gone
<1>6. ASSUME NEW v \in Workers PROVE RunSound(v)'
  <2>1. CASE v = w
    BY <1>1, <2>1 DEF RunSound, Gone
  <2>2. CASE v # w
    BY <1>1, <2>2 DEF RunsSound, RunSound, Gone
  <2> QED
    BY <2>1, <2>2
<1> QED
  BY <1>3, <1>4, <1>6, ChatAssumption DEF RunsSound, ChatAssumption

LEMMA RunEnds ==
  /\ IdleRun \in Run /\ IdleRun.pc = "idle"
  /\ IdleRun.todo = {} /\ IdleRun.done = {} /\ IdleRun.found = {}
  BY ChatAssumption DEF ChatAssumption, IdleRun, Run

LEMMA ChatClaims ==
  ASSUME ChatIInv, NEW w \in Workers, Claim(w)
  PROVE  ChatIInv'
<1> USE DEF ChatIInv
<1>1. PICK T \in Oldest(Eligible(run[w].lag)), full \in BOOLEAN :
        run' = [run EXCEPT ![w].pc = "claimed", ![w].todo = T, ![w].found = T,
                           ![w].full = full]
  BY DEF Claim
<1> DEFINE q == [run[w] EXCEPT !.pc = "claimed", !.todo = T, !.found = T, !.full = full]
<1>2. T \subseteq Eligible(run[w].lag)
  BY DEF Oldest
<1>3. run[w] \in Run /\ run[w].done = {}
  BY DEF Claim, RunsSound, RunSound, ChatTypeOK
<1>4. T \subseteq Messages
  BY <1>2 DEF Eligible
<1>5. /\ q \in Run /\ run' = [run EXCEPT ![w] = q]
      /\ q.pc = "claimed" /\ q.todo = T /\ q.found = T /\ q.done = {} /\ q.lag = run[w].lag
  BY <1>1, <1>3, <1>4 DEF ChatTypeOK, Run
<1>6. \A m \in T : /\ message[m].state = "stored" /\ age[m] - q.lag >= Year
                   /\ announced[m] = 0
  BY <1>2, <1>4, <1>5 DEF Eligible, Gone, Story, ChatTypeOK,
                          RedactionsAreAnnounced
<1>7. lock = NoWorker /\ lock' = w /\ NoWorker \notin Workers
      /\ UNCHANGED <<message, age, due, announced, crashes>>
  BY ChatAssumption DEF Claim, ChatAssumption
<1>8. crashes' \in 0..MaxCrashes
  BY <1>7 DEF ChatTypeOK
<1> HIDE DEF q
<1> QED
  BY <1>5, <1>6, <1>7, <1>8, RunGoes

LEMMA ChatRuns ==
  ASSUME ChatIInv, NEW w \in Workers,
         Start(w) \/ NotDue(w) \/ Redact(w) \/ Crash(w)
  PROVE  ChatIInv'
<1> USE DEF ChatIInv
<1>1. run[w] \in Run /\ RunSound(w) /\ crashes \in 0..MaxCrashes
      /\ (run[w].pc = "claimed" <=> lock = w)
      /\ lock \in Workers \cup {NoWorker} /\ NoWorker \notin Workers
  BY ChatAssumption DEF RunsSound, RunSound, ChatTypeOK, ChatAssumption
<1>2. CASE Start(w)
  <2> DEFINE q == [run[w] EXCEPT !.pc = "started"]
  <2>1. /\ q \in Run /\ run' = [run EXCEPT ![w] = q]
        /\ q.pc = "started" /\ q.todo = {} /\ q.found = {} /\ q.done = {}
    BY <1>1, <1>2 DEF Start, ChatTypeOK, Run, RunSound
  <2>2. lock # w /\ UNCHANGED <<message, age, due, lock, announced, crashes>>
    BY <1>1, <1>2 DEF Start
  <2> HIDE DEF q
  <2> QED
    BY <1>1, <2>1, <2>2, RunGoes
<1>3. CASE NotDue(w)
  <2>1. lock # w /\ UNCHANGED <<message, age, due, lock, announced, crashes>>
        /\ run' = [run EXCEPT ![w] = IdleRun]
    BY <1>1, <1>3 DEF NotDue
  <2> QED
    BY <1>1, <2>1, RunEnds, RunGoes
<1>4. CASE Redact(w)
  <2>1. PICK m \in run[w].todo :
          run' = [run EXCEPT ![w].todo = @ \ {m},
                             ![w].done = IF Gone(m) THEN @ ELSE @ \cup {m}]
    BY <1>4 DEF Redact
  <2> DEFINE q == [run[w] EXCEPT !.todo = @ \ {m},
                                 !.done = IF Gone(m) THEN @ ELSE @ \cup {m}]
  <2>2. /\ q \in Run /\ run' = [run EXCEPT ![w] = q]
        /\ q.pc = run[w].pc /\ q.lag = run[w].lag /\ q.found = run[w].found
        /\ q.todo = run[w].todo \ {m}
        /\ q.done = IF Gone(m) THEN run[w].done ELSE run[w].done \cup {m}
    BY <1>1, <2>1 DEF ChatTypeOK, Run
  <2>3. run[w].pc = "claimed" /\ lock = w
    BY <1>1, <2>1 DEF RunSound
  <2>4. UNCHANGED <<message, age, due, lock, announced, crashes>>
    BY <1>4 DEF Redact
  <2> HIDE DEF q
  <2>5. m \in run[w].found
    BY <1>1, <2>1 DEF RunSound
  <2>6. \A n \in q.found :
           /\ message[n].state = "stored" /\ age[n] - q.lag >= Year
           /\ announced[n] = 0
           /\ n \in q.done => ~Gone(n)
           /\ n \in q.todo \cup q.done \/ Gone(n)
    BY <1>1, <2>2 DEF RunSound
  <2>7. q.todo \cup q.done \subseteq q.found
    BY <1>1, <2>2, <2>5 DEF RunSound
  <2> QED
    BY <1>1, <2>2, <2>3, <2>4, <2>6, <2>7, RunGoes
<1>5. CASE Crash(w)
  <2>1. /\ UNCHANGED <<message, age, due, announced>>
        /\ run' = [run EXCEPT ![w] = IdleRun]
        /\ lock' = IF lock = w THEN NoWorker ELSE lock
    BY <1>5 DEF Crash
  <2>2. crashes' \in 0..MaxCrashes
    BY <1>1, <1>5, ChatAssumption DEF Crash, ChatAssumption
  <2> QED
    BY <1>1, <2>1, <2>2, RunEnds, RunGoes
<1> QED
  BY <1>2, <1>3, <1>4, <1>5

LEMMA ChatFinishes ==
  ASSUME ChatIInv, NEW w \in Workers, Finish(w)
  PROVE  ChatIInv'
<1> USE DEF ChatIInv
<1> DEFINE F == run[w].found
           D == run[w].done
<1>1. run[w] \in Run /\ RunSound(w) /\ lock = w /\ F \subseteq Messages
      /\ run[w].todo = {} /\ run[w].pc = "claimed"
  BY DEF RunsSound, RunSound, ChatTypeOK, Run, Finish
<1>2. \A m \in Messages :
        /\ m \in D => message'[m] = [message[m] EXCEPT !.body = "none", !.redacted = TRUE]
        /\ m \notin D => message'[m] = message[m]
  BY DEF Finish
<1>3. message' \in [Messages -> Message]
  <2>1. ASSUME NEW m \in Messages PROVE message'[m] \in Message
    <3>1. message[m] \in Message
      BY DEF ChatTypeOK
    <3>2. CASE m \in D
      BY <1>2, <3>1, <3>2 DEF Message
    <3>3. CASE m \notin D
      BY <1>2, <3>1, <3>3
    <3> QED
      BY <3>2, <3>3
  <2> QED
    BY <2>1 DEF Finish
<1>4. ASSUME NEW m \in Messages
      PROVE  /\ message'[m].state = message[m].state
             /\ message'[m].deleted = message[m].deleted
             /\ m \in D => message'[m].body = "none" /\ message'[m].redacted
  <2>1. message[m] \in Message
    BY DEF ChatTypeOK
  <2>2. CASE m \in D
    BY <1>2, <2>1, <2>2 DEF Message
  <2>3. CASE m \notin D
    BY <1>2, <2>1, <2>3
  <2> QED
    BY <2>2, <2>3
<1>5. ASSUME NEW m \in Messages
      PROVE  /\ announced[m] \in Nat
             /\ announced'[m] = IF m \in F THEN announced[m] + 1 ELSE announced[m]
  <2>1. announced[m] \in Nat
    BY DEF ChatTypeOK
  <2>2. announced'[m] = announced[m] + IF m \in F THEN 1 ELSE 0
    BY DEF Finish
  <2>3. CASE m \in F
    BY <2>1, <2>2, <2>3
  <2>4. CASE m \notin F
    BY <2>1, <2>2, <2>4
  <2> QED
    BY <2>3, <2>4
<1>5a. announced' \in [Messages -> Nat]
  <2>1. \A m \in Messages : announced'[m] \in Nat
    BY <1>5
  <2> QED
    BY <2>1 DEF Finish
<1>6. due' \in (-MaxLag)..Day
  <2>1. run[w].lag \in 0..MaxLag
    BY <1>1 DEF Run
  <2>2. due' = -run[w].lag \/ due' = Day - run[w].lag
    BY DEF Finish
  <2> QED
    BY <2>1, <2>2, ChatAssumption DEF ChatAssumption
<1>7. /\ run' \in [Workers -> Run]
      /\ run'[w] = IdleRun
      /\ \A v \in Workers : v # w => run'[v] = run[v]
  BY RunEnds DEF Finish, ChatTypeOK
<1>8. lock' = NoWorker /\ NoWorker \notin Workers /\ UNCHANGED <<age, crashes>>
  BY ChatAssumption DEF Finish, ChatAssumption
<1>9. ChatTypeOK'
  BY <1>3, <1>6, <1>7, <1>8, <1>5a DEF ChatTypeOK
<1>10. \A m \in Messages : Gone(m)' <=> Gone(m) \/ m \in D
  BY <1>1, <1>2, <1>4 DEF Gone, RunSound
<1>11. BodyGoneMeansTombstone'
  BY <1>2, <1>4, <1>10 DEF Story, BodyGoneMeansTombstone
<1>12. RedactedAreOld'
  <2>1. \A m \in D : age[m] >= Year
    BY <1>1, ChatAssumption DEF RunSound, Run, ChatTypeOK, ChatAssumption
  <2> QED
    BY <1>2, <1>8, <2>1 DEF Story, RedactedAreOld
<1>13. RedactionsAreAnnounced'
  <2>1. \A m \in F : announced[m] = 0 /\ (m \in D \/ Gone(m))
    BY <1>1 DEF RunSound
  <2>2. D \subseteq F
    BY <1>1 DEF RunSound
  <2> SUFFICES ASSUME NEW m \in Messages
               PROVE  /\ announced'[m] <= 1
                      /\ message'[m].redacted => announced'[m] = 1
                      /\ announced'[m] = 1 => Gone(m)'
    BY DEF RedactionsAreAnnounced
  <2>3. /\ announced[m] <= 1 /\ announced[m] \in Nat
        /\ message[m].redacted => announced[m] = 1
        /\ announced[m] = 1 => Gone(m)
    BY DEF Story, RedactionsAreAnnounced, ChatTypeOK
  <2>4. CASE m \in F
    BY <1>5, <1>10, <2>1, <2>4
  <2>5. CASE m \notin F
    BY <1>2, <1>5, <1>10, <2>2, <2>3, <2>5
  <2> QED
    BY <2>4, <2>5
<1>14. ASSUME NEW v \in Workers PROVE RunSound(v)'
  <2>1. run'[v].pc # "claimed" /\ run'[v].todo = {} /\ run'[v].done = {} /\ run'[v].found = {}
    <3>1. CASE v = w
      BY <1>7, <3>1, RunEnds
    <3>2. CASE v # w
      BY <1>1, <1>7, <3>2 DEF RunsSound, RunSound
    <3> QED
      BY <3>1, <3>2
  <2> QED
    BY <2>1 DEF RunSound
<1> QED
  BY <1>9, <1>11, <1>12, <1>13, <1>14 DEF Story, RunsSound

LEMMA ChatNextKeeps == ChatIInv /\ [ChatNext]_chatVars => ChatIInv'
<1> SUFFICES ASSUME ChatIInv, [ChatNext]_chatVars PROVE ChatIInv'
  OBVIOUS
<1>1. CASE UNCHANGED chatVars
  BY <1>1 DEF ChatIInv, chatVars, ChatTypeOK, Story, RunsSound, RunSound,
      BodyGoneMeansTombstone, RedactedAreOld,
      RedactionsAreAnnounced, Gone
<1> QED
  BY <1>1, ChatTick, ChatRequests, ChatClaims, ChatRuns, ChatFinishes
  DEF ChatNext, Retention

LEMMA ChatInductive == ChatSpec => []ChatIInv
  BY ChatInitHolds, ChatNextKeeps, PTL DEF ChatSpec

\* Each message has lost its body exactly when it carries a tombstone, no younger than
\* a year if the retention took it, and its house was told once.
THEOREM ChatSound == ChatSpec => []ChatInv
<1>1. ChatIInv => ChatInv
  BY DEF ChatIInv, Story, ChatInv
<1> QED
  BY <1>1, ChatInductive, PTL

LEMMA GoneStaysGone ==
  ASSUME ChatIInv, ChatNext, NEW m \in Messages, Gone(m)
  PROVE  message'[m].body = "none"
<1> USE DEF ChatIInv
<1>1. message[m].deleted \/ message[m].redacted
  BY DEF Story, BodyGoneMeansTombstone
<1>2. ASSUME NEW n \in Messages, CreateChat(n) \/ EditChat(n)
      PROVE  message'[m].body = "none"
  BY <1>1, <1>2 DEF CreateChat, EditChat, Gone, ChatTypeOK
<1>3. ASSUME NEW n \in Messages, DeleteChat(n) PROVE message'[m].body = "none"
  BY <1>3 DEF DeleteChat, Gone, ChatTypeOK, Message
<1>4. ASSUME NEW w \in Workers, Finish(w) PROVE message'[m].body = "none"
  BY <1>4 DEF Finish, Gone, ChatTypeOK, Message
<1>5. ASSUME UNCHANGED message PROVE message'[m].body = "none"
  BY <1>5 DEF Gone
<1> QED
  BY <1>2, <1>3, <1>4, <1>5
  DEF ChatNext, Retention, Tick, Start, Claim,
      NotDue, Redact, Crash

\* No edit brings back a body that its author or the retention has taken.
THEOREM BodiesStayGone ==
  ChatSpec => BodyNeverReturns
<1> DEFINE Kept == \A m \in Messages : Gone(m) => message'[m].body = "none"
<1>1. ChatIInv /\ [ChatNext]_chatVars => [Kept]_chatVars
  BY GoneStaysGone
<1> QED
  BY <1>1, ChatInductive, PTL DEF ChatSpec, BodyNeverReturns
=============================================================================
