---------------------------- MODULE StartupProofs ----------------------------
(* What holds of the certificates and the schema for every number of         *)
(* programs, of faults and of migrations.                                    *)
EXTENDS Startup, TLAPS

\* A key that is not the CA's belongs to a run that replaces the CA for cause.
CAIsDue == files.ca = NoCert \/ files.ca.left < RenewThreshold
CAKeyLags == files.caKey # files.ca.key => CAIsDue

\* A pair a run is done with.
Repaired(l) ==
  /\ files.key[l] = files.crt[l].key /\ files.crt[l].signer = files.ca.key
  /\ hosts[l] \subseteq files.crt[l].hosts
  /\ files.crt[l].left >= RenewThreshold

\* How far a run is, and what it has seen to by then.
RunSound ==
  /\ step.at = "ca.crt" => CAIsDue
  /\ step.at \in {"check", "crt", "pg_hba"} => files.caKey = files.ca.key
  /\ step.leaf = "backend" \/ step.at = "pg_hba" => Repaired("db")
  /\ step.at = "pg_hba" => Repaired("backend")

CompletedSound ==
  completed => /\ step.at = "idle"
               /\ files.crt["db"].signer = files.ca.key
               /\ Dialled \in files.crt["db"].hosts

CertificatesInv == TLSTypeOK /\ CAKeyLags /\ RunSound /\ CompletedSound

-----------------------------------------------------------------------------
(* Certificates *)

LEMMA KeysSuffice ==
  ASSUME NEW a \in Keys \cup {NoKey}, NEW b \in Keys \cup {NoKey}, NEW c \in Keys \cup {NoKey},
         NEW d \in Keys \cup {NoKey}, NEW e \in Keys \cup {NoKey}
  PROVE  \E k \in Keys : k \notin {a, b, c, d, e}
<1>1. Keys \ {a, b, c, d, e} # {}
  BY InternalTLSAssumption DEF InternalTLSAssumption
<1> QED
  BY <1>1

\* A new key exists, and it is nowhere in use.
LEMMA NewCAKeyIsNew ==
  ASSUME TLSTypeOK
  PROVE  NewCAKey \in Keys
<1> DEFINE used == {files.caKey, files.ca.key} \cup {files.crt[l].signer : l \in Leaves}
                     \cup {served.signer}
           a == files.caKey
           b == files.ca.key
           c == files.crt["db"].signer
           d == files.crt["backend"].signer
           e == served.signer
<1>1. /\ a \in Keys \cup {NoKey} /\ b \in Keys \cup {NoKey} /\ c \in Keys \cup {NoKey}
      /\ d \in Keys \cup {NoKey} /\ e \in Keys \cup {NoKey}
  BY DEF TLSTypeOK, Cert, Served, Leaves
<1>2. used = {a, b, c, d, e}
  BY DEF Leaves
<1> HIDE DEF a, b, c, d, e
<1>3. \E k \in Keys : k \notin {a, b, c, d, e}
  BY <1>1, KeysSuffice
<1> HIDE DEF used
<1>4. NewKey(used) \in Keys
  BY <1>2, <1>3 DEF NewKey
<1> QED
  BY <1>4 DEF NewCAKey, used

LEMMA NewLeafKeyIsNew ==
  ASSUME TLSTypeOK, NEW l \in Leaves
  PROVE  NewLeafKey(l) \in Keys
<1>1. files.key[l] \in Keys \cup {NoKey} /\ files.crt[l].key \in Keys \cup {NoKey}
  BY DEF TLSTypeOK, Cert
<1>2. \E k \in Keys : k \notin {files.key[l], files.crt[l].key}
  <2>1. Keys \ {files.key[l], files.crt[l].key, NoKey, NoKey, NoKey} # {}
    BY <1>1, InternalTLSAssumption DEF InternalTLSAssumption
  <2> QED
    BY <2>1
<1> QED
  BY <1>2 DEF NewLeafKey, NewKey

LEMMA FilesTyped ==
  ASSUME TLSTypeOK
  PROVE  /\ files.caKey \in Keys \cup {NoKey} /\ files.ca \in Cert
         /\ files.key \in [Leaves -> Keys \cup {NoKey}] /\ files.crt \in [Leaves -> Cert]
         /\ files = [caKey |-> files.caKey, ca |-> files.ca, key |-> files.key,
                     crt |-> files.crt]
BY DEF TLSTypeOK

LEMMA EnsureKeeps ==
  ASSUME CertificatesInv, Ensure
  PROVE  CertificatesInv'
<1>1. CASE LoadsCA
  <2>1. step' = Leaf("check", "db") /\ UNCHANGED <<files, hosts, served>>
        /\ newCA' = FALSE /\ completed' = FALSE
    BY <1>1 DEF Ensure
  <2>2. step'.at = "check" /\ step'.leaf = "db" /\ step' \in Step
    BY <2>1 DEF Leaf, Step, Leaves
  <2> QED
    BY <1>1, <2>1, <2>2
       DEF CertificatesInv, TLSTypeOK, CAKeyLags, CAIsDue, RunSound, CompletedSound, LoadsCA
<1>2. CASE ~LoadsCA
  <2>1. /\ step' = At("ca.crt") /\ files' = [files EXCEPT !.caKey = NewCAKey]
        /\ UNCHANGED <<hosts, served>> /\ newCA' = FALSE /\ completed' = FALSE
    BY <1>2 DEF Ensure
  <2>2. step'.at = "ca.crt" /\ step'.leaf = "none" /\ step' \in Step
    BY <2>1 DEF At, Step
  <2>3. NewCAKey \in Keys
    BY NewCAKeyIsNew DEF CertificatesInv
  <2>4. /\ files' \in [caKey : Keys \cup {NoKey}, ca : Cert,
                       key : [Leaves -> Keys \cup {NoKey}], crt : [Leaves -> Cert]]
        /\ files'.ca = files.ca
    BY <2>1, <2>3 DEF CertificatesInv, TLSTypeOK
  <2>5. CAIsDue
    <3>1. files.ca \in Cert /\ RenewThreshold \in Nat /\ Validity \in Nat
      BY InternalTLSAssumption DEF InternalTLSAssumption, CertificatesInv, TLSTypeOK
    <3> QED
      BY <1>2, <3>1 DEF LoadsCA, CertificatesInv, CAKeyLags, CAIsDue, Cert
  <2>6. CAIsDue'
    BY <2>4, <2>5 DEF CAIsDue
  <2> QED
    BY <2>1, <2>2, <2>4, <2>6
       DEF CertificatesInv, TLSTypeOK, CAKeyLags, RunSound, CompletedSound
<1> QED
  BY <1>1, <1>2

LEMMA IssueCAKeeps ==
  ASSUME CertificatesInv, IssueCA
  PROVE  CertificatesInv'
<1> DEFINE c == [key |-> files.caKey, signer |-> files.caKey, hosts |-> {}, left |-> Validity]
<1>1. /\ step' = Leaf("check", "db") /\ files' = [files EXCEPT !.ca = c]
      /\ newCA' = TRUE /\ UNCHANGED <<hosts, completed, served>> /\ step = At("ca.crt")
  BY DEF IssueCA
<1>2. step'.at = "check" /\ step'.leaf = "db" /\ step' \in Step /\ step.at = "ca.crt"
  BY <1>1 DEF Leaf, Step, Leaves, At
<1>3. c \in Cert
  BY FilesTyped, InternalTLSAssumption DEF InternalTLSAssumption, CertificatesInv, Cert
<1>4. c.key = files.caKey
  OBVIOUS
<1> HIDE DEF c
<1>5. /\ files' \in [caKey : Keys \cup {NoKey}, ca : Cert,
                     key : [Leaves -> Keys \cup {NoKey}], crt : [Leaves -> Cert]]
      /\ files'.ca.key = files'.caKey
  BY <1>1, <1>3, <1>4 DEF CertificatesInv, TLSTypeOK
<1> QED
  BY <1>1, <1>2, <1>5 DEF CertificatesInv, TLSTypeOK, CAKeyLags, RunSound, CompletedSound

\* The step after a pair has been seen to.
LEMMA AfterLeafSound ==
  ASSUME NEW l \in Leaves
  PROVE  /\ AfterLeaf(l) \in Step
         /\ l = "db" => AfterLeaf(l).at = "check" /\ AfterLeaf(l).leaf = "backend"
         /\ l = "backend" => AfterLeaf(l).at = "pg_hba" /\ AfterLeaf(l).leaf = "none"
BY DEF AfterLeaf, Leaf, At, Step, Leaves

LEMMA CheckLeafKeeps ==
  ASSUME CertificatesInv, NEW l \in Leaves, CheckLeaf(l)
  PROVE  CertificatesInv'
<1>1. /\ step.at = "check" /\ step.leaf = l /\ UNCHANGED <<newCA, hosts, completed, served>>
      /\ files.caKey = files.ca.key
  BY DEF CheckLeaf, Leaf, CertificatesInv, RunSound
<1>2. l \in {"db", "backend"}
  BY DEF Leaves
<1>3. CASE ~newCA /\ LeafCurrent(l)
  <2>1. step' = AfterLeaf(l) /\ UNCHANGED files
    BY <1>3 DEF CheckLeaf
  <2>2. Repaired(l)
    BY <1>3 DEF LeafCurrent, Paired, Repaired
  <2>3. RunSound'
    BY <1>1, <1>2, <2>1, <2>2, AfterLeafSound DEF RunSound, Repaired, CertificatesInv, CAIsDue
  <2> QED
    BY <1>1, <2>1, <2>3, AfterLeafSound
       DEF CertificatesInv, TLSTypeOK, CAKeyLags, CAIsDue, CompletedSound
<1>4. CASE ~(~newCA /\ LeafCurrent(l))
  <2>1. step' = Leaf("crt", l) /\ files' = [files EXCEPT !.key[l] = NewLeafKey(l)]
    BY <1>4 DEF CheckLeaf
  <2>2. NewLeafKey(l) \in Keys
    BY NewLeafKeyIsNew DEF CertificatesInv
  <2>3. /\ files'.caKey = files.caKey /\ files'.ca = files.ca /\ files'.crt = files.crt
        /\ files'.key = [files.key EXCEPT ![l] = NewLeafKey(l)]
        /\ files' = [caKey |-> files'.caKey, ca |-> files'.ca, key |-> files'.key,
                     crt |-> files'.crt]
    BY <2>1, FilesTyped DEF CertificatesInv
  <2>4. files'.key \in [Leaves -> Keys \cup {NoKey}] /\ \A m \in Leaves : m # l => files'.key[m] = files.key[m]
    BY <2>2, <2>3, FilesTyped DEF CertificatesInv
  <2>5. step'.at = "crt" /\ step'.leaf = l /\ step' \in Step
    BY <2>1 DEF Leaf, Step
  <2>6. files' \in [caKey : Keys \cup {NoKey}, ca : Cert,
                    key : [Leaves -> Keys \cup {NoKey}], crt : [Leaves -> Cert]]
    BY <2>3, <2>4, FilesTyped DEF CertificatesInv
  <2>7. l = "backend" => Repaired("db")'
    BY <1>1, <2>3, <2>4 DEF Leaves, CertificatesInv, RunSound, Repaired
  <2>8. RunSound'
    BY <1>1, <1>2, <2>3, <2>5, <2>7 DEF RunSound, CAIsDue
  <2> QED
    BY <1>1, <2>3, <2>5, <2>6, <2>8
       DEF CertificatesInv, TLSTypeOK, CAKeyLags, CAIsDue, CompletedSound
<1> QED
  BY <1>3, <1>4

LEMMA WriteLeafKeeps ==
  ASSUME CertificatesInv, NEW l \in Leaves, WriteLeaf(l)
  PROVE  CertificatesInv'
<1> DEFINE c == [key |-> files.key[l], signer |-> files.caKey, hosts |-> hosts[l],
                 left |-> Validity - Hour]
<1>1. /\ step.at = "crt" /\ step.leaf = l /\ UNCHANGED <<newCA, hosts, completed, served>>
      /\ files.caKey = files.ca.key /\ step' = AfterLeaf(l)
  BY DEF WriteLeaf, Leaf, CertificatesInv, RunSound
<1>2. l \in {"db", "backend"}
  BY DEF Leaves
<1>3. files' = [files EXCEPT !.crt[l] = c]
  BY DEF WriteLeaf
<1>4. c \in Cert
  <2>1. Validity - Hour \in 0..Validity
    BY InternalTLSAssumption DEF InternalTLSAssumption
  <2>2. hosts[l] \in SUBSET Names
    BY DEF CertificatesInv, TLSTypeOK, Asked
  <2> QED
    BY <2>1, <2>2, FilesTyped DEF CertificatesInv, Cert
<1>5. /\ c.key = files.key[l] /\ c.signer = files.caKey /\ c.hosts = hosts[l]
      /\ c.left >= RenewThreshold
  BY InternalTLSAssumption DEF InternalTLSAssumption
<1> HIDE DEF c
<1>6. /\ files'.caKey = files.caKey /\ files'.ca = files.ca /\ files'.key = files.key
      /\ files'.crt = [files.crt EXCEPT ![l] = c]
      /\ files' = [caKey |-> files'.caKey, ca |-> files'.ca, key |-> files'.key,
                   crt |-> files'.crt]
  BY <1>3, FilesTyped DEF CertificatesInv
<1>7. /\ files'.crt \in [Leaves -> Cert] /\ files'.crt[l] = c
      /\ \A m \in Leaves : m # l => files'.crt[m] = files.crt[m]
  BY <1>4, <1>6, FilesTyped DEF CertificatesInv
<1>8. files' \in [caKey : Keys \cup {NoKey}, ca : Cert,
                  key : [Leaves -> Keys \cup {NoKey}], crt : [Leaves -> Cert]]
  BY <1>6, <1>7, FilesTyped DEF CertificatesInv
<1>9. Repaired(l)'
  BY <1>1, <1>5, <1>6, <1>7 DEF Repaired
<1>10. l = "backend" => Repaired("db")'
  BY <1>1, <1>6, <1>7 DEF Leaves, CertificatesInv, RunSound, Repaired
<1>11. RunSound'
  BY <1>1, <1>2, <1>6, <1>9, <1>10, AfterLeafSound DEF RunSound, CAIsDue
<1>12. ~completed
  BY <1>1 DEF CertificatesInv, CompletedSound
<1> QED
  BY <1>1, <1>6, <1>8, <1>11, <1>12, AfterLeafSound
     DEF CertificatesInv, TLSTypeOK, CAKeyLags, CAIsDue, CompletedSound

LEMMA WriteHBAKeeps ==
  ASSUME CertificatesInv, WriteHBA
  PROVE  CertificatesInv'
<1>1. /\ step.at = "pg_hba" /\ step'.at = "idle" /\ step'.leaf = "none" /\ step' \in Step
      /\ newCA' = FALSE /\ completed' = TRUE /\ UNCHANGED <<files, hosts, served>>
  BY DEF WriteHBA, At, Step
<1>2. Repaired("db") /\ Dialled \in hosts["db"]
  BY <1>1 DEF CertificatesInv, RunSound, TLSTypeOK, Asked, Leaves
<1> QED
  BY <1>1, <1>2
     DEF CertificatesInv, TLSTypeOK, CAKeyLags, CAIsDue, RunSound, CompletedSound, Repaired

LEMMA InterruptedKeeps ==
  ASSUME CertificatesInv, Interrupted
  PROVE  CertificatesInv'
<1>1. /\ step'.at = "idle" /\ step'.leaf = "none" /\ step' \in Step
      /\ newCA' = FALSE /\ UNCHANGED <<files, hosts, completed, served>>
  BY DEF Interrupted, At, Step
<1> QED
  BY <1>1 DEF CertificatesInv, TLSTypeOK, CAKeyLags, CAIsDue, RunSound, CompletedSound

LEMMA IdleIsNowhere ==
  ASSUME step = At("idle")
  PROVE  step.at = "idle" /\ step.leaf = "none"
BY DEF At

LEMMA AskForKeeps ==
  ASSUME CertificatesInv, NEW l \in Leaves, AskFor(l)
  PROVE  CertificatesInv'
<1>1. step = At("idle") /\ UNCHANGED <<files, step, newCA, completed, served>>
      /\ hosts' \in [Leaves -> Asked]
  BY DEF AskFor, CertificatesInv, TLSTypeOK
<1> QED
  BY <1>1, IdleIsNowhere
     DEF CertificatesInv, TLSTypeOK, CAKeyLags, CAIsDue, RunSound, CompletedSound

LEMMA ServerKeeps ==
  ASSUME CertificatesInv, UNCHANGED <<files, step, newCA, hosts, completed>>, served' \in Served
  PROVE  CertificatesInv'
BY DEF CertificatesInv, TLSTypeOK, CAKeyLags, CAIsDue, RunSound, CompletedSound, Repaired

LEMMA NoServerTyped == NoServer \in Served
  BY InternalTLSAssumption DEF InternalTLSAssumption, NoServer, Served

LEMMA StartServerTyped ==
  ASSUME CertificatesInv, StartServer
  PROVE  served' \in Served
<1>1. files.crt["db"] \in Cert
  BY FilesTyped DEF CertificatesInv, Leaves
<1> QED
  BY <1>1 DEF StartServer, Served, Cert

\* A certificate that ages keeps all but its life, which only shrinks.
LEMMA AgedCert ==
  ASSUME NEW c \in Cert
  PROVE  /\ Aged(c) \in Cert
         /\ Aged(c).key = c.key /\ Aged(c).signer = c.signer /\ Aged(c).hosts = c.hosts
         /\ Aged(c).left <= c.left
         /\ c = NoCert => Aged(c) = NoCert
<1>1. c.left \in 0..Validity /\ Validity \in Nat
  BY InternalTLSAssumption DEF InternalTLSAssumption, Cert
<1>2. (IF c.left = 0 THEN 0 ELSE c.left - 1) \in 0..Validity
  BY <1>1
<1>3. /\ Aged(c) \in Cert
      /\ Aged(c).key = c.key /\ Aged(c).signer = c.signer /\ Aged(c).hosts = c.hosts
      /\ Aged(c).left = IF c.left = 0 THEN 0 ELSE c.left - 1
  BY <1>2 DEF Aged, Cert
<1>4. c = NoCert => Aged(c) = NoCert
  BY DEF Aged, NoCert
<1> QED
  BY <1>1, <1>3, <1>4

LEMMA AgedServed ==
  ASSUME NEW c \in Served
  PROVE  /\ Aged(c) \in Served
         /\ Aged(c).signer = c.signer /\ Aged(c).dialled = c.dialled
         /\ Aged(c).left # 0 => c.left # 0
         /\ c = NoServer => Aged(c) = NoServer
<1>1. c.left \in 0..Validity /\ Validity \in Nat
  BY InternalTLSAssumption DEF InternalTLSAssumption, Served
<1>2. (IF c.left = 0 THEN 0 ELSE c.left - 1) \in 0..Validity
  BY <1>1
<1>3. /\ Aged(c) \in Served
      /\ Aged(c).signer = c.signer /\ Aged(c).dialled = c.dialled
      /\ Aged(c).left = IF c.left = 0 THEN 0 ELSE c.left - 1
  BY <1>2 DEF Aged, Served
<1>4. ASSUME c = NoServer PROVE Aged(c) = NoServer
  <2>1. c.left = 0
    BY <1>4 DEF NoServer
  <2>2. [c EXCEPT !.left = 0] = c
    BY <2>1 DEF Served
  <2> QED
    BY <1>4, <2>1, <2>2 DEF Aged
<1> QED
  BY <1>1, <1>3, <1>4

LEMMA AgeFiles ==
  ASSUME TLSTypeOK, Age
  PROVE  /\ files'.caKey = files.caKey /\ files'.key = files.key
         /\ files'.ca = Aged(files.ca)
         /\ files'.crt \in [Leaves -> Cert] /\ \A l \in Leaves : files'.crt[l] = Aged(files.crt[l])
         /\ files' \in [caKey : Keys \cup {NoKey}, ca : Cert,
                        key : [Leaves -> Keys \cup {NoKey}], crt : [Leaves -> Cert]]
         /\ served' = Aged(served) /\ served' \in Served
<1>1. files' = [files EXCEPT !.ca = Aged(files.ca), !.crt = [l \in Leaves |-> Aged(files.crt[l])]]
  BY DEF Age
<1>2. Aged(files.ca) \in Cert /\ \A l \in Leaves : Aged(files.crt[l]) \in Cert
  BY AgedCert, FilesTyped
<1>3. /\ files'.caKey = files.caKey /\ files'.key = files.key
      /\ files'.ca = Aged(files.ca) /\ files'.crt = [l \in Leaves |-> Aged(files.crt[l])]
      /\ files' = [caKey |-> files'.caKey, ca |-> files'.ca, key |-> files'.key,
                   crt |-> files'.crt]
  BY <1>1, FilesTyped
<1>4. served' = Aged(served) /\ served' \in Served
  BY AgedServed DEF Age, TLSTypeOK
<1> QED
  BY <1>2, <1>3, <1>4, FilesTyped

LEMMA AgeKeeps ==
  ASSUME CertificatesInv, Age
  PROVE  CertificatesInv'
<1>1. step = At("idle") /\ UNCHANGED <<step, newCA, hosts, completed>>
  BY DEF Age
<1>2. step.at = "idle" /\ step.leaf = "none"
  BY <1>1, IdleIsNowhere
<1>3. TLSTypeOK'
  BY <1>1, AgeFiles DEF CertificatesInv, TLSTypeOK
<1>4. /\ files.ca \in Cert /\ files.crt["db"] \in Cert
      /\ files.ca.left \in Int /\ Aged(files.ca).left \in Int /\ RenewThreshold \in Int
  <2>1. \A c \in Cert : c.left \in Int
    BY DEF Cert
  <2> QED
    <3>1. files.ca \in Cert /\ files.crt["db"] \in Cert
      BY FilesTyped DEF CertificatesInv, Leaves
    <3>2. Aged(files.ca) \in Cert
      BY <3>1, AgedCert
    <3>3. RenewThreshold \in Int
      BY InternalTLSAssumption DEF InternalTLSAssumption
    <3> QED
      BY <2>1, <3>1, <3>2, <3>3
<1>5. CAIsDue => CAIsDue'
  BY <1>4, AgeFiles, AgedCert DEF CertificatesInv, CAIsDue
<1>6. CAKeyLags'
  BY <1>4, <1>5, AgeFiles, AgedCert DEF CertificatesInv, CAKeyLags
<1>7. CompletedSound'
  BY <1>1, <1>4, AgeFiles, AgedCert DEF CertificatesInv, CompletedSound, Leaves
<1> QED
  BY <1>1, <1>2, <1>3, <1>6, <1>7 DEF CertificatesInv, RunSound

LEMMA TLSInitHolds == TLSInit => CertificatesInv
<1> SUFFICES ASSUME TLSInit PROVE CertificatesInv
  OBVIOUS
<1> DEFINE k == NewKey({})
           ca == [key |-> k, signer |-> k, hosts |-> {}, left |-> Validity - 1]
           leaf == [key |-> k, signer |-> k, hosts |-> {Dialled}, left |-> Validity - Hour - 1]
<1>1. k \in Keys
  <2>1. \E n \in Keys : n \notin {}
    BY InternalTLSAssumption DEF InternalTLSAssumption
  <2> QED
    BY <2>1 DEF NewKey
<1> HIDE DEF k
<1>2. ca \in Cert /\ leaf \in Cert /\ NoCert \in Cert
  <2>1. Validity - 1 \in 0..Validity /\ Validity - Hour - 1 \in 0..Validity /\ 0 \in 0..Validity
    BY InternalTLSAssumption DEF InternalTLSAssumption
  <2> QED
    BY <1>1, <2>1, InternalTLSAssumption DEF InternalTLSAssumption, Cert, NoCert
<1>3. /\ ca.key = k /\ leaf.signer = k /\ leaf.hosts = {Dialled} /\ NoCert.key = NoKey
  BY DEF NoCert
<1> HIDE DEF ca, leaf
<1>4. files = IF completed
       THEN [caKey |-> k, ca |-> ca, key |-> [l \in Leaves |-> k], crt |-> [l \in Leaves |-> leaf]]
       ELSE [caKey |-> NoKey, ca |-> NoCert, key |-> [l \in Leaves |-> NoKey],
             crt |-> [l \in Leaves |-> NoCert]]
  BY DEF TLSInit, k, ca, leaf
<1>5. files \in [caKey : Keys \cup {NoKey}, ca : Cert,
                 key : [Leaves -> Keys \cup {NoKey}], crt : [Leaves -> Cert]]
  BY <1>1, <1>2, <1>4
<1>6. /\ step = At("idle") /\ newCA = FALSE /\ hosts = [l \in Leaves |-> {Dialled}]
      /\ served = NoServer /\ completed \in BOOLEAN
  BY DEF TLSInit
<1>7. step.at = "idle" /\ step.leaf = "none" /\ step \in Step
  BY <1>6 DEF At, Step
<1>8. TLSTypeOK
  BY <1>5, <1>6, <1>7, NoServerTyped, InternalTLSAssumption
     DEF InternalTLSAssumption, TLSTypeOK, Asked
<1>9. CAKeyLags /\ CompletedSound
  BY <1>3, <1>4, <1>7 DEF CAKeyLags, CAIsDue, CompletedSound, Leaves
<1> QED
  BY <1>7, <1>8, <1>9 DEF CertificatesInv, RunSound

-----------------------------------------------------------------------------
(* The schema *)

\* A program with the lock is at the first migration the ledger does not have, or before it.
Transaction(p) ==
  LET done == prog[p].done IN
  /\ \A i \in 1..Len(done) : done[i] = Len(schema) + i
  /\ \/ done = <<>> /\ prog[p].next <= Len(schema)
     \/ prog[p].next = Len(schema) + Len(done) + 1
  /\ prog[p].next <= prog[p].release + 1
  /\ prog[p].pc = "up" =>
       prog[p].next = Len(schema) + Len(done) + 1 /\ prog[p].next <= prog[p].release

SchemaInv ==
  /\ MigrationsTypeOK /\ SchemaIsThePrefix /\ ReadyIsMigrated
  /\ \A p, q \in Programs : HasLock(p) /\ HasLock(q) => p = q
  /\ \A p \in Programs : ~HasLock(p) => prog[p].done = <<>> /\ prog[p].next = 1
  /\ \A p \in Programs : HasLock(p) => Transaction(p)

LEMMA DownTyped ==
  ASSUME NEW r \in Versions
  PROVE  /\ Down(r) \in Program
         /\ Down(r).pc = "down" /\ Down(r).release = r
         /\ Down(r).done = <<>> /\ Down(r).next = 1
<1>1. 1 \in 1..(Latest + 1) /\ <<>> \in Seq(Versions)
  BY MigrationsAssumption DEF MigrationsAssumption
<1> QED
  BY <1>1 DEF Down, Program

\* A program moves and nobody else sees anything of it.
LEMMA ProgramMoves ==
  ASSUME SchemaInv, NEW p \in Programs, NEW s \in Program,
         prog' = [prog EXCEPT ![p] = s],
         UNCHANGED <<schema, ledger, named>>,
         s.pc \in {"check", "up"} =>
           (\A q \in Programs : HasLock(q) => q = p) /\ Transaction(p)',
         s.pc \notin {"check", "up"} => s.done = <<>> /\ s.next = 1,
         s.pc \in {"migrated", "ready"} => s.release <= Len(schema) /\ named
  PROVE  SchemaInv'
<1>1. prog' \in [Programs -> Program] /\ \A q \in Programs : prog'[q] = IF q = p THEN s ELSE prog[q]
  BY DEF SchemaInv, MigrationsTypeOK
<1>2. MigrationsTypeOK' /\ SchemaIsThePrefix'
  BY <1>1 DEF SchemaInv, MigrationsTypeOK, SchemaIsThePrefix
<1>3. ReadyIsMigrated'
  BY <1>1 DEF SchemaInv, ReadyIsMigrated
<1>4. (\A q, r \in Programs : HasLock(q) /\ HasLock(r) => q = r)'
  BY <1>1 DEF SchemaInv, HasLock
<1>5. (\A q \in Programs : ~HasLock(q) => prog[q].done = <<>> /\ prog[q].next = 1)'
  BY <1>1 DEF SchemaInv, HasLock
<1>6. (\A q \in Programs : HasLock(q) => Transaction(q))'
  BY <1>1 DEF SchemaInv, HasLock, Transaction
<1> QED
  BY <1>2, <1>3, <1>4, <1>5, <1>6 DEF SchemaInv

LEMMA ProgTyped ==
  ASSUME SchemaInv, NEW p \in Programs
  PROVE  /\ prog[p] \in Program
         /\ prog[p].release \in Versions /\ prog[p].next \in 1..(Latest + 1)
         /\ prog[p].done \in Seq(Versions)
         /\ Len(schema) \in Nat /\ Len(prog[p].done) \in Nat /\ Latest \in Nat
         /\ prog[p].release \in Nat /\ prog[p].next \in Nat
<1>1. /\ prog[p] \in Program
      /\ prog[p].release \in Versions /\ prog[p].next \in 1..(Latest + 1)
      /\ prog[p].done \in Seq(Versions) /\ schema \in Seq(Versions)
  BY DEF SchemaInv, MigrationsTypeOK, Program
<1> QED
  BY <1>1, MigrationsAssumption DEF MigrationsAssumption, Versions

\* A program between its states, with its transaction as it is.
LEMMA PcTyped ==
  ASSUME SchemaInv, NEW p \in Programs,
         NEW pc \in {"down", "waiting", "check", "up", "migrated", "ready"}
  PROVE  LET s == [prog[p] EXCEPT !.pc = pc] IN
         /\ s \in Program /\ s.pc = pc
         /\ s.release = prog[p].release /\ s.next = prog[p].next /\ s.done = prog[p].done
BY ProgTyped DEF Program

LEMMA DownKeeps ==
  ASSUME SchemaInv, NEW p \in Programs, prog' = [prog EXCEPT ![p] = Down(prog[p].release)],
         UNCHANGED <<schema, ledger, named>>
  PROVE  SchemaInv'
BY DownTyped, ProgTyped, ProgramMoves

LEMMA MovesKeep ==
  ASSUME SchemaInv, NEW p \in Programs, ~HasLock(p),
         NEW pc \in {"down", "waiting", "migrated", "ready"}, Moves(p, pc),
         pc \in {"migrated", "ready"} => prog[p].release <= Len(schema) /\ named,
         UNCHANGED <<schema, ledger, named>>
  PROVE  SchemaInv'
<1> DEFINE s == [prog[p] EXCEPT !.pc = pc]
<1>1. /\ s \in Program /\ s.pc = pc
      /\ s.release = prog[p].release /\ s.next = prog[p].next /\ s.done = prog[p].done
  <2>1. pc \in {"down", "waiting", "check", "up", "migrated", "ready"}
    OBVIOUS
  <2> QED
    BY <2>1, PcTyped
<1>2. prog' = [prog EXCEPT ![p] = s]
  BY DEF Moves, SchemaInv, MigrationsTypeOK
<1> HIDE DEF s
<1>3. s.done = <<>> /\ s.next = 1
  BY <1>1 DEF SchemaInv
<1> QED
  BY <1>1, <1>2, <1>3, ProgramMoves

LEMMA LockKeeps ==
  ASSUME SchemaInv, NEW p \in Programs, Lock(p)
  PROVE  SchemaInv'
<1> DEFINE s == [prog[p] EXCEPT !.pc = "check"]
<1>1. /\ s \in Program /\ s.pc = "check"
      /\ s.release = prog[p].release /\ s.next = prog[p].next /\ s.done = prog[p].done
  BY PcTyped
<1>2. prog' = [prog EXCEPT ![p] = s] /\ UNCHANGED <<schema, ledger, named>>
  BY DEF Lock, Moves, SchemaInv, MigrationsTypeOK
<1> HIDE DEF s
<1>3. ~HasLock(p)
  BY DEF Lock, HasLock
<1>4. s.done = <<>> /\ s.next = 1
  BY <1>1, <1>3 DEF SchemaInv
<1>5. prog'[p] = s
  BY <1>2 DEF SchemaInv, MigrationsTypeOK
<1>6. Transaction(p)'
  BY <1>1, <1>2, <1>4, <1>5, ProgTyped, MigrationsAssumption
     DEF MigrationsAssumption, Transaction, Versions
<1> QED
  BY <1>1, <1>2, <1>6, ProgramMoves DEF Lock

\* Whoever has made a migration, and not committed, has numbers the ledger lacks.
LEMMA OwnNumbers ==
  ASSUME SchemaInv, NEW p \in Programs, HasLock(p)
  PROVE  Own(p) = (Len(schema) + 1)..(Len(schema) + Len(prog[p].done))
<1>1. Transaction(p)
  BY DEF SchemaInv
<1> DEFINE done == prog[p].done
<1>2. /\ \A i \in 1..Len(done) : done[i] = Len(schema) + i
      /\ Len(done) \in Nat /\ Len(schema) \in Nat
  BY <1>1, ProgTyped DEF Transaction
<1> HIDE DEF done
<1>3. ASSUME NEW v \in {done[i] : i \in 1..Len(done)}
      PROVE  v \in (Len(schema) + 1)..(Len(schema) + Len(done))
  BY <1>2
<1>4. ASSUME NEW v \in (Len(schema) + 1)..(Len(schema) + Len(done))
      PROVE  v \in {done[i] : i \in 1..Len(done)}
  <2>1. v - Len(schema) \in 1..Len(done) /\ Len(schema) + (v - Len(schema)) = v
    BY <1>2
  <2>2. done[v - Len(schema)] = v
    BY <1>2, <2>1
  <2> QED
    BY <2>1, <2>2
<1> QED
  BY <1>3, <1>4 DEF Own, done

LEMMA CheckMigrationKeeps ==
  ASSUME SchemaInv, NEW p \in Programs, CheckMigration(p)
  PROVE  SchemaInv'
<1>1. /\ HasLock(p) /\ Transaction(p) /\ prog[p].pc = "check"
      /\ prog[p].next <= prog[p].release /\ UNCHANGED <<schema, ledger, named>>
      /\ ledger = 1..Len(schema)
  BY DEF CheckMigration, HasLock, SchemaInv, SchemaIsThePrefix
<1>2. CASE prog[p].next \in ledger \cup Own(p)
  <2> DEFINE s == [prog[p] EXCEPT !.next = @ + 1]
  <2>1. prog' = [prog EXCEPT ![p] = s]
    BY <1>2 DEF CheckMigration, SchemaInv, MigrationsTypeOK
  <2>2. prog[p].next + 1 \in 1..(Latest + 1)
    BY <1>1, ProgTyped DEF Versions
  <2>3. /\ s \in Program /\ s.pc = "check" /\ s.next = prog[p].next + 1
        /\ s.release = prog[p].release /\ s.done = prog[p].done
    BY <1>1, <2>2, ProgTyped DEF Program
  <2> HIDE DEF s
  <2>4. prog'[p] = s
    BY <2>1 DEF SchemaInv, MigrationsTypeOK
  <2>5. prog[p].next <= Len(schema) + Len(prog[p].done)
    BY <1>1, <1>2, OwnNumbers, ProgTyped
  <2>6. prog[p].done = <<>> /\ prog[p].next <= Len(schema)
    BY <1>1, <2>5, ProgTyped DEF Transaction
  <2>7. Transaction(p)'
    BY <1>1, <2>3, <2>4, <2>6, ProgTyped DEF Transaction
  <2> QED
    BY <1>1, <2>1, <2>3, <2>7, ProgramMoves DEF SchemaInv
<1>3. CASE prog[p].next \notin ledger \cup Own(p)
  <2> DEFINE s == [prog[p] EXCEPT !.pc = "up"]
  <2>1. prog' = [prog EXCEPT ![p] = s]
    BY <1>3 DEF CheckMigration, Moves, SchemaInv, MigrationsTypeOK
  <2>2. /\ s \in Program /\ s.pc = "up" /\ s.next = prog[p].next
        /\ s.release = prog[p].release /\ s.done = prog[p].done
    BY PcTyped
  <2> HIDE DEF s
  <2>3. prog'[p] = s
    BY <2>1 DEF SchemaInv, MigrationsTypeOK
  <2>4. ~(prog[p].next <= Len(schema) + Len(prog[p].done))
    BY <1>1, <1>3, OwnNumbers, ProgTyped
  <2>5. prog[p].next = Len(schema) + Len(prog[p].done) + 1
    BY <1>1, <2>4, ProgTyped DEF Transaction
  <2>6. Transaction(p)'
    BY <1>1, <2>2, <2>3, <2>5, ProgTyped DEF Transaction
  <2> QED
    BY <1>1, <2>1, <2>2, <2>6, ProgramMoves DEF SchemaInv
<1> QED
  BY <1>2, <1>3

LEMMA UpKeeps ==
  ASSUME SchemaInv, NEW p \in Programs, Up(p)
  PROVE  SchemaInv'
<1>1. /\ HasLock(p) /\ Transaction(p) /\ prog[p].pc = "up"
      /\ prog[p].next = Len(schema) + Len(prog[p].done) + 1
      /\ prog[p].next <= prog[p].release /\ UNCHANGED <<schema, ledger, named>>
  BY DEF Up, HasLock, SchemaInv, Transaction
<1>2. CASE prog[p].next \in ledger
  BY <1>1, <1>2, DownKeeps DEF Up
<1>3. CASE prog[p].next \notin ledger
  <2> DEFINE d == Append(prog[p].done, prog[p].next)
             s == [prog[p] EXCEPT !.pc = "check", !.next = @ + 1, !.done = d]
  <2>1. prog' = [prog EXCEPT ![p] = s]
    BY <1>3 DEF Up, SchemaInv, MigrationsTypeOK
  <2>2. prog[p].next \in Versions /\ prog[p].next + 1 \in 1..(Latest + 1)
    BY <1>1, ProgTyped DEF Versions
  <2>3. /\ d \in Seq(Versions) /\ Len(d) = Len(prog[p].done) + 1
        /\ \A i \in 1..Len(prog[p].done) : d[i] = prog[p].done[i]
        /\ d[Len(prog[p].done) + 1] = prog[p].next
    BY <2>2, ProgTyped
  <2> HIDE DEF d
  <2>4. /\ s \in Program /\ s.pc = "check" /\ s.next = prog[p].next + 1
        /\ s.release = prog[p].release /\ s.done = d
    BY <2>2, <2>3, ProgTyped DEF Program
  <2> HIDE DEF s
  <2>5. prog'[p] = s
    BY <2>1 DEF SchemaInv, MigrationsTypeOK
  <2>6. \A i \in 1..Len(d) : d[i] = Len(schema) + i
    <3> SUFFICES ASSUME NEW i \in 1..Len(d) PROVE d[i] = Len(schema) + i
      OBVIOUS
    <3>1. Len(prog[p].done) \in Nat /\ Len(schema) \in Nat
      BY ProgTyped
    <3>2. CASE i = Len(prog[p].done) + 1
      BY <1>1, <2>3, <3>1, <3>2
    <3>3. CASE i # Len(prog[p].done) + 1
      <4>1. i \in 1..Len(prog[p].done)
        BY <2>3, <3>1, <3>3
      <4> QED
        BY <1>1, <2>3, <4>1 DEF Transaction
    <3> QED
      BY <3>2, <3>3
  <2>7. s.next = Len(schema) + Len(d) + 1 /\ s.next <= s.release + 1
    BY <1>1, <2>3, <2>4, ProgTyped
  <2>8. Transaction(p)'
    BY <1>1, <2>4, <2>5, <2>6, <2>7 DEF Transaction
  <2> QED
    BY <1>1, <2>1, <2>4, <2>8, ProgramMoves DEF SchemaInv
<1> QED
  BY <1>2, <1>3

LEMMA CommitKeeps ==
  ASSUME SchemaInv, NEW p \in Programs, Commit(p)
  PROVE  SchemaInv'
<1> DEFINE n == Len(schema) + Len(prog[p].done)
           s == [Down(prog[p].release) EXCEPT !.pc = "migrated"]
<1>1. /\ HasLock(p) /\ Transaction(p) /\ prog[p].next > prog[p].release
      /\ schema' = schema \o prog[p].done /\ ledger' = ledger \cup Own(p) /\ named' = TRUE
      /\ prog' = [prog EXCEPT ![p] = s]
  BY DEF Commit, HasLock, SchemaInv
<1>2. /\ s \in Program /\ s.pc = "migrated" /\ s.release = prog[p].release
      /\ s.next = 1 /\ s.done = <<>>
  BY DownTyped, ProgTyped DEF Program
<1> HIDE DEF s
<1>3. /\ prog' \in [Programs -> Program]
      /\ \A q \in Programs : prog'[q] = IF q = p THEN s ELSE prog[q]
  BY <1>1, <1>2 DEF SchemaInv, MigrationsTypeOK
<1>4. /\ schema \in Seq(Versions) /\ ledger = 1..Len(schema)
      /\ \A i \in 1..Len(schema) : schema[i] = i
  BY DEF SchemaInv, MigrationsTypeOK, SchemaIsThePrefix
<1>5. /\ schema' \in Seq(Versions) /\ Len(schema') = n
      /\ \A i \in 1..n : schema'[i] = IF i <= Len(schema) THEN schema[i]
                                      ELSE prog[p].done[i - Len(schema)]
  BY <1>1, <1>4, ProgTyped
<1>6. \A i \in 1..n : schema'[i] = i
  <2> SUFFICES ASSUME NEW i \in 1..n PROVE schema'[i] = i
    OBVIOUS
  <2>1. CASE i <= Len(schema)
    BY <1>4, <1>5, <2>1, ProgTyped
  <2>2. CASE ~(i <= Len(schema))
    <3>1. i - Len(schema) \in 1..Len(prog[p].done)
      BY <2>2, ProgTyped
    <3>2. prog[p].done[i - Len(schema)] = Len(schema) + (i - Len(schema))
      BY <1>1, <3>1 DEF Transaction
    <3> QED
      BY <1>5, <2>2, <3>2, ProgTyped
  <2> QED
    BY <2>1, <2>2
<1>7. ledger' = 1..n
  BY <1>1, <1>4, OwnNumbers, ProgTyped
<1>8. SchemaIsThePrefix'
  <2>1. schema' = [i \in 1..Len(schema') |-> i]
    BY <1>5, <1>6
  <2> QED
    BY <1>5, <1>7, <2>1 DEF SchemaIsThePrefix
<1>9. MigrationsTypeOK'
  <2>1. n \in Nat /\ \A i \in 1..n : schema'[i] \in Versions
    BY <1>5, ProgTyped
  <2>2. \A i \in 1..n : i \in Versions
    BY <1>6, <2>1
  <2> QED
    BY <1>1, <1>3, <1>5, <1>7, <2>2 DEF MigrationsTypeOK
<1>10. ReadyIsMigrated'
  <2>1. prog[p].release <= n
    BY <1>1, ProgTyped DEF Transaction
  <2>2. Len(schema) <= n
    BY ProgTyped
  <2>3. \A q \in Programs : prog[q].release \in Nat /\ Len(schema) \in Nat /\ n \in Nat
    BY ProgTyped
  <2> QED
    BY <1>1, <1>2, <1>3, <1>5, <2>1, <2>2, <2>3 DEF SchemaInv, ReadyIsMigrated
<1>11. \A q \in Programs : ~HasLock(q)'
  BY <1>1, <1>2, <1>3 DEF SchemaInv, HasLock
<1>12. (\A q \in Programs : ~HasLock(q) => prog[q].done = <<>> /\ prog[q].next = 1)'
  BY <1>1, <1>2, <1>3 DEF SchemaInv, HasLock
<1> QED
  BY <1>8, <1>9, <1>10, <1>11, <1>12 DEF SchemaInv

LEMMA MigrationStepKeeps ==
  ASSUME SchemaInv, NEW p \in Programs, MigrationStep(p)
  PROVE  SchemaInv'
BY LockKeeps, CheckMigrationKeeps, UpKeeps, CommitKeeps DEF MigrationStep

LEMMA BeginKeeps ==
  ASSUME SchemaInv, NEW p \in Programs, Begin(p)
  PROVE  SchemaInv'
BY MovesKeep DEF Begin, HasLock

LEMMA UpgradeKeeps ==
  ASSUME SchemaInv, NEW p \in Programs, Upgrade(p)
  PROVE  SchemaInv'
<1> DEFINE s == [prog[p] EXCEPT !.release = @ + 1]
<1>1. prog[p].release + 1 \in Versions
  BY ProgTyped DEF Upgrade, Versions
<1>2. /\ s \in Program /\ s.pc = "down" /\ s.next = prog[p].next /\ s.done = prog[p].done
  BY <1>1, ProgTyped DEF Upgrade, Program
<1>3. prog' = [prog EXCEPT ![p] = s] /\ UNCHANGED <<schema, ledger, named>>
  BY DEF Upgrade, SchemaInv, MigrationsTypeOK
<1> HIDE DEF s
<1>4. s.done = <<>> /\ s.next = 1
  BY <1>2 DEF Upgrade, SchemaInv, HasLock
<1> QED
  BY <1>2, <1>3, <1>4, ProgramMoves

LEMMA MigrationsInitHolds == MigrationsInit => SchemaInv
<1> SUFFICES ASSUME MigrationsInit PROVE SchemaInv
  OBVIOUS
<1>1. 1 \in Versions
  BY MigrationsAssumption DEF MigrationsAssumption, Versions
<1>2. \A p \in Programs : prog[p] = Down(1)
  BY DEF MigrationsInit
<1>3. schema \in Seq(Versions) /\ SchemaIsThePrefix /\ ledger \subseteq Versions
  <2>1. CASE schema = <<>>
    <3>1. ledger = {} /\ Len(schema) = 0
      BY <2>1 DEF MigrationsInit
    <3> QED
      BY <2>1, <3>1 DEF SchemaIsThePrefix
  <2>2. CASE schema = <<1>>
    <3>1. Len(schema) = 1 /\ schema[1] = 1
      BY <2>2
    <3>2. ledger = 1..1
      BY <2>2, <3>1 DEF MigrationsInit
    <3> QED
      BY <1>1, <2>2, <3>1, <3>2 DEF SchemaIsThePrefix
  <2> QED
    BY <2>1, <2>2 DEF MigrationsInit
<1>4. prog \in [Programs -> Program]
  BY <1>1, DownTyped DEF MigrationsInit
<1>5. \A p \in Programs : /\ prog[p].pc = "down" /\ prog[p].done = <<>> /\ prog[p].next = 1
  BY <1>1, <1>2, DownTyped
<1> QED
  BY <1>3, <1>4, <1>5 DEF MigrationsInit, SchemaInv, MigrationsTypeOK, ReadyIsMigrated, HasLock

-----------------------------------------------------------------------------
(* The composition *)

\* PostgreSQL serves what clients accept unless it is stale.
ServedSound ==
  Running /\ ~Expired /\ ~stale => served.signer = files.ca.key /\ served.dialled

RestTyped ==
  created \in BOOLEAN /\ stale \in BOOLEAN /\ faults \in 0..MaxFaults /\ changes \in 0..MaxChanges

\* The strengthening of the invariants that is inductive.
IInv == CertificatesInv /\ SchemaInv /\ ServedSound /\ RestTyped

LEMMA InitHolds == Init => IInv
<1> SUFFICES ASSUME Init PROVE IInv
  OBVIOUS
<1>1. CertificatesInv /\ SchemaInv
  BY TLSInitHolds, MigrationsInitHolds DEF Init
<1>2. ServedSound
  BY DEF Init, TLSInit, ServedSound, Running
<1>3. RestTyped
  <2>1. faults \in 0..MaxFaults /\ changes \in 0..MaxChanges
    BY StartupAssumption DEF StartupAssumption, Init
  <2>2. created \in BOOLEAN /\ stale \in BOOLEAN
    BY <1>1 DEF Init, CertificatesInv, TLSTypeOK
  <2> QED
    BY <2>1, <2>2 DEF RestTyped
<1> QED
  BY <1>1, <1>2, <1>3 DEF IInv

LEMMA SchemaStays ==
  ASSUME SchemaInv, UNCHANGED migrationVars
  PROVE  SchemaInv'
BY DEF SchemaInv, migrationVars, MigrationsTypeOK, SchemaIsThePrefix, ReadyIsMigrated, HasLock,
       Transaction

LEMMA CertificatesStay ==
  ASSUME CertificatesInv, UNCHANGED tlsVars
  PROVE  CertificatesInv'
BY DEF CertificatesInv, tlsVars, TLSTypeOK, CAKeyLags, CAIsDue, RunSound, CompletedSound, Repaired

LEMMA ServedStays ==
  ASSUME ServedSound, UNCHANGED <<served, stale>>, files'.ca = files.ca
  PROVE  ServedSound'
BY DEF ServedSound, Running, Expired

\* What a run writes is neither in the way of the CA nor of PostgreSQL, but for the CA itself.
LEMMA EnsureStepKeeps ==
  ASSUME IInv, TLSInitStep
  PROVE  IInv'
<1>1. UNCHANGED <<migrationVars, faults, changes>> /\ created' = (created \/ completed')
      /\ stale' = IF IssueCA THEN Running ELSE stale
  BY DEF TLSInitStep
<1>2. SchemaInv'
  BY <1>1, SchemaStays DEF IInv
<1>3. CertificatesInv'
  BY IssueCAKeeps, CheckLeafKeeps, WriteLeafKeeps, WriteHBAKeeps DEF TLSInitStep, EnsureStep, IInv
<1>4. RestTyped'
  BY <1>1, <1>3 DEF IInv, RestTyped, CertificatesInv, TLSTypeOK, Running
<1>5. ServedSound'
  <2>1. CASE IssueCA
    <3>1. UNCHANGED served /\ stale' = Running
      BY <1>1, <2>1 DEF IssueCA
    <3> QED
      BY <3>1 DEF ServedSound, Running
  <2>2. CASE ~IssueCA
    <3>1. UNCHANGED <<served, stale>> /\ files'.ca = files.ca
      BY <1>1, <2>2, FilesTyped
         DEF TLSInitStep, EnsureStep, CheckLeaf, WriteLeaf, WriteHBA, IInv, CertificatesInv
    <3> QED
      BY <3>1, ServedStays DEF IInv
  <2> QED
    BY <2>1, <2>2
<1> QED
  BY <1>2, <1>3, <1>4, <1>5 DEF IInv

LEMMA StartDBKeeps ==
  ASSUME IInv, StartDB
  PROVE  IInv'
<1>1. /\ UNCHANGED <<files, step, newCA, hosts, completed>>
      /\ UNCHANGED <<migrationVars, created, faults, changes>> /\ stale' = ~completed
      /\ served' = [signer |-> files.crt["db"].signer, left |-> files.crt["db"].left,
                     dialled |-> Dialled \in files.crt["db"].hosts]
  BY DEF StartDB, StartServer
<1>2. CertificatesInv'
  BY <1>1, StartServerTyped, ServerKeeps DEF StartDB, IInv
<1>3. SchemaInv'
  BY <1>1, SchemaStays DEF IInv
<1>4. ServedSound'
  BY <1>1 DEF IInv, CertificatesInv, CompletedSound, ServedSound
<1>5. RestTyped'
  BY <1>1 DEF IInv, RestTyped, CertificatesInv, TLSTypeOK
<1> QED
  BY <1>2, <1>3, <1>4, <1>5 DEF IInv

LEMMA DBDiesKeeps ==
  ASSUME IInv, DBDies
  PROVE  IInv'
<1>1. /\ UNCHANGED <<files, step, newCA, hosts, completed>> /\ served' = NoServer
      /\ UNCHANGED <<schema, ledger, named, created, changes>> /\ stale' = FALSE
      /\ prog' = [p \in Programs |-> IF InTransaction(p) THEN Down(prog[p].release) ELSE prog[p]]
      /\ faults < MaxFaults /\ faults' = faults + 1
  BY DEF DBDies, StopServer, Fault
<1>2. CertificatesInv'
  BY <1>1, NoServerTyped, ServerKeeps DEF IInv
<1>3. \A p \in Programs :
        IF InTransaction(p)
          THEN /\ prog'[p] \in Program /\ prog'[p].pc = "down"
               /\ prog'[p].done = <<>> /\ prog'[p].next = 1
          ELSE prog'[p] = prog[p] /\ ~HasLock(p) /\ prog[p] \in Program
  BY <1>1, DownTyped, ProgTyped DEF IInv, InTransaction, HasLock
<1>4. SchemaInv'
  <2>1. MigrationsTypeOK' /\ SchemaIsThePrefix'
    BY <1>1, <1>3 DEF IInv, SchemaInv, MigrationsTypeOK, SchemaIsThePrefix
  <2>2. \A p \in Programs : ~HasLock(p)'
    BY <1>3 DEF HasLock
  <2>3. (\A p \in Programs : ~HasLock(p) => prog[p].done = <<>> /\ prog[p].next = 1)'
    BY <1>3 DEF IInv, SchemaInv
  <2>4. ReadyIsMigrated'
    BY <1>1, <1>3 DEF IInv, SchemaInv, ReadyIsMigrated
  <2> QED
    BY <2>1, <2>2, <2>3, <2>4 DEF SchemaInv
<1>5. ServedSound'
  BY <1>1 DEF ServedSound, Running
<1>6. RestTyped'
  <2>1. faults' \in 0..MaxFaults /\ changes' \in 0..MaxChanges
    BY <1>1, StartupAssumption DEF StartupAssumption, IInv, RestTyped
  <2>2. created' \in BOOLEAN /\ stale' \in BOOLEAN
    BY <1>1 DEF IInv, RestTyped
  <2> QED
    BY <2>1, <2>2 DEF RestTyped
<1> QED
  BY <1>2, <1>4, <1>5, <1>6 DEF IInv

LEMMA TickKeeps ==
  ASSUME IInv, Tick
  PROVE  IInv'
<1>1. /\ Age /\ UNCHANGED <<migrationVars, created, stale, faults>>
      /\ changes < MaxChanges /\ changes' = changes + 1
  BY DEF Tick, Change
<1>2. CertificatesInv' /\ SchemaInv'
  BY <1>1, AgeKeeps, SchemaStays DEF IInv
<1>3. RestTyped'
  BY <1>1, StartupAssumption DEF StartupAssumption, IInv, RestTyped
<1>4. ServedSound'
  <2>1. TLSTypeOK
    BY DEF IInv, CertificatesInv
  <2>2. files.ca \in Cert /\ served \in Served
    BY <2>1, FilesTyped DEF TLSTypeOK
  <2>3. files'.ca = Aged(files.ca) /\ served' = Aged(served)
    BY <1>1, <2>1, AgeFiles
  <2>4. /\ files'.ca.key = files.ca.key
        /\ served'.signer = served.signer /\ served'.dialled = served.dialled
        /\ served'.left # 0 => served.left # 0
        /\ served = NoServer => served' = NoServer
    BY <2>2, <2>3, AgedCert, AgedServed
  <2>5. files'.ca.left # 0 => files.ca.left # 0
    <3>1. files'.ca.left <= files.ca.left /\ files'.ca \in Cert
      BY <2>2, <2>3, AgedCert
    <3>2. \A c \in Cert : c.left \in Nat
      BY DEF Cert
    <3> QED
      BY <2>2, <3>1, <3>2
  <2> QED
    BY <1>1, <2>4, <2>5 DEF IInv, ServedSound, Running, Expired
<1> QED
  BY <1>2, <1>3, <1>4 DEF IInv

LEMMA ProgramKeeps ==
  ASSUME IInv, NEW p \in Programs, Starts(p) \/ Dies(p) \/ NewRelease(p)
  PROVE  IInv'
<1>1. /\ UNCHANGED <<tlsVars, created, stale, changes>>
      /\ UNCHANGED faults \/ (faults < MaxFaults /\ faults' = faults + 1)
  BY DEF Starts, Connect, Migrate, RunWorker, RunServer, Dies, NewRelease, Fault
<1>2. CertificatesInv' /\ RestTyped' /\ ServedSound'
  BY <1>1, CertificatesStay, ServedStays, StartupAssumption
     DEF StartupAssumption, IInv, RestTyped, tlsVars
<1>3. SchemaInv'
  <2>1. CASE Connect(p)
    BY <2>1, BeginKeeps DEF Connect, IInv
  <2>2. CASE Migrate(p)
    BY <2>2, MigrationStepKeeps DEF Migrate, IInv
  <2>3. CASE RunWorker(p)
    <3>1. ~HasLock(p) /\ prog[p].release <= Len(schema) /\ named
      BY <2>3 DEF RunWorker, HasLock, IInv, SchemaInv, ReadyIsMigrated
    <3> QED
      BY <2>3, <3>1, MovesKeep DEF RunWorker, IInv
  <2>4. CASE RunServer(p)
    <3>1. ~HasLock(p) /\ prog[p].release <= Len(schema) /\ named
      BY <2>4 DEF RunServer, HasLock, IInv, SchemaInv, ReadyIsMigrated
    <3>2. CASE Paired("backend")
      <4>1. Moves(p, "ready") /\ UNCHANGED <<schema, ledger, named>>
        BY <2>4, <3>2 DEF RunServer, Moves
      <4> QED
        BY <3>1, <4>1, MovesKeep DEF IInv
    <3>3. CASE ~Paired("backend")
      BY <2>4, <3>3, DownKeeps DEF RunServer, IInv
    <3> QED
      BY <3>2, <3>3
  <2>5. CASE Dies(p)
    BY <2>5, DownKeeps DEF Dies, Exit, IInv
  <2>6. CASE NewRelease(p)
    BY <2>6, UpgradeKeeps DEF NewRelease, IInv
  <2> QED
    BY <2>1, <2>2, <2>3, <2>4, <2>5, <2>6 DEF Starts
<1> QED
  BY <1>2, <1>3 DEF IInv

LEMMA NextKeeps == IInv /\ [Next]_vars => IInv'
<1> SUFFICES ASSUME IInv, [Next]_vars PROVE IInv'
  OBVIOUS
<1>1. CASE RunTLSInit
  <2>1. UNCHANGED <<migrationVars, created, stale, faults, changes, served>> /\ files'.ca = files.ca
    BY <1>1, FilesTyped DEF RunTLSInit, Ensure, IInv, CertificatesInv
  <2> QED
    BY <1>1, <2>1, EnsureKeeps, SchemaStays, ServedStays DEF RunTLSInit, IInv, RestTyped
<1>2. CASE TLSInitStep
  BY <1>2, EnsureStepKeeps
<1>3. CASE TLSInitDies
  <2>1. /\ UNCHANGED <<migrationVars, created, stale, changes, served, files>>
        /\ faults < MaxFaults /\ faults' = faults + 1
    BY <1>3 DEF TLSInitDies, Interrupted, Fault
  <2>2. RestTyped'
    BY <2>1, StartupAssumption DEF StartupAssumption, IInv, RestTyped
  <2> QED
    BY <1>3, <2>1, <2>2, InterruptedKeeps, SchemaStays, ServedStays DEF TLSInitDies, IInv
<1>4. CASE ChangeHosts
  <2>1. /\ UNCHANGED <<migrationVars, created, stale, faults, served, files>>
        /\ changes < MaxChanges /\ changes' = changes + 1
    BY <1>4 DEF ChangeHosts, AskFor, Change
  <2>2. RestTyped'
    BY <2>1, StartupAssumption DEF StartupAssumption, IInv, RestTyped
  <2> QED
    BY <1>4, <2>1, <2>2, AskForKeeps, SchemaStays, ServedStays DEF ChangeHosts, IInv
<1>5. CASE Tick
  BY <1>5, TickKeeps
<1>6. CASE StartDB
  BY <1>6, StartDBKeeps
<1>7. CASE DBDies
  BY <1>7, DBDiesKeeps
<1>8. CASE \E p \in Programs : Starts(p) \/ Dies(p) \/ NewRelease(p)
  BY <1>8, ProgramKeeps
<1>9. CASE UNCHANGED vars
  <2>1. UNCHANGED migrationVars /\ UNCHANGED tlsVars /\ UNCHANGED <<created, stale, faults, changes>>
    BY <1>9 DEF vars, migrationVars, tlsVars
  <2> QED
    BY <2>1, SchemaStays, CertificatesStay, ServedStays DEF IInv, RestTyped, tlsVars
<1> QED
  BY <1>1, <1>2, <1>3, <1>4, <1>5, <1>6, <1>7, <1>8, <1>9 DEF Next

LEMMA Inductive == Spec => []IInv
  BY InitHolds, NextKeeps, PTL DEF Spec

\* A run that ends leaves every pair whole, PostgreSQL is refused only when it is stale,
\* and the schema is the migrations 1 to n, each made once and by nobody else at a time
\* (internaltls.go, database.go, main.go).
THEOREM StartupSound == Spec => []StartupInv
<1>1. IInv => StartupInv
  <2> SUFFICES ASSUME IInv PROVE StartupInv
    OBVIOUS
  <2>1. TypeOK
    BY DEF IInv, CertificatesInv, SchemaInv, RestTyped, TypeOK
  <2>2. RunsRepair
    <3>1. ASSUME step = At("pg_hba") PROVE \A l \in Leaves : Repaired(l)
      <4>1. step.at = "pg_hba"
        BY <3>1 DEF At
      <4> QED
        BY <4>1 DEF IInv, CertificatesInv, RunSound, Leaves
    <3> QED
      BY <3>1 DEF RunsRepair, Repaired
  <2>3. RefusedOnlyIfStale
    BY DEF RefusedOnlyIfStale, IInv, ServedSound, Verifies
  <2>4. NoCollision
    <3> SUFFICES ASSUME NEW p \in Programs, prog[p].pc = "up"
                 PROVE  /\ prog[p].next \notin ledger
                        /\ \A q \in Programs \ {p} : prog[p].next \notin Own(q)
      BY DEF NoCollision
    <3>1. HasLock(p) /\ Transaction(p) /\ ledger = 1..Len(schema)
      BY DEF IInv, SchemaInv, HasLock, SchemaIsThePrefix
    <3>2. prog[p].next \notin ledger
      BY <3>1, ProgTyped DEF IInv, Transaction
    <3>3. ASSUME NEW q \in Programs \ {p} PROVE prog[p].next \notin Own(q)
      <4>1. prog[q].done = <<>>
        BY <3>1, <3>3 DEF IInv, SchemaInv
      <4> QED
        BY <4>1 DEF Own
    <3> QED
      BY <3>2, <3>3
  <2> QED
    BY <2>1, <2>2, <2>3, <2>4 DEF StartupInv, IInv, SchemaInv
<1> QED
  BY <1>1, Inductive, PTL

\* "The CA is replaced only when it is missing or close to expiry", also after a run
\* that died between its key and its certificate (Ensure, loadCA).
THEOREM TrustRootStays == Spec => TrustRootKept
<1>1. IInv /\ [Next]_vars =>
        [files'.ca.key # files.ca.key => files.ca = NoCert \/ files.ca.left < RenewThreshold]_tlsVars
  <2> SUFFICES ASSUME IInv, Next, files'.ca.key # files.ca.key
               PROVE  CAIsDue
    BY DEF CAIsDue, vars, tlsVars
  <2>1. TLSTypeOK
    BY DEF IInv, CertificatesInv
  <2>2. CASE IssueCA
    <3>1. step.at = "ca.crt"
      BY <2>2 DEF IssueCA, At
    <3> QED
      BY <3>1 DEF IInv, CertificatesInv, RunSound
  <2>3. CASE Tick
    BY <2>1, <2>3, AgeFiles, AgedCert, FilesTyped DEF Tick
  <2>4. ASSUME ~IssueCA, ~Tick PROVE files'.ca = files.ca
    <3>1. RunTLSInit \/ TLSInitStep => files'.ca = files.ca
      BY <2>1, <2>4, FilesTyped
         DEF RunTLSInit, Ensure, TLSInitStep, EnsureStep, CheckLeaf, WriteLeaf, WriteHBA
    <3>2. TLSInitDies \/ ChangeHosts \/ StartDB \/ DBDies => UNCHANGED files
      BY DEF TLSInitDies, Interrupted, ChangeHosts, AskFor, StartDB, StartServer, DBDies, StopServer
    <3>3. (\E p \in Programs : Starts(p) \/ Dies(p) \/ NewRelease(p)) => UNCHANGED files
      BY DEF Starts, Connect, Migrate, RunWorker, RunServer, Dies, NewRelease, tlsVars
    <3> QED
      BY <2>4, <3>1, <3>2, <3>3 DEF Next
  <2> QED
    BY <2>2, <2>3, <2>4
<1> QED
  BY <1>1, Inductive, PTL DEF Spec, TrustRootKept
=============================================================================
