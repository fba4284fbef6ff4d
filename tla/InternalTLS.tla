----------------------------- MODULE InternalTLS -----------------------------
(***************************************************************************)
(* The private CA and the server certificates of the containers: Ensure of *)
(* internaltls.go, run once by `tls-init', and the pairs of key and        *)
(* certificate the servers load when they start.                           *)
(*                                                                         *)
(* Every file is replaced by one rename, and a run can die between any two *)
(* of them; nothing but the next run repairs what it left.  A certificate  *)
(* and a file that hold the same key belong together.  Time is kept as the *)
(* life a certificate has left.                                            *)
(***************************************************************************)
EXTENDS Integers

CONSTANTS
  Keys,            \* more than are in use somewhere at a time
  NoKey,           \* the key of a file that is missing
  Names,           \* names a server certificate may be valid for
  Renamed,         \* the leaves the operator asks other names for
  Dialled,         \* the name clients connect to
  Validity,
  Hour,            \* what a server certificate lives less than the CA
  RenewThreshold

ASSUME InternalTLSAssumption ==
  /\ NoKey \notin Keys /\ Dialled \in Names
  /\ \A a, b, c, d, e \in Keys \cup {NoKey} : Keys \ {a, b, c, d, e} # {}
  /\ Validity \in Nat /\ Hour \in Nat /\ RenewThreshold \in Nat
  /\ RenewThreshold <= Validity - Hour - 1

VARIABLES
  files,      \* the CA and the server certificates, with their keys
  step,       \* how far the run of Ensure is
  newCA,      \* this run has replaced the CA
  hosts,      \* the names each certificate is asked for
  completed,  \* the last run ended with success
  served      \* what clients see of the certificate PostgreSQL loaded when it started

tlsVars == <<files, step, newCA, hosts, completed, served>>

Leaves == {"db", "backend"}
Cert == [key : Keys \cup {NoKey}, signer : Keys \cup {NoKey}, hosts : SUBSET Names,
         left : 0..Validity]
NoCert == [key |-> NoKey, signer |-> NoKey, hosts |-> {}, left |-> 0]
Served == [signer : Keys \cup {NoKey}, dialled : BOOLEAN, left : 0..Validity]
NoServer == [signer |-> NoKey, dialled |-> FALSE, left |-> 0]
Asked == {h \in SUBSET Names : Dialled \in h}

\* `at' is what the run does next: check a pair, write the certificate that belongs
\* to the key it has written, or write pg_hba.conf.
Step == [at : {"idle", "ca.crt", "pg_hba"}, leaf : {"none"}]
          \cup [at : {"check", "crt"}, leaf : Leaves]
At(at) == [at |-> at, leaf |-> "none"]
Leaf(at, l) == [at |-> at, leaf |-> l]

TLSTypeOK ==
  /\ files \in [caKey : Keys \cup {NoKey}, ca : Cert,
                key : [Leaves -> Keys \cup {NoKey}], crt : [Leaves -> Cert]]
  /\ step \in Step
  /\ newCA \in BOOLEAN /\ completed \in BOOLEAN
  /\ hosts \in [Leaves -> Asked]
  /\ served \in Served

\* A key that is in none of the places where one is in use.
NewKey(used) == CHOOSE k \in Keys : k \notin used

\* A volume that is empty, or what a run left in it a unit of time ago.
TLSInit ==
  LET k == NewKey({})
      ca == [key |-> k, signer |-> k, hosts |-> {}, left |-> Validity - 1]
      leaf == [key |-> k, signer |-> k, hosts |-> {Dialled}, left |-> Validity - Hour - 1] IN
  /\ step = At("idle") /\ newCA = FALSE
  /\ hosts = [l \in Leaves |-> {Dialled}]
  /\ served = NoServer
  /\ completed \in BOOLEAN
  /\ files = IF completed
       THEN [caKey |-> k, ca |-> ca, key |-> [l \in Leaves |-> k], crt |-> [l \in Leaves |-> leaf]]
       ELSE [caKey |-> NoKey, ca |-> NoCert, key |-> [l \in Leaves |-> NoKey],
             crt |-> [l \in Leaves |-> NoCert]]

NewCAKey ==
  NewKey({files.caKey, files.ca.key} \cup {files.crt[l].signer : l \in Leaves}
           \cup {served.signer})
NewLeafKey(l) == NewKey({files.key[l], files.crt[l].key})

-----------------------------------------------------------------------------
(* Ensure *)

\* loadCA
LoadsCA ==
  /\ files.ca # NoCert
  /\ files.ca.left >= RenewThreshold
  /\ files.caKey = files.ca.key

Paired(l) == files.crt[l] # NoCert /\ files.key[l] = files.crt[l].key

\* Mutant of LeafCurrent: the key is not compared with the certificate.
LeafCurrentUnpaired(l) ==
  /\ files.crt[l] # NoCert
  /\ files.crt[l].left >= RenewThreshold
  /\ files.crt[l].signer = files.ca.key
  /\ hosts[l] \subseteq files.crt[l].hosts

\* leafCurrent: its own key, a life of more than the threshold, and a chain to the CA
\* for every name it is asked for.
LeafCurrent(l) ==
  /\ Paired(l)
  /\ files.crt[l].left >= RenewThreshold
  /\ files.crt[l].signer = files.ca.key
  /\ hosts[l] \subseteq files.crt[l].hosts

\* Mutant of Ensure: any certificate that is due takes the CA with it.
EnsureAfresh ==
  /\ step = At("idle")
  /\ newCA' = FALSE /\ completed' = FALSE
  /\ IF LoadsCA /\ \A l \in Leaves : LeafCurrent(l)
       THEN step' = Leaf("check", "db") /\ UNCHANGED files
       ELSE step' = At("ca.crt") /\ files' = [files EXCEPT !.caKey = NewCAKey]
  /\ UNCHANGED <<hosts, served>>

\* The start of a run: a CA that can be loaded is kept, else its new key is written.
Ensure ==
  /\ step = At("idle")
  /\ newCA' = FALSE /\ completed' = FALSE
  /\ IF LoadsCA
       THEN step' = Leaf("check", "db") /\ UNCHANGED files
       ELSE step' = At("ca.crt") /\ files' = [files EXCEPT !.caKey = NewCAKey]
  /\ UNCHANGED <<hosts, served>>

\* The second file of issueCA.
IssueCA ==
  /\ step = At("ca.crt")
  /\ files' = [files EXCEPT !.ca = [key |-> files.caKey, signer |-> files.caKey,
                                    hosts |-> {}, left |-> Validity]]
  /\ newCA' = TRUE
  /\ step' = Leaf("check", "db")
  /\ UNCHANGED <<hosts, completed, served>>

AfterLeaf(l) == IF l = "db" THEN Leaf("check", "backend") ELSE At("pg_hba")

\* One turn of the loop over the leaves: the pair is kept, or its new key is written.
CheckLeaf(l) ==
  /\ step = Leaf("check", l)
  /\ IF ~newCA /\ LeafCurrent(l)
       THEN step' = AfterLeaf(l) /\ UNCHANGED files
       ELSE step' = Leaf("crt", l) /\ files' = [files EXCEPT !.key[l] = NewLeafKey(l)]
  /\ UNCHANGED <<newCA, hosts, completed, served>>

\* The certificate issueLeaf made for that key.
WriteLeaf(l) ==
  /\ step = Leaf("crt", l)
  /\ files' = [files EXCEPT !.crt[l] = [key |-> files.key[l], signer |-> files.caKey,
                                        hosts |-> hosts[l], left |-> Validity - Hour]]
  /\ step' = AfterLeaf(l)
  /\ UNCHANGED <<newCA, hosts, completed, served>>

\* pg_hba.conf
WriteHBA ==
  /\ step = At("pg_hba")
  /\ step' = At("idle") /\ newCA' = FALSE /\ completed' = TRUE
  /\ UNCHANGED <<files, hosts, served>>

\* A write fails or the container is killed.
Interrupted ==
  /\ step # At("idle")
  /\ step' = At("idle") /\ newCA' = FALSE
  /\ UNCHANGED <<files, hosts, completed, served>>

\* The operator asks for other names.
AskFor(l) ==
  /\ step = At("idle") /\ l \in Renamed
  /\ \E h \in Asked \ {hosts[l]} : hosts' = [hosts EXCEPT ![l] = h]
  /\ UNCHANGED <<files, step, newCA, completed, served>>

EnsureStep == IssueCA \/ (\E l \in Leaves : CheckLeaf(l) \/ WriteLeaf(l)) \/ WriteHBA

-----------------------------------------------------------------------------
(* PostgreSQL and its clients *)

\* A server that finds a key that is not the certificate's does not start.
StartServer ==
  /\ served = NoServer /\ Paired("db")
  /\ served' = [signer |-> files.crt["db"].signer, left |-> files.crt["db"].left,
                dialled |-> Dialled \in files.crt["db"].hosts]
  /\ UNCHANGED <<files, step, newCA, hosts, completed>>

StopServer ==
  /\ served # NoServer
  /\ served' = NoServer
  /\ UNCHANGED <<files, step, newCA, hosts, completed>>

Running == served # NoServer
Expired == served.left = 0 \/ files.ca.left = 0

\* sslmode=verify-full with the CA the client finds on disk.
Verifies ==
  /\ Running /\ ~Expired
  /\ served.signer = files.ca.key
  /\ served.dialled

Aged(c) == [c EXCEPT !.left = IF @ = 0 THEN 0 ELSE @ - 1]

\* Runs take no time that counts in the life of a certificate.
Age ==
  /\ step = At("idle")
  /\ files' = [files EXCEPT !.ca = Aged(@), !.crt = [l \in Leaves |-> Aged(@[l])]]
  /\ served' = Aged(served)
  /\ UNCHANGED <<step, newCA, hosts, completed>>

-----------------------------------------------------------------------------
(* Correctness *)

\* "The CA is replaced only when it is missing or close to expiry": nothing else, not
\* even a run that died with half of the files written, changes the trust root that
\* running services have loaded.
TrustRootKept ==
  [][files'.ca.key # files.ca.key => files.ca = NoCert \/ files.ca.left < RenewThreshold]_tlsVars

\* What a run that ends with success leaves behind, whatever the runs before it left:
\* each key its certificate's, chained to the CA and good for the names asked for.
RunsRepair ==
  step = At("pg_hba") =>
    \A l \in Leaves :
      /\ files.key[l] = files.crt[l].key /\ files.crt[l].signer = files.ca.key
      /\ hosts[l] \subseteq files.crt[l].hosts
      /\ files.crt[l].left >= RenewThreshold
=============================================================================
