------------------------------ MODULE Sessions ------------------------------
(***************************************************************************)
(* Session tokens: how they are issued and checked (handlers/auth.go,      *)
(* middleware/auth.go), signed out (revoked_sessions, repository/users.go) *)
(* and how the worker forgets revocations (worker/worker.go).              *)
(*                                                                         *)
(* A check reads the clock for the expiry first and the table of           *)
(* revocations after that; a sign-out reads the clock and then writes the  *)
(* revocation; the purge compares with the clock of the worker's machine.  *)
(***************************************************************************)
EXTENDS Integers, FiniteSets

CONSTANTS
  Tokens,       \* the jti of each token
  Requests,     \* requests that present a token
  Second,       \* units of time in a second: "exp" has whole seconds
  TTL,          \* life of a session
  PurgeEvery,   \* pause between purges
  Behind,       \* how far the clock of the worker is behind the server's
  MaxTime       \* bound on the clock

ASSUME SessionsAssumption ==
  /\ Second \in Nat \ {0} /\ TTL \in Nat \ {0} /\ PurgeEvery \in Nat
  /\ Behind \in Nat /\ MaxTime \in Nat

VARIABLES
  clock,      \* of the server
  rested,     \* time since the worker's last purge
  exp,        \* the expiry of each token; 0 before it is issued
  revoked,    \* tokens with a row in revoked_sessions
  req,        \* requests to the API and to sign out
  signedOut   \* tokens whose sign-out was answered with success

sessionVars == <<clock, rested, exp, revoked, req, signedOut>>

\* `late' says that the token was signed out before the request began.
Request == [pc : {"new", "parsed", "signing_out", "accepted", "refused"},
            token : Tokens, late : BOOLEAN]

SessionsTypeOK ==
  /\ clock \in 0..MaxTime
  /\ rested \in 0..PurgeEvery
  /\ exp \in [Tokens -> Nat]
  /\ revoked \subseteq Tokens
  /\ req \in [Requests -> Request]
  /\ signedOut \subseteq Tokens
  /\ \A t \in Tokens : t \in revoked \cup signedOut => exp[t] > 0
  /\ \A t \in Tokens : exp[t] % Second = 0

SessionsInit ==
  /\ clock = 0
  /\ rested = PurgeEvery
  /\ exp = [t \in Tokens |-> 0]
  /\ revoked = {}
  /\ req \in [Requests -> [pc : {"new"}, token : Tokens, late : {FALSE}]]
  /\ signedOut = {}

\* The clock stops at the bound, and the worker goes on.
Tick ==
  /\ clock < MaxTime \/ rested < PurgeEvery
  /\ clock' = IF clock < MaxTime THEN clock + 1 ELSE clock
  /\ rested' = IF rested < PurgeEvery THEN rested + 1 ELSE rested
  /\ UNCHANGED <<exp, revoked, req, signedOut>>

\* generateToken: the expiry in whole seconds, rounded down.
SignIn(t) ==
  /\ exp[t] = 0 /\ clock + TTL + Behind < MaxTime
  /\ exp' = [exp EXCEPT ![t] = ((clock + TTL) \div Second) * Second]
  /\ UNCHANGED <<clock, rested, revoked, req, signedOut>>

-----------------------------------------------------------------------------
(* Requests *)

Valid(t) == clock < exp[t]
Proceeds(r, pc) == req' = [req EXCEPT ![r].pc = pc]

\* ParseSessionClaims, in JWTAuth.
Parse(r) ==
  /\ req[r].pc = "new" /\ exp[req[r].token] > 0
  /\ req' = [req EXCEPT ![r].pc = IF Valid(req[r].token) THEN "parsed" ELSE "refused",
                        ![r].late = req[r].token \in signedOut]
  /\ UNCHANGED <<clock, rested, exp, revoked, signedOut>>

\* Mutant of SessionActive: the table of revocations is not consulted.
SessionAlwaysActive(r) ==
  /\ req[r].pc = "parsed"
  /\ Proceeds(r, "accepted")
  /\ UNCHANGED <<clock, rested, exp, revoked, signedOut>>

SessionActive(r) ==
  /\ req[r].pc = "parsed"
  /\ Proceeds(r, IF req[r].token \in revoked THEN "refused" ELSE "accepted")
  /\ UNCHANGED <<clock, rested, exp, revoked, signedOut>>

\* The database does not answer: 503.
Unavailable(r) ==
  /\ req[r].pc = "parsed"
  /\ Proceeds(r, "refused")
  /\ UNCHANGED <<clock, rested, exp, revoked, signedOut>>

\* Logout: an expired token needs no revocation.
Logout(r) ==
  LET t == req[r].token IN
  /\ req[r].pc = "new" /\ exp[t] > 0
  /\ IF Valid(t)
       THEN Proceeds(r, "signing_out") /\ UNCHANGED signedOut
       ELSE Proceeds(r, "accepted") /\ signedOut' = signedOut \cup {t}
  /\ UNCHANGED <<clock, rested, exp, revoked>>

\* Mutant of RevokeSession: a failure is answered with success.
RevokeAnyhow(r) ==
  LET t == req[r].token IN
  /\ req[r].pc = "signing_out"
  /\ Proceeds(r, "accepted") /\ signedOut' = signedOut \cup {t}
  /\ \/ revoked' = revoked \cup {t}
     \/ UNCHANGED revoked
  /\ UNCHANGED <<clock, rested, exp>>

\* RevokeSession, whose failure is a 500.
RevokeSession(r) ==
  LET t == req[r].token IN
  /\ req[r].pc = "signing_out"
  /\ \/ /\ Proceeds(r, "accepted")
        /\ revoked' = revoked \cup {t} /\ signedOut' = signedOut \cup {t}
     \/ Proceeds(r, "refused") /\ UNCHANGED <<revoked, signedOut>>
  /\ UNCHANGED <<clock, rested, exp>>

-----------------------------------------------------------------------------
(* The worker *)

\* Mutant of PurgeExpiredRevocations: nothing is deleted.
PurgeNothing ==
  /\ rested = PurgeEvery
  /\ rested' = 0
  /\ UNCHANGED <<clock, exp, revoked, req, signedOut>>

\* DELETE ... WHERE expires_at < now
PurgeExpiredRevocations ==
  /\ rested = PurgeEvery
  /\ revoked' = {t \in revoked : exp[t] >= clock - Behind}
  /\ rested' = 0
  /\ UNCHANGED <<clock, exp, req, signedOut>>

\* A worker that starts has not purged yet.
Restart ==
  /\ rested < PurgeEvery
  /\ rested' = PurgeEvery
  /\ UNCHANGED <<clock, exp, revoked, req, signedOut>>

SessionsNext ==
  \/ Tick \/ PurgeExpiredRevocations \/ Restart
  \/ \E t \in Tokens : SignIn(t)
  \/ \E r \in Requests :
       Parse(r) \/ SessionActive(r) \/ Unavailable(r) \/ Logout(r) \/ RevokeSession(r)

SessionsSpec == SessionsInit /\ [][SessionsNext]_sessionVars

\* Time passes and the worker polls.
FairSessionsSpec ==
  SessionsSpec /\ WF_sessionVars(Tick) /\ WF_sessionVars(PurgeExpiredRevocations)

-----------------------------------------------------------------------------
(* Correctness *)

\* "RevokeSession blocks a session token until it would have expired anyway": no
\* purge and no interleaving lets a request that begins after the sign-out through,
\* unless its token has expired by then.
SignedOutStaysOut ==
  [][\A r \in Requests :
       req[r].pc = "parsed" /\ req'[r].pc = "accepted" /\ req[r].late
         => ~Valid(req[r].token)]_sessionVars

\* A session that is signed out and could still be used has its revocation on record.
RevocationKept == \A t \in signedOut : Valid(t) => t \in revoked

\* The table of revocations does not grow for ever.
EventuallyPurged == \A t \in Tokens : t \in revoked ~> t \notin revoked

\* Rows keep their shape, and no revocation goes before its token has expired.
SessionsInv == SessionsTypeOK /\ RevocationKept
=============================================================================
