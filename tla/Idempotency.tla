------------------------------ MODULE Idempotency ------------------------------
(***************************************************************************)
(* The Idempotency-Key middleware (middleware/idempotency.go) and the rows *)
(* of idempotency_keys behind it (repository/idempotency.go).              *)
(*                                                                         *)
(* A client repeats a call under one key until it learns the outcome.  The *)
(* statements of the middleware are separate transactions, the handler     *)
(* answers its client before the outcome is recorded, and a call may be    *)
(* cut off between any two steps: its client hangs up and cancels the      *)
(* context of every statement, its handler panics, or the server dies.     *)
(* Keys belong to one user; there is one user here.                        *)
(***************************************************************************)
CONSTANTS
  Calls,     \* HTTP requests, each sent once
  Keys,      \* idempotency keys
  Ops,       \* method, path and body, as far as their fingerprints differ
  NoKey, NoOp, NoCall

ASSUME IdempotencyAssumption == NoKey \notin Keys /\ NoOp \notin Ops /\ NoCall \notin Calls

VARIABLES
  record,    \* idempotency_keys
  call,      \* the middleware's instance for each call
  answer,    \* what the client of each call was told
  effects    \* history: calls whose handler changed the house

vars == <<record, call, answer, effects>>

\* "success" and "refused" (2xx and 4xx) come from the handler of the call
\* `from', "error" is any 5xx, "conflict" and "busy" are the middleware's own.
Answer == [kind : {"none", "success", "refused", "error", "conflict", "busy"},
           from : Calls \cup {NoCall}]
NoAnswer == [kind |-> "none", from |-> NoCall]
Definite == {"success", "refused"}

IdempotencyRecord == [state : {"absent", "processing", "completed"},
                      op : Ops \cup {NoOp}, response : Answer]
NoRecord == [state |-> "absent", op |-> NoOp, response |-> NoAnswer]

Call == [pc : {"new", "starting", "reading", "handling", "answering", "settling", "over",
               "cut_off"},
         key : Keys \cup {NoKey}, op : Ops \cup {NoOp}, outcome : Answer]

TypeOK ==
  /\ record \in [Keys -> IdempotencyRecord]
  /\ call \in [Calls -> Call]
  /\ \A k \in Keys : record[k].state = "completed" => record[k].response.kind \in Definite
  /\ \A c \in Calls : call[c].pc # "new" => call[c].key \in Keys /\ call[c].op \in Ops
  /\ answer \in [Calls -> Answer]
  /\ effects \subseteq Calls

Init ==
  /\ record = [k \in Keys |-> NoRecord]
  /\ call = [c \in Calls |-> [pc |-> "new", key |-> NoKey, op |-> NoOp, outcome |-> NoAnswer]]
  /\ answer = [c \in Calls |-> NoAnswer]
  /\ effects = {}

-----------------------------------------------------------------------------
\* The call is past the INSERT, and its record is its own.
Running(c) == call[c].pc \in {"handling", "answering", "settling"}

Goto(c, pc) == call' = [call EXCEPT ![c].pc = pc]

Send(c) ==
  /\ call[c].pc = "new"
  /\ \E k \in Keys, o \in Ops :
       call' = [call EXCEPT ![c] = [pc |-> "starting", key |-> k, op |-> o,
                                    outcome |-> NoAnswer]]
  /\ UNCHANGED <<record, answer, effects>>

\* Mutant of KeyIsFree: a record that is not completed does not count.
KeyNotCompleted(k) == record[k].state # "completed"

\* The unique index over user and key.
KeyIsFree(k) == record[k].state = "absent"

\* StartIdempotentRequest: the INSERT decides who runs the handler.
StartIdempotentRequest(c) ==
  LET k == call[c].key IN
  /\ call[c].pc = "starting"
  /\ \/ /\ KeyIsFree(k)
        /\ record' = [record EXCEPT ![k] = [state |-> "processing", op |-> call[c].op,
                                            response |-> NoAnswer]]
        /\ Goto(c, "handling")
     \/ /\ ~KeyIsFree(k)
        /\ Goto(c, "reading")
        /\ UNCHANGED record
  /\ UNCHANGED <<answer, effects>>

\* Mutant of SameRequest: the fingerprint is not compared.
AnyRequest(c) == record[call[c].key].state # "absent"

SameRequest(c) == record[call[c].key].op = call[c].op

\* GetIdempotencyRecord, after the INSERT ran into the unique index.  The row
\* may be gone again.
ReadAnswer(c) ==
  LET row == record[call[c].key] IN
  IF row.state = "absent" THEN [kind |-> "error", from |-> NoCall]
  ELSE IF ~SameRequest(c) THEN [kind |-> "conflict", from |-> NoCall]
  ELSE IF row.state = "processing" THEN [kind |-> "busy", from |-> NoCall]
  ELSE row.response

ReadRecord(c) ==
  /\ call[c].pc = "reading"
  /\ answer' = [answer EXCEPT ![c] = ReadAnswer(c)]
  /\ Goto(c, "over")
  /\ UNCHANGED <<record, effects>>

\* Either statement fails for another reason: "idempotency unavailable".
StoreUnavailable(c) ==
  /\ call[c].pc \in {"starting", "reading"}
  /\ answer' = [answer EXCEPT ![c] = [kind |-> "error", from |-> NoCall]]
  /\ Goto(c, "over")
  /\ UNCHANGED <<record, effects>>

\* The handler.  A refusal changes nothing; an error may come before or after
\* the handler's transaction has committed.
Execute(c) ==
  /\ call[c].pc = "handling"
  /\ \E kind \in {"success", "refused", "error"}, committed \in BOOLEAN :
       /\ kind = "success" => committed
       /\ kind = "refused" => ~committed
       /\ call' = [call EXCEPT ![c].pc = "answering",
                               ![c].outcome = [kind |-> kind, from |-> c]]
       /\ effects' = IF committed THEN effects \cup {c} ELSE effects
  /\ UNCHANGED <<record, answer>>

\* responseCapture passes the response on while it keeps a copy.
Respond(c) ==
  /\ call[c].pc = "answering"
  /\ answer' = [answer EXCEPT ![c] = call[c].outcome]
  /\ Goto(c, "settling")
  /\ UNCHANGED <<record, effects>>

\* Mutant of Retryable: refusals may be tried again as well.
RetryableUnlessSuccess(c) == call[c].outcome.kind # "success"

\* 5xx statuses leave no record behind.
Retryable(c) == call[c].outcome.kind = "error"

\* AbortIdempotentRequest deletes a record that is still processing;
\* CompleteIdempotentRequest stores the response in it, whatever its state.
Settle(c) ==
  LET k == call[c].key IN
  /\ call[c].pc = "settling"
  /\ record' = IF Retryable(c)
               THEN IF record[k].state = "processing"
                    THEN [record EXCEPT ![k] = NoRecord] ELSE record
               ELSE IF record[k].state = "absent" THEN record
                    ELSE [record EXCEPT ![k].state = "completed",
                                        ![k].response = call[c].outcome]
  /\ Goto(c, "over")
  /\ UNCHANGED <<answer, effects>>

\* Mutant of CutOff: the middleware takes its record back on the way out.
CutOffAborting(c) ==
  LET k == call[c].key IN
  /\ call[c].pc \in {"starting", "reading", "handling", "answering", "settling"}
  /\ record' = IF call[c].pc \in {"handling", "answering", "settling"}
               THEN [record EXCEPT ![k] = NoRecord] ELSE record
  /\ Goto(c, "over")
  /\ UNCHANGED <<answer, effects>>

\* The call is cut off.  Errors of the settling statement are dropped.
CutOff(c) ==
  /\ call[c].pc \in {"starting", "reading", "handling", "answering", "settling"}
  /\ Goto(c, IF Running(c) THEN "cut_off" ELSE "over")
  /\ UNCHANGED <<record, answer, effects>>

Next == \E c \in Calls :
  \/ Send(c) \/ StartIdempotentRequest(c) \/ ReadRecord(c) \/ StoreUnavailable(c)
  \/ Execute(c) \/ Respond(c) \/ Settle(c) \/ CutOff(c)

Spec == Init /\ [][Next]_vars

-----------------------------------------------------------------------------
(* Correctness *)

\* Of the calls under one key at most one is past the INSERT: its handler and
\* the statement that settles its record never overlap another call's.
SingleFlight ==
  \A c, d \in Calls : c # d /\ Running(c) /\ Running(d) => call[c].key # call[d].key

\* Clients that were given a definite answer under the same key were given the
\* same one, by an execution of exactly the request each of them had sent.
AnswersAgree ==
  \A c, d \in Calls :
    answer[c].kind \in Definite /\ answer[d].kind \in Definite /\ call[c].key = call[d].key
      => answer[c] = answer[d] /\ call[c].op = call[d].op

\* Once one client has a definite answer, nothing is done under its key again,
\* by no retry, no slow duplicate and no call that was there before.
AnsweredMeansOver ==
  [][\A c \in Calls, d \in effects' \ effects :
       answer[c].kind \in Definite => call[c].key # call[d].key]_vars

\* A request takes effect twice only if a handler reported a server error after
\* its own transaction had committed.
RepeatsNeedServerError ==
  \A c, d \in effects :
    c # d /\ call[c].key = call[d].key
      => call[c].outcome.kind = "error" \/ call[d].outcome.kind = "error"

\* "request already in progress" is what a repeated call is told: some call is at work
\* under its key, or one that was is cut off and has left its record for ever.
InProgressOrCutOff ==
  \A k \in Keys : record[k].state = "processing" =>
    \E c \in Calls : call[c].key = k /\ (Running(c) \/ call[c].pc = "cut_off")

\* A row belongs to the one call at work under its key, holds its answer or was left by
\* one that was cut off; what takes effect twice has reported a server error.
IdempotencyInv ==
  TypeOK /\ SingleFlight /\ InProgressOrCutOff /\ RepeatsNeedServerError
=============================================================================
