---------------------------- MODULE IdempotencyProofs ----------------------------
(* What the middleware promises for any number of calls, keys and requests.  *)
EXTENDS Idempotency, TLAPS

Decided(c) == call[c].outcome.kind \in Definite

(* Why the answers agree: a call at work finds its key taken by its own      *)
(* request, a handler that has decided leaves its key taken, and once it has *)
(* no other call works under that key or decides again.                      *)
WorkHoldsKey ==
  \A c \in Calls : Running(c) => /\ record[call[c].key].state = "processing"
                                 /\ record[call[c].key].op = call[c].op

Undecided ==
  \A c \in Calls : call[c].pc \in {"new", "starting", "reading", "handling"}
                     => call[c].outcome = NoAnswer

Handled ==
  \A c \in Calls : call[c].pc \in {"answering", "settling"}
                     => call[c].outcome.kind \in {"success", "refused", "error"}

DecidedKeepsKey ==
  \A c \in Calls : Decided(c) =>
    /\ record[call[c].key].state # "absent"
    /\ record[call[c].key].op = call[c].op
    /\ \A d \in Calls : d # c /\ call[d].key = call[c].key => ~Running(d) /\ ~Decided(d)

StoredFromDecided ==
  \A k \in Keys : record[k].state = "completed" =>
    \E f \in Calls : /\ call[f].key = k /\ call[f].pc # "new" /\ Decided(f)
                     /\ record[k].response = call[f].outcome

AnsweredFromDecided ==
  \A c \in Calls : answer[c].kind \in Definite =>
    /\ call[c].pc # "new"
    /\ \E f \in Calls : /\ call[f].key = call[c].key /\ call[f].op = call[c].op
                        /\ call[f].pc # "new" /\ answer[c] = call[f].outcome

EffectsFromHandlers ==
  \A c \in effects : call[c].pc # "new" /\ call[c].outcome.kind \in {"success", "error"}
                     \* a call that took effect has left its handler
                     /\ call[c].pc # "handling"

Core == /\ SingleFlight /\ WorkHoldsKey /\ Undecided /\ Handled /\ DecidedKeepsKey
        /\ StoredFromDecided /\ AnsweredFromDecided /\ EffectsFromHandlers

-----------------------------------------------------------------------------
LEMMA Kinds ==
  /\ Definite \subseteq {"none", "success", "refused", "error", "conflict", "busy"}
  /\ "none" \notin Definite /\ "error" \notin Definite /\ "conflict" \notin Definite
  /\ "busy" \notin Definite
BY DEF Definite

LEMMA NoAnswerTyped == NoAnswer \in Answer /\ NoAnswer.kind = "none"
BY DEF NoAnswer, Answer

\* What Goto does, field by field.
LEMMA GotoTyped ==
  ASSUME TypeOK, NEW c \in Calls,
         NEW p \in {"starting", "reading", "handling", "answering", "settling",
                    "over", "cut_off"},
         call[c].pc # "new", Goto(c, p)
  PROVE  /\ call' \in [Calls -> Call]
         /\ \A d \in Calls : /\ call'[d].key = call[d].key /\ call'[d].op = call[d].op
                             /\ call'[d].outcome = call[d].outcome
                             /\ call'[d].pc = IF d = c THEN p ELSE call[d].pc
         /\ \A d \in Calls : call'[d].pc # "new" => call'[d].key \in Keys /\ call'[d].op \in Ops
<1>1. \A x \in Call : /\ [x EXCEPT !.pc = p] \in Call
                      /\ [x EXCEPT !.pc = p].pc = p
                      /\ [x EXCEPT !.pc = p].key = x.key /\ [x EXCEPT !.pc = p].op = x.op
                      /\ [x EXCEPT !.pc = p].outcome = x.outcome
  BY DEF Call
<1>2. call' = [call EXCEPT ![c] = [call[c] EXCEPT !.pc = p]]
  BY DEF Goto, TypeOK
<1>3. call[c] \in Call
  BY DEF TypeOK
<1> DEFINE x == [call[c] EXCEPT !.pc = p]
<1>4. x \in Call /\ x.pc = p /\ x.key = call[c].key /\ x.op = call[c].op
      /\ x.outcome = call[c].outcome
  BY <1>1, <1>3
<1>5. call' = [call EXCEPT ![c] = x]
  BY <1>2
<1> HIDE DEF x
<1>6. call' \in [Calls -> Call]
  BY <1>4, <1>5 DEF TypeOK
<1>7. \A d \in Calls : call'[d] = IF d = c THEN x ELSE call[d]
  BY <1>5 DEF TypeOK
<1>8. \A d \in Calls : /\ call'[d].key = call[d].key /\ call'[d].op = call[d].op
                       /\ call'[d].outcome = call[d].outcome
                       /\ call'[d].pc = IF d = c THEN p ELSE call[d].pc
  BY <1>4, <1>7
<1>9. \A d \in Calls : call'[d].pc # "new" => call'[d].key \in Keys /\ call'[d].op \in Ops
  BY <1>8 DEF TypeOK
<1> QED
  BY <1>6, <1>8, <1>9

\* What Settle writes.
LEMMA SettleRows ==
  ASSUME TypeOK, WorkHoldsKey, NEW c \in Calls, Settle(c)
  PROVE  /\ call[c].key \in Keys
         /\ \A k \in Keys : k # call[c].key => record'[k] = record[k]
         /\ Retryable(c) => record'[call[c].key] = NoRecord
         /\ ~Retryable(c) => /\ record'[call[c].key].state = "completed"
                             /\ record'[call[c].key].op = record[call[c].key].op
                             /\ record'[call[c].key].response = call[c].outcome
         /\ call[c].outcome \in Answer => record' \in [Keys -> IdempotencyRecord]
<1> DEFINE k == call[c].key
<1>1. k \in Keys /\ record[k].state = "processing" /\ record[k] \in IdempotencyRecord
  BY DEF Settle, TypeOK, WorkHoldsKey, Running
<1>2. NoRecord \in IdempotencyRecord
  BY NoAnswerTyped DEF NoRecord, IdempotencyRecord
<1>3. CASE Retryable(c)
  <2>1. record' = [record EXCEPT ![k] = NoRecord]
    BY <1>1, <1>3 DEF Settle
  <2> QED
    BY <1>1, <1>2, <1>3, <2>1 DEF TypeOK
<1>4. CASE ~Retryable(c)
  <2>1. \A y \in IdempotencyRecord :
          LET z == [[y EXCEPT !.state = "completed"] EXCEPT !.response = call[c].outcome] IN
          /\ z.state = "completed" /\ z.op = y.op /\ z.response = call[c].outcome
          /\ call[c].outcome \in Answer => z \in IdempotencyRecord
    BY DEF IdempotencyRecord
  <2> DEFINE z == [[record[k] EXCEPT !.state = "completed"] EXCEPT !.response = call[c].outcome]
  <2>2. /\ z.state = "completed" /\ z.op = record[k].op /\ z.response = call[c].outcome
        /\ call[c].outcome \in Answer => z \in IdempotencyRecord
    BY <1>1, <2>1
  <2>3. record' = [record EXCEPT ![k] = z]
    BY <1>1, <1>4 DEF Settle, TypeOK
  <2> HIDE DEF z
  <2> QED
    BY <1>1, <1>4, <2>2, <2>3 DEF TypeOK
<1> QED
  BY <1>3, <1>4

\* What Execute leaves in the call.
LEMMA ExecuteRow ==
  ASSUME TypeOK, NEW c \in Calls, Execute(c)
  PROVE  /\ call' \in [Calls -> Call]
         /\ \A d \in Calls : d # c => call'[d] = call[d]
         /\ call'[c].pc = "answering" /\ call'[c].key = call[c].key /\ call'[c].op = call[c].op
         /\ call'[c].outcome \in Answer
         /\ call'[c].outcome.from = c
         /\ call'[c].outcome.kind \in {"success", "refused", "error"}
         /\ effects' = effects \/ (effects' = effects \cup {c} /\ call'[c].outcome.kind # "refused")
         /\ UNCHANGED <<record, answer>> /\ call[c].pc = "handling"
<1>1. PICK kind \in {"success", "refused", "error"}, committed \in BOOLEAN :
        /\ kind = "success" => committed
        /\ kind = "refused" => ~committed
        /\ call' = [call EXCEPT ![c].pc = "answering",
                                ![c].outcome = [kind |-> kind, from |-> c]]
        /\ effects' = IF committed THEN effects \cup {c} ELSE effects
  BY DEF Execute
<1>2. \A x \in Call, a \in Answer :
        LET z == [[x EXCEPT !.pc = "answering"] EXCEPT !.outcome = a] IN
        z \in Call /\ z.pc = "answering" /\ z.key = x.key /\ z.op = x.op /\ z.outcome = a
  BY DEF Call
<1> DEFINE a == [kind |-> kind, from |-> c]
           z == [[call[c] EXCEPT !.pc = "answering"] EXCEPT !.outcome = a]
<1>3. a \in Answer /\ a.from = c /\ a.kind = kind
  BY DEF Answer
<1>4. call' = [call EXCEPT ![c] = z]
  BY <1>1 DEF TypeOK
<1> HIDE DEF a
<1>5. z \in Call /\ z.pc = "answering" /\ z.key = call[c].key /\ z.op = call[c].op /\ z.outcome = a
  BY <1>2, <1>3 DEF TypeOK
<1> HIDE DEF z
<1>6. call' \in [Calls -> Call] /\ \A d \in Calls : call'[d] = IF d = c THEN z ELSE call[d]
  BY <1>4, <1>5 DEF TypeOK
<1>7. effects' = effects \/ (effects' = effects \cup {c} /\ kind # "refused")
  BY <1>1
<1>8. UNCHANGED <<record, answer>> /\ call[c].pc = "handling"
  BY DEF Execute
<1> QED
  BY <1>3, <1>5, <1>6, <1>7, <1>8
-----------------------------------------------------------------------------
IInv == TypeOK /\ Core

\* Steps that move one call on and leave the records alone.
LEMMA QuietStep ==
  ASSUME IInv, NEW c \in Calls, NEW p \in {"reading", "settling", "over", "cut_off"},
         call[c].pc # "new", Goto(c, p), UNCHANGED <<record, effects>>,
         p = "reading" => call[c].pc = "starting",
         p = "settling" => call[c].pc = "answering",
         answer' \in [Calls -> Answer],
         \A d \in Calls : d # c => answer'[d] = answer[d],
         answer'[c].kind \in Definite =>
           \E f \in Calls : /\ call[f].key = call[c].key /\ call[f].op = call[c].op
                            /\ call[f].pc # "new" /\ answer'[c] = call[f].outcome
  PROVE  IInv'
<1>1. /\ call' \in [Calls -> Call]
      /\ \A d \in Calls : /\ call'[d].key = call[d].key /\ call'[d].op = call[d].op
                          /\ call'[d].outcome = call[d].outcome
                          /\ call'[d].pc = IF d = c THEN p ELSE call[d].pc
      /\ \A d \in Calls : call'[d].pc # "new" => call'[d].key \in Keys /\ call'[d].op \in Ops
  BY GotoTyped DEF IInv
<1>2. \A d \in Calls : /\ Running(d)' => Running(d)
                       /\ Decided(d)' <=> Decided(d)
                       /\ call'[d].pc = "new" <=> call[d].pc = "new"
  BY <1>1 DEF Running, Decided
<1>3. TypeOK'
  BY <1>1 DEF IInv, TypeOK
<1>4. SingleFlight' /\ WorkHoldsKey'
  BY <1>1, <1>2 DEF IInv, Core, SingleFlight, WorkHoldsKey
<1>5. Undecided' /\ Handled'
  BY <1>1 DEF IInv, Core, Undecided, Handled
<1>6. DecidedKeepsKey'
  BY <1>1, <1>2 DEF IInv, Core, DecidedKeepsKey
<1>7. StoredFromDecided'
  BY <1>1, <1>2 DEF IInv, Core, StoredFromDecided
<1>8. AnsweredFromDecided'
  BY <1>1, <1>2 DEF IInv, Core, AnsweredFromDecided
<1>9. EffectsFromHandlers'
  BY <1>1, <1>2 DEF IInv, Core, EffectsFromHandlers, TypeOK
<1> QED
  BY <1>3, <1>4, <1>5, <1>6, <1>7, <1>8, <1>9 DEF IInv, Core

LEMMA SendStep == ASSUME IInv, NEW c \in Calls, Send(c) PROVE IInv'
<1>1. PICK k \in Keys, o \in Ops :
        call' = [call EXCEPT ![c] = [pc |-> "starting", key |-> k, op |-> o,
                                     outcome |-> NoAnswer]]
  BY DEF Send
<1> DEFINE x == [pc |-> "starting", key |-> k, op |-> o, outcome |-> NoAnswer]
<1>2. /\ x \in Call /\ x.pc = "starting" /\ x.key \in Keys /\ x.op \in Ops
      /\ x.outcome = NoAnswer
  BY NoAnswerTyped DEF Call
<1> HIDE DEF x
<1>3. call' \in [Calls -> Call] /\ \A d \in Calls : call'[d] = IF d = c THEN x ELSE call[d]
  BY <1>1, <1>2 DEF IInv, TypeOK, x
<1>4. UNCHANGED <<record, answer, effects>> /\ call[c].pc = "new"
  BY DEF Send
<1>5. ~Running(c)' /\ ~Decided(c)'
  BY <1>2, <1>3, NoAnswerTyped DEF Running, Decided, Definite
<1>6. \A d \in Calls : d # c => call'[d] = call[d] /\ (Running(d)' <=> Running(d))
                                /\ (Decided(d)' <=> Decided(d))
  BY <1>3 DEF Running, Decided
<1>7. TypeOK'
  BY <1>2, <1>3, <1>4 DEF IInv, TypeOK
<1>8. SingleFlight' /\ WorkHoldsKey'
  BY <1>4, <1>5, <1>6 DEF IInv, Core, SingleFlight, WorkHoldsKey
<1>9. Undecided' /\ Handled'
  BY <1>2, <1>3 DEF IInv, Core, Undecided, Handled
<1>10. DecidedKeepsKey'
  BY <1>4, <1>5, <1>6 DEF IInv, Core, DecidedKeepsKey
<1>11. StoredFromDecided'
  BY <1>4, <1>6 DEF IInv, Core, StoredFromDecided
<1>12. AnsweredFromDecided'
  <2>1. ASSUME NEW d \in Calls, answer'[d].kind \in Definite
        PROVE  /\ call'[d].pc # "new"
               /\ \E f \in Calls : /\ call'[f].key = call'[d].key /\ call'[f].op = call'[d].op
                                   /\ call'[f].pc # "new" /\ answer'[d] = call'[f].outcome
    <3>1. d # c /\ call'[d] = call[d]
      BY <1>4, <1>6, <2>1 DEF IInv, Core, AnsweredFromDecided
    <3>2. PICK f \in Calls : /\ call[f].key = call[d].key /\ call[f].op = call[d].op
                             /\ call[f].pc # "new" /\ answer[d] = call[f].outcome
      BY <1>4, <2>1 DEF IInv, Core, AnsweredFromDecided
    <3>3. f # c /\ call'[f] = call[f]
      BY <1>4, <1>6, <3>2
    <3> QED
      BY <1>4, <2>1, <3>1, <3>2, <3>3 DEF IInv, Core, AnsweredFromDecided
  <2> QED
    BY <2>1 DEF AnsweredFromDecided
<1>13. EffectsFromHandlers'
  BY <1>4, <1>6 DEF IInv, Core, EffectsFromHandlers, TypeOK
<1> QED
  BY <1>7, <1>8, <1>9, <1>10, <1>11, <1>12, <1>13 DEF IInv, Core

LEMMA StartStep == ASSUME IInv, NEW c \in Calls, StartIdempotentRequest(c) PROVE IInv'
<1>0. call[c].pc = "starting" /\ call[c].key \in Keys /\ call[c].op \in Ops
  BY DEF StartIdempotentRequest, IInv, TypeOK
<1>1. CASE UNCHANGED record /\ Goto(c, "reading")
  <2>1. UNCHANGED <<record, effects, answer>>
    BY <1>1 DEF StartIdempotentRequest
  <2>2. answer[c].kind \in Definite =>
           \E f \in Calls : /\ call[f].key = call[c].key /\ call[f].op = call[c].op
                            /\ call[f].pc # "new" /\ answer[c] = call[f].outcome
    BY DEF IInv, Core, AnsweredFromDecided
  <2> QED
    BY <1>0, <1>1, <2>1, <2>2, QuietStep DEF IInv, TypeOK
<1>2. CASE /\ KeyIsFree(call[c].key)
           /\ record' = [record EXCEPT ![call[c].key] =
                           [state |-> "processing", op |-> call[c].op, response |-> NoAnswer]]
           /\ Goto(c, "handling")
  <2> DEFINE k == call[c].key
             x == [state |-> "processing", op |-> call[c].op, response |-> NoAnswer]
  <2>1. x \in IdempotencyRecord /\ x.state = "processing" /\ x.op = call[c].op
    BY <1>0, NoAnswerTyped DEF IdempotencyRecord
  <2> HIDE DEF x
  <2>2. record' \in [Keys -> IdempotencyRecord]
        /\ \A j \in Keys : record'[j] = IF j = k THEN x ELSE record[j]
    BY <1>0, <1>2, <2>1 DEF IInv, TypeOK, x
  <2>3. /\ call' \in [Calls -> Call]
        /\ \A d \in Calls : /\ call'[d].key = call[d].key /\ call'[d].op = call[d].op
                            /\ call'[d].outcome = call[d].outcome
                            /\ call'[d].pc = IF d = c THEN "handling" ELSE call[d].pc
        /\ \A d \in Calls : call'[d].pc # "new" => call'[d].key \in Keys /\ call'[d].op \in Ops
    BY <1>0, <1>2, GotoTyped DEF IInv
  <2>4. UNCHANGED <<answer, effects>> /\ record[k].state = "absent" /\ k \in Keys
    BY <1>0, <1>2 DEF StartIdempotentRequest, KeyIsFree
  <2>5. \A d \in Calls : /\ Decided(d)' <=> Decided(d)
                         /\ d # c => (Running(d)' <=> Running(d))
                         /\ call'[d].pc = "new" <=> call[d].pc = "new"
    BY <1>0, <2>3 DEF Running, Decided
  <2>6. \A d \in Calls : call[d].key = k => ~Running(d) /\ ~Decided(d)
    BY <2>4 DEF IInv, Core, WorkHoldsKey, DecidedKeepsKey
  <2>7. \A d \in Calls : d # c /\ (Running(d) \/ Decided(d))
           => /\ call[d].key # k
              /\ call[d].key \in Keys => record'[call[d].key] = record[call[d].key]
    BY <2>2, <2>6
  <2>8. \A d \in Calls : Running(d) \/ Decided(d) => call[d].key \in Keys
    BY NoAnswerTyped DEF IInv, Core, TypeOK, Undecided, Running, Decided, Definite
  <2>9. TypeOK'
    BY <2>1, <2>2, <2>3, <2>4 DEF IInv, TypeOK
  <2>10. SingleFlight'
    BY <2>3, <2>5, <2>6 DEF IInv, Core, SingleFlight
  <2>11. WorkHoldsKey'
    BY <2>1, <2>2, <2>3, <2>4, <2>5, <2>7, <2>8 DEF IInv, Core, WorkHoldsKey
  <2>12. Undecided' /\ Handled'
    BY <1>0, <2>3 DEF IInv, Core, Undecided, Handled
  <2>13. DecidedKeepsKey'
    <3>1. ~Decided(c)
      BY <2>6
    <3> QED
      BY <2>3, <2>5, <2>6, <2>7, <2>8, <3>1 DEF IInv, Core, DecidedKeepsKey
  <2>14. StoredFromDecided'
    BY <2>1, <2>2, <2>3, <2>5 DEF IInv, Core, StoredFromDecided
  <2>15. AnsweredFromDecided'
    BY <2>3, <2>4, <2>5 DEF IInv, Core, AnsweredFromDecided
  <2>16. EffectsFromHandlers'
    <3>1. c \notin effects
      BY <1>0, NoAnswerTyped DEF IInv, Core, EffectsFromHandlers, Undecided
    <3> QED
      BY <2>3, <2>4, <3>1 DEF IInv, Core, EffectsFromHandlers, TypeOK
  <2> QED
    BY <2>9, <2>10, <2>11, <2>12, <2>13, <2>14, <2>15, <2>16 DEF IInv, Core
<1> QED
  BY <1>1, <1>2 DEF StartIdempotentRequest

LEMMA ExecuteStep == ASSUME IInv, NEW c \in Calls, Execute(c) PROVE IInv'
<1>1. /\ call' \in [Calls -> Call]
      /\ \A d \in Calls : d # c => call'[d] = call[d]
      /\ call'[c].pc = "answering" /\ call'[c].key = call[c].key /\ call'[c].op = call[c].op
      /\ call'[c].outcome \in Answer
      /\ call'[c].outcome.kind \in {"success", "refused", "error"}
      /\ effects' = effects \/ (effects' = effects \cup {c} /\ call'[c].outcome.kind # "refused")
      /\ UNCHANGED <<record, answer>> /\ call[c].pc = "handling"
  BY ExecuteRow DEF IInv
<1>2. call[c].outcome = NoAnswer /\ ~Decided(c) /\ Running(c) /\ Running(c)'
  BY <1>1, NoAnswerTyped DEF IInv, Core, Undecided, Decided, Running, Definite
<1>3. /\ \A d \in Calls : Running(d)' <=> Running(d)
      /\ \A d \in Calls : d # c => (Decided(d)' <=> Decided(d))
  BY <1>1, <1>2 DEF Running, Decided
<1>4. \A d \in Calls : d # c /\ call[d].key = call[c].key => ~Running(d) /\ ~Decided(d)
  BY <1>2 DEF IInv, Core, SingleFlight, DecidedKeepsKey
<1>5. TypeOK'
  BY <1>1 DEF IInv, TypeOK
<1>6. SingleFlight' /\ WorkHoldsKey'
  BY <1>1, <1>3 DEF IInv, Core, SingleFlight, WorkHoldsKey
<1>7. Undecided' /\ Handled'
  BY <1>1 DEF IInv, Core, Undecided, Handled
<1>8. DecidedKeepsKey'
  <2>1. ASSUME NEW d \in Calls, Decided(d)'
        PROVE  /\ record'[call'[d].key].state # "absent"
               /\ record'[call'[d].key].op = call'[d].op
               /\ \A e \in Calls : e # d /\ call'[e].key = call'[d].key
                                     => ~Running(e)' /\ ~Decided(e)'
    <3>1. CASE d = c
      BY <1>1, <1>2, <1>3, <1>4, <3>1 DEF IInv, Core, WorkHoldsKey
    <3>2. CASE d # c
      BY <1>1, <1>2, <1>3, <1>4, <2>1, <3>2 DEF IInv, Core, DecidedKeepsKey
    <3> QED
      BY <3>1, <3>2
  <2> QED
    BY <2>1 DEF DecidedKeepsKey
<1>9. StoredFromDecided'
  <2>1. ASSUME NEW k \in Keys, record'[k].state = "completed"
        PROVE  \E f \in Calls : /\ call'[f].key = k /\ call'[f].pc # "new" /\ Decided(f)'
                                /\ record'[k].response = call'[f].outcome
    <3>1. PICK f \in Calls : /\ call[f].key = k /\ call[f].pc # "new" /\ Decided(f)
                             /\ record[k].response = call[f].outcome
      BY <1>1, <2>1 DEF IInv, Core, StoredFromDecided
    <3>2. f # c
      BY <1>2, <3>1
    <3> QED
      BY <1>1, <1>3, <3>1, <3>2
  <2> QED
    BY <2>1 DEF StoredFromDecided
<1>10. AnsweredFromDecided'
  <2>1. ASSUME NEW d \in Calls, answer'[d].kind \in Definite
        PROVE  /\ call'[d].pc # "new"
               /\ \E f \in Calls : /\ call'[f].key = call'[d].key /\ call'[f].op = call'[d].op
                                   /\ call'[f].pc # "new" /\ answer'[d] = call'[f].outcome
    <3>1. PICK f \in Calls : /\ call[f].key = call[d].key /\ call[f].op = call[d].op
                             /\ call[f].pc # "new" /\ answer[d] = call[f].outcome
      BY <1>1, <2>1 DEF IInv, Core, AnsweredFromDecided
    <3>2. f # c
      BY <1>1, <1>2, <2>1, <3>1, NoAnswerTyped, Kinds
    <3>3. call'[f] = call[f] /\ call'[d].key = call[d].key /\ call'[d].op = call[d].op
      BY <1>1, <3>2
    <3>4. call'[d].pc # "new"
      BY <1>1, <2>1 DEF IInv, Core, AnsweredFromDecided
    <3> QED
      BY <1>1, <3>1, <3>3, <3>4
  <2> QED
    BY <2>1 DEF AnsweredFromDecided
<1>11. EffectsFromHandlers'
  BY <1>1 DEF IInv, Core, EffectsFromHandlers, TypeOK
<1> QED
  BY <1>5, <1>6, <1>7, <1>8, <1>9, <1>10, <1>11 DEF IInv, Core

LEMMA SettleStep == ASSUME IInv, NEW c \in Calls, Settle(c) PROVE IInv'
<1> DEFINE k == call[c].key
<1>1. /\ k \in Keys
      /\ \A j \in Keys : j # k => record'[j] = record[j]
      /\ Retryable(c) => record'[k] = NoRecord
      /\ ~Retryable(c) => /\ record'[k].state = "completed"
                          /\ record'[k].op = record[k].op
                          /\ record'[k].response = call[c].outcome
      /\ record' \in [Keys -> IdempotencyRecord]
  <2>1. call[c].outcome \in Answer
    BY DEF IInv, TypeOK, Call
  <2> QED
    BY <2>1, SettleRows DEF IInv, Core
<1>2. /\ call[c].pc = "settling" /\ UNCHANGED <<answer, effects>> /\ Goto(c, "over")
      /\ Running(c)
  BY DEF Settle, Running
<1>3. /\ call' \in [Calls -> Call]
      /\ \A d \in Calls : /\ call'[d].key = call[d].key /\ call'[d].op = call[d].op
                          /\ call'[d].outcome = call[d].outcome
                          /\ call'[d].pc = IF d = c THEN "over" ELSE call[d].pc
      /\ \A d \in Calls : call'[d].pc # "new" => call'[d].key \in Keys /\ call'[d].op \in Ops
  BY <1>2, GotoTyped DEF IInv
<1>4. \A d \in Calls : /\ Running(d)' <=> Running(d) /\ d # c
                       /\ Decided(d)' <=> Decided(d)
                       /\ call'[d].pc = "new" <=> call[d].pc = "new"
  BY <1>2, <1>3 DEF Running, Decided
<1>5. \A d \in Calls : d # c /\ call[d].key = k => ~Running(d) /\ ~Decided(d)
  BY <1>2 DEF IInv, Core, SingleFlight, DecidedKeepsKey
<1>6. Retryable(c) => ~Decided(c)
  BY Kinds DEF Retryable, Decided
<1>7. ~Retryable(c) => Decided(c)
  BY <1>2 DEF IInv, Core, Handled, Retryable, Decided, Definite
<1>8. \A d \in Calls : Running(d) \/ Decided(d) => call[d].key \in Keys /\ call[d].pc # "new"
  BY NoAnswerTyped DEF IInv, Core, TypeOK, Undecided, Running, Decided, Definite
<1>9. NoRecord.state = "absent"
  BY DEF NoRecord
<1>10. TypeOK'
  BY <1>1, <1>2, <1>3, <1>7, <1>9 DEF IInv, TypeOK, Decided
<1>11. SingleFlight' /\ WorkHoldsKey'
  BY <1>1, <1>3, <1>4, <1>5, <1>8 DEF IInv, Core, SingleFlight, WorkHoldsKey
<1>12. Undecided' /\ Handled'
  BY <1>3 DEF IInv, Core, Undecided, Handled
<1>13. DecidedKeepsKey'
  <2>1. ASSUME NEW d \in Calls, Decided(d)
        PROVE  /\ record'[call[d].key].state # "absent"
               /\ record'[call[d].key].op = call[d].op
    <3>1. CASE d = c
      BY <1>1, <1>2, <1>6, <2>1, <3>1 DEF IInv, Core, WorkHoldsKey
    <3>2. CASE d # c
      BY <1>1, <1>5, <1>8, <2>1, <3>2 DEF IInv, Core, DecidedKeepsKey
    <3> QED
      BY <3>1, <3>2
  <2> QED
    BY <1>3, <1>4, <2>1 DEF IInv, Core, DecidedKeepsKey
<1>14. StoredFromDecided'
  <2>1. ASSUME NEW j \in Keys, record'[j].state = "completed"
        PROVE  \E f \in Calls : /\ call[f].key = j /\ call[f].pc # "new" /\ Decided(f)
                                /\ record'[j].response = call[f].outcome
    <3>1. CASE j = k
      BY <1>1, <1>2, <1>7, <1>9, <2>1, <3>1
    <3>2. CASE j # k
      BY <1>1, <2>1, <3>2 DEF IInv, Core, StoredFromDecided
    <3> QED
      BY <3>1, <3>2
  <2> QED
    BY <1>3, <1>4, <2>1 DEF StoredFromDecided
<1>15. AnsweredFromDecided'
  BY <1>2, <1>3, <1>4 DEF IInv, Core, AnsweredFromDecided
<1>16. EffectsFromHandlers'
  BY <1>2, <1>3, <1>4 DEF IInv, Core, EffectsFromHandlers, TypeOK
<1> QED
  BY <1>10, <1>11, <1>12, <1>13, <1>14, <1>15, <1>16 DEF IInv, Core

LEMMA ReadStep == ASSUME IInv, NEW c \in Calls, ReadRecord(c) PROVE IInv'
<1> DEFINE a == ReadAnswer(c)
           k == call[c].key
<1>1. call[c].pc = "reading" /\ k \in Keys /\ record[k] \in IdempotencyRecord
  BY DEF ReadRecord, IInv, TypeOK
<1>2. a \in Answer
  BY <1>1 DEF ReadAnswer, Answer, IdempotencyRecord
<1>3. a.kind \in Definite =>
        \E f \in Calls : /\ call[f].key = k /\ call[f].op = call[c].op
                         /\ call[f].pc # "new" /\ a = call[f].outcome
  <2>1. a.kind \in Definite => /\ record[k].op = call[c].op /\ a = record[k].response
                               /\ record[k].state = "completed"
    BY <1>1, Kinds DEF ReadAnswer, SameRequest, IdempotencyRecord
  <2> HIDE DEF a
  <2>2. SUFFICES ASSUME a.kind \in Definite
                 PROVE  \E f \in Calls : /\ call[f].key = k /\ call[f].op = call[c].op
                                         /\ call[f].pc # "new" /\ a = call[f].outcome
    OBVIOUS
  <2>3. PICK f \in Calls : /\ call[f].key = k /\ call[f].pc # "new" /\ Decided(f)
                           /\ record[k].response = call[f].outcome
    BY <1>1, <2>1, <2>2 DEF IInv, Core, StoredFromDecided
  <2>4. record[k].op = call[f].op
    BY <2>3 DEF IInv, Core, DecidedKeepsKey
  <2> QED
    BY <2>1, <2>2, <2>3, <2>4
<1>4. answer' = [answer EXCEPT ![c] = a] /\ Goto(c, "over") /\ UNCHANGED <<record, effects>>
  BY DEF ReadRecord
<1> HIDE DEF a
<1>5. answer' \in [Calls -> Answer] /\ answer'[c] = a
      /\ \A d \in Calls : d # c => answer'[d] = answer[d]
  BY <1>2, <1>4 DEF IInv, TypeOK
<1> QED
  BY <1>1, <1>3, <1>4, <1>5, QuietStep

LEMMA OtherSteps ==
  ASSUME IInv, NEW c \in Calls, StoreUnavailable(c) \/ Respond(c) \/ CutOff(c)
  PROVE  IInv'
<1>1. CASE StoreUnavailable(c)
  <2>1. answer' \in [Calls -> Answer] /\ answer'[c].kind = "error"
        /\ \A d \in Calls : d # c => answer'[d] = answer[d]
    BY <1>1 DEF StoreUnavailable, IInv, TypeOK, Answer
  <2> QED
    BY <1>1, <2>1, QuietStep, Kinds DEF StoreUnavailable
<1>2. CASE Respond(c)
  <2>1. call[c].outcome \in Answer /\ call[c].pc = "answering"
    BY <1>2 DEF Respond, IInv, TypeOK, Call
  <2>2. answer' \in [Calls -> Answer] /\ answer'[c] = call[c].outcome
        /\ \A d \in Calls : d # c => answer'[d] = answer[d]
    BY <1>2, <2>1 DEF Respond, IInv, TypeOK
  <2>3. Goto(c, "settling") /\ UNCHANGED <<record, effects>>
    BY <1>2 DEF Respond
  <2> QED
    BY <2>1, <2>2, <2>3, QuietStep
<1>3. CASE CutOff(c)
  <2>1. UNCHANGED answer /\ answer \in [Calls -> Answer] /\ call[c].pc # "new"
        /\ (Goto(c, "cut_off") \/ Goto(c, "over")) /\ UNCHANGED <<record, effects>>
    BY <1>3 DEF CutOff, IInv, TypeOK
  <2>2. answer[c].kind \in Definite =>
           \E f \in Calls : /\ call[f].key = call[c].key /\ call[f].op = call[c].op
                            /\ call[f].pc # "new" /\ answer[c] = call[f].outcome
    BY DEF IInv, Core, AnsweredFromDecided
  <2> QED
    BY <2>1, <2>2, QuietStep
<1> QED
  BY <1>1, <1>2, <1>3

THEOREM Invariance == Spec => []IInv
<1>1. Init => IInv
  BY NoAnswerTyped, IdempotencyAssumption
     DEF Init, IInv, Core, TypeOK, SingleFlight, WorkHoldsKey, Undecided, Handled,
         DecidedKeepsKey, StoredFromDecided, AnsweredFromDecided, EffectsFromHandlers,
         Running, Decided, Definite, NoRecord, IdempotencyRecord, Call
<1>2. IInv /\ [Next]_vars => IInv'
  <2>1. SUFFICES ASSUME IInv, [Next]_vars PROVE IInv'
    OBVIOUS
  <2>2. CASE UNCHANGED vars
    BY <2>1, <2>2
       DEF vars, IInv, Core, TypeOK, SingleFlight, WorkHoldsKey, Undecided, Handled,
           DecidedKeepsKey, StoredFromDecided, AnsweredFromDecided, EffectsFromHandlers,
           Running, Decided
  <2> QED
    BY <2>1, <2>2, SendStep, StartStep, ReadStep, ExecuteStep, SettleStep, OtherSteps DEF Next
<1> QED
  BY <1>1, <1>2, PTL DEF Spec

\* The shape of the rows, the calls and the answers.
THEOREM IdempotencyTypeCorrect == Spec => []TypeOK
BY Invariance, PTL DEF IInv

\* At most one call is at work under a key.
THEOREM OneCallAtWork == Spec => []SingleFlight
BY Invariance, PTL DEF IInv, Core

\* All definite answers under a key are one answer, to one request.
THEOREM OneAnswerPerKey == Spec => []AnswersAgree
<1>1. IInv => AnswersAgree
  <2> SUFFICES ASSUME IInv, NEW c \in Calls, NEW d \in Calls,
                      answer[c].kind \in Definite, answer[d].kind \in Definite,
                      call[c].key = call[d].key
               PROVE  answer[c] = answer[d] /\ call[c].op = call[d].op
    BY DEF AnswersAgree
  <2>1. PICK f \in Calls : /\ call[f].key = call[c].key /\ call[f].op = call[c].op
                           /\ answer[c] = call[f].outcome
    BY DEF IInv, Core, AnsweredFromDecided
  <2>2. PICK g \in Calls : /\ call[g].key = call[d].key /\ call[g].op = call[d].op
                           /\ answer[d] = call[g].outcome
    BY DEF IInv, Core, AnsweredFromDecided
  <2>3. f = g
    BY <2>1, <2>2 DEF IInv, Core, DecidedKeepsKey, Decided
  <2> QED
    BY <2>1, <2>2, <2>3
<1> QED
  BY <1>1, Invariance, PTL

\* A second effect under a key needs a server error after the first commit.
THEOREM RepeatsAreServerErrors == Spec => []RepeatsNeedServerError
<1>1. IInv => RepeatsNeedServerError
  BY DEF IInv, Core, TypeOK, EffectsFromHandlers, DecidedKeepsKey, Decided, Definite,
         RepeatsNeedServerError
<1> QED
  BY <1>1, Invariance, PTL

\* A row in progress has its call at work, or was left by one that is cut off.
LEMMA Left ==
  ASSUME IInv, InProgressOrCutOff, [Next]_vars
  PROVE  InProgressOrCutOff'
<1> DEFINE Owner(d) == Running(d) \/ call[d].pc = "cut_off"
<1>1. CASE UNCHANGED vars
  BY <1>1 DEF vars, InProgressOrCutOff, Running
<1>2. ASSUME NEW c \in Calls, UNCHANGED record, \A d \in Calls \ {c} : call'[d] = call[d],
             call'[c].key = call[c].key \/ ~Owner(c), Owner(c) => Owner(c)'
      PROVE  InProgressOrCutOff'
  BY <1>2 DEF InProgressOrCutOff, Running
<1>3. ASSUME NEW c \in Calls, Send(c) PROVE InProgressOrCutOff'
  <2>1. UNCHANGED record /\ ~Owner(c) /\ \A d \in Calls \ {c} : call'[d] = call[d]
    BY <1>3 DEF Send, Running, IInv, TypeOK
  <2> QED
    BY <1>2, <2>1
<1>4. ASSUME NEW c \in Calls, StartIdempotentRequest(c) PROVE InProgressOrCutOff'
  <2>1. call[c].pc = "starting" /\ call[c].key \in Keys /\ ~Owner(c)
    BY <1>4 DEF StartIdempotentRequest, Running, IInv, TypeOK
  <2>2. CASE UNCHANGED record /\ Goto(c, "reading")
    <3>1. \A d \in Calls \ {c} : call'[d] = call[d]
      BY <2>2 DEF Goto, IInv, TypeOK
    <3> QED
      BY <1>2, <2>1, <2>2, <3>1
  <2>3. CASE /\ \A k \in Keys \ {call[c].key} : record'[k] = record[k]
             /\ Goto(c, "handling")
    <3>1. /\ call'[c].key = call[c].key /\ Owner(c)'
          /\ \A d \in Calls \ {c} : call'[d] = call[d]
      BY <2>1, <2>3, GotoTyped DEF Goto, IInv, TypeOK, Running
    <3> QED
      BY <2>1, <2>3, <3>1 DEF InProgressOrCutOff, Running
  <2> QED
    BY <1>4, <2>1, <2>2, <2>3 DEF StartIdempotentRequest, IInv, TypeOK
<1>5. ASSUME NEW c \in Calls, Execute(c) PROVE InProgressOrCutOff'
  <2>1. /\ UNCHANGED record /\ call'[c].key = call[c].key /\ Owner(c)'
        /\ \A d \in Calls \ {c} : call'[d] = call[d]
    BY <1>5, ExecuteRow DEF IInv, Running
  <2> QED
    BY <1>2, <2>1
<1>6. ASSUME NEW c \in Calls, Settle(c) PROVE InProgressOrCutOff'
  <2>1. /\ record'[call[c].key].state # "processing"
        /\ \A k \in Keys : k # call[c].key => record'[k] = record[k]
    BY <1>6, SettleRows DEF IInv, Core, NoRecord
  <2>2. \A d \in Calls \ {c} : call'[d] = call[d]
    BY <1>6 DEF Settle, Goto, IInv, TypeOK
  <2> QED
    BY <2>1, <2>2 DEF InProgressOrCutOff, Running
<1>7. ASSUME NEW c \in Calls, ReadRecord(c) \/ StoreUnavailable(c) PROVE InProgressOrCutOff'
  <2>1. UNCHANGED record /\ Goto(c, "over") /\ ~Owner(c)
    BY <1>7 DEF ReadRecord, StoreUnavailable, Running
  <2>2. \A d \in Calls \ {c} : call'[d] = call[d]
    BY <2>1 DEF Goto, IInv, TypeOK
  <2> QED
    BY <1>2, <2>1, <2>2
<1>8. ASSUME NEW c \in Calls, Respond(c) PROVE InProgressOrCutOff'
  <2>1. UNCHANGED record /\ Goto(c, "settling") /\ call[c].pc # "new"
    BY <1>8 DEF Respond
  <2>2. /\ call'[c].key = call[c].key /\ Owner(c)'
        /\ \A d \in Calls \ {c} : call'[d] = call[d]
    BY <2>1, GotoTyped DEF Goto, IInv, TypeOK, Running
  <2> QED
    BY <1>2, <2>1, <2>2
<1>9. ASSUME NEW c \in Calls, CutOff(c) PROVE InProgressOrCutOff'
  <2>1. UNCHANGED record /\ call[c].pc \notin {"new", "cut_off"}
    BY <1>9 DEF CutOff
  <2>2. \A d \in Calls \ {c} : call'[d] = call[d]
    BY <1>9 DEF CutOff, Goto, IInv, TypeOK
  <2>3. CASE Running(c)
    <3>1. Goto(c, "cut_off")
      BY <1>9, <2>3 DEF CutOff
    <3>2. call'[c].key = call[c].key /\ Owner(c)'
      BY <2>1, <3>1, GotoTyped DEF IInv
    <3> QED
      BY <1>2, <2>1, <2>2, <3>2
  <2>4. CASE ~Running(c)
    BY <1>2, <2>1, <2>2, <2>4
  <2> QED
    BY <2>3, <2>4
<1> QED
  BY <1>1, <1>3, <1>4, <1>5, <1>6, <1>7, <1>8, <1>9 DEF Next

\* "request already in progress" is true of a call at work, and of no other row but
\* those a cut-off call has left behind.
THEOREM InProgressExplained == Spec => []InProgressOrCutOff
<1>1. Init => InProgressOrCutOff
  BY DEF Init, InProgressOrCutOff, NoRecord
<1> QED
  BY <1>1, Left, Invariance, PTL DEF Spec

\* A key that was answered for good never takes effect again.
THEOREM NothingAfterAnswer == Spec => AnsweredMeansOver
<1> DEFINE Over == \A c \in Calls, d \in effects' \ effects :
                     answer[c].kind \in Definite => call[c].key # call[d].key
<1>1. IInv /\ [Next]_vars => Over
  <2> SUFFICES ASSUME IInv, [Next]_vars PROVE Over
    OBVIOUS
  <2>1. CASE UNCHANGED effects
    BY <2>1
  <2>2. ASSUME NEW e \in Calls, Execute(e) PROVE Over
    <3>1. /\ call[e].pc = "handling" /\ effects' \ effects \subseteq {e}
          /\ call[e].outcome = NoAnswer /\ Running(e)
      BY <2>2, ExecuteRow DEF IInv, Core, Undecided, Running
    <3> SUFFICES ASSUME NEW c \in Calls, answer[c].kind \in Definite,
                        call[c].key = call[e].key
                 PROVE  FALSE
      BY <3>1
    <3>2. PICK f \in Calls : call[f].key = call[c].key /\ answer[c] = call[f].outcome
      BY DEF IInv, Core, AnsweredFromDecided
    <3>3. f # e
      BY <3>1, <3>2, NoAnswerTyped, Kinds
    <3> QED
      BY <3>1, <3>2, <3>3 DEF IInv, Core, DecidedKeepsKey, Decided
  <2> HIDE DEF Over
  <2> QED
    BY <2>1, <2>2
       DEF Next, vars, Send, StartIdempotentRequest, ReadRecord, StoreUnavailable, Respond,
           Settle, CutOff
<1> QED
  BY <1>1, Invariance, PTL DEF Spec, AnsweredMeansOver

\* A row belongs to one call at work, holds its answer or was left by a call that was
\* cut off, and a second effect under a key needs a server error.
THEOREM IdempotencySound == Spec => []IdempotencyInv
BY IdempotencyTypeCorrect, OneCallAtWork, InProgressExplained, RepeatsAreServerErrors, PTL
   DEF IdempotencyInv
=============================================================================
