------------------------------ MODULE RateLimit ------------------------------
(***************************************************************************)
(* The limiter of sign-ins, registrations and AuthKit callbacks            *)
(* (WindowLimiter of middleware/ratelimit.go).                             *)
(*                                                                         *)
(* A call reads the clock and then waits for the mutex, so calls need not  *)
(* be served in the order of their times.  The limiter is a function of    *)
(* the calls in the order the mutex serves them.  A hit is the place in    *)
(* that order of the call that left it, where its time can be looked up:   *)
(* the slice of a key, to whose end hits are appended, is a set of places. *)
(***************************************************************************)
EXTENDS Integers, FiniteSets

CONSTANTS
  Keys,         \* a route and an address, or an account
  Window, Limit,
  LastCall,     \* bound on the times of calls
  MaxCalls      \* bound on their number

ASSUME RateLimitAssumption ==
  Window \in Nat \ {0} /\ Limit \in Nat \ {0} /\ LastCall \in Nat /\ MaxCalls \in Nat

Call == [key : Keys, now : Window + 1..LastCall]

\* NewWindowLimiter: the zero time of lastSweep is long ago.
NewLimiter == [hits |-> [k \in Keys |-> {}], lastSweep |-> 0]

\* Mutant of Live: a key is as old as the oldest of its hits.
LiveByFirst(calls, stamps, cutoff) ==
  \E m \in stamps : (\A i \in stamps : m <= i) /\ calls[m].now > cutoff

\* A key whose last hit counts no more is idle.
Live(calls, stamps, cutoff) ==
  \E m \in stamps : (\A i \in stamps : i <= m) /\ calls[m].now > cutoff

\* Mutant of Sweep: the map is swept once.
SweepOnce(l, calls, now) ==
  IF l.lastSweep > 0 THEN l
  ELSE [hits |-> [k \in Keys |->
                   IF Live(calls, l.hits[k], now - Window) THEN l.hits[k] ELSE {}],
        lastSweep |-> now]

\* Once a window idle keys are forgotten.
Sweep(l, calls, now) ==
  IF now - l.lastSweep < Window THEN l
  ELSE [hits |-> [k \in Keys |->
                   IF Live(calls, l.hits[k], now - Window) THEN l.hits[k] ELSE {}],
        lastSweep |-> now]

\* Allow, of the n-th call: old hits of the key are dropped, and this one is recorded
\* if it is under the limit.
Kept(l, calls, n) ==
  {m \in Sweep(l, calls, calls[n].now).hits[calls[n].key] :
     calls[m].now > calls[n].now - Window}
Allows(l, calls, n) == Cardinality(Kept(l, calls, n)) < Limit
Allow(l, calls, n) ==
  LET added == IF Allows(l, calls, n) THEN {n} ELSE {} IN
  [Sweep(l, calls, calls[n].now) EXCEPT !.hits[calls[n].key] = Kept(l, calls, n) \cup added]

\* The limiter before the first call and after each.
Limiters(calls) ==
  LET L[n \in 0..MaxCalls] == IF n = 0 THEN NewLimiter ELSE Allow(L[n - 1], calls, n)
  IN L

-----------------------------------------------------------------------------
(* Correctness *)

\* Nothing that was served before the n-th call has a later time, and the calls of
\* its own key were in order.
Timely(calls, n) ==
  \A m \in 1..n : /\ calls[m].now <= calls[n].now
                  /\ \A k \in 1..m : calls[k].key = calls[n].key /\ calls[m].key = calls[n].key
                                       => calls[k].now <= calls[m].now

\* "reports whether it is still under limit" (WindowLimiter.Allow): a call is allowed
\* if fewer than the limit of its key were in the window that ends with it.  Dropping
\* hits and forgetting keys changes no verdict, unless calls have overtaken each other
\* between the clock and the mutex.
LimitIsExact ==
  \A calls \in [1..MaxCalls -> Call] :
    LET L == Limiters(calls)
        allowed == {n \in 1..MaxCalls : Allows(L[n - 1], calls, n)}
        Counts(n) == {m \in allowed : /\ m < n /\ calls[m].key = calls[n].key
                                      /\ calls[m].now > calls[n].now - Window}
    IN \A n \in 1..MaxCalls :
         Timely(calls, n) => (n \in allowed <=> Cardinality(Counts(n)) < Limit)

\* "Forget idle keys once per window so spoofed or one-off keys cannot grow the map
\* without bound": while calls are served in the order of their times, the limiter
\* holds hits of keys that were used in the last two windows only.
IdleKeysAreForgotten ==
  \A calls \in [1..MaxCalls -> Call] :
    LET L == Limiters(calls) IN
    \A n \in 1..MaxCalls, k \in Keys :
      /\ \A i, j \in 1..n : i < j => calls[i].now <= calls[j].now
      /\ L[n].hits[k] # {}
      => \E m \in 1..n : calls[m].key = k /\ calls[m].now > calls[n].now - 2 * Window

LimiterSound == LimitIsExact /\ IdleKeysAreForgotten
=============================================================================
