------------------------------ MODULE BreakerOps ------------------------------
(***************************************************************************)
(* The bookkeeping of services/circuitBreaker.js as operators on a breaker *)
(* record, without clocks.  A breaker is [state, elapsed, calls]:          *)
(*   state    _state;                                                      *)
(*   elapsed  in OPEN, whether resetTimeoutMs has gone by since _openedAt; *)
(*   calls    _calls, oldest first: TRUE for a call that succeeded.        *)
(* The sliding window drops the oldest calls when a new one is recorded;   *)
(* how many it drops depends on the clock, so it is the parameter `old'.   *)
(* CircuitBreaker has the clock and implements these operators.            *)
(***************************************************************************)
EXTENDS Integers, Sequences, FiniteSets

CONSTANTS FailureThreshold,  \* failureThreshold, a percentage
          MinRequests,       \* minRequests
          MaxCalls           \* bound: calls a window can hold

ASSUME BreakerAssumption ==
  /\ FailureThreshold \in 0..100
  /\ MinRequests \in Nat \ {0}
  /\ MaxCalls \in Nat /\ MaxCalls >= MinRequests

BreakerStates == {"CLOSED", "OPEN", "HALF"}

Breaker == [state : BreakerStates, elapsed : BOOLEAN, calls : Seq(BOOLEAN)]

NewBreaker == [state |-> "CLOSED", elapsed |-> FALSE, calls |-> <<>>]

Failures(calls) == Cardinality({i \in DOMAIN calls : ~calls[i]})

\* Math.round(failures / calls * 100): ties round up.
FailureRate(calls) ==
  IF calls = <<>> THEN 0
  ELSE (200 * Failures(calls) + Len(calls)) \div (2 * Len(calls))

ShouldOpen(calls) ==
  /\ Len(calls) >= MinRequests
  /\ FailureRate(calls) >= FailureThreshold

\* The calls that may have left the window when one more is recorded.
Expired(calls) == {old \in 0..Len(calls) : Len(calls) - old < MaxCalls}

AddCall(calls, ok, old) == SubSeq(calls, old + 1, Len(calls)) \o <<ok>>

OpenBreaker == [state |-> "OPEN", elapsed |-> FALSE, calls |-> <<>>]

RecordSuccess(b, old) ==
  IF b.state = "HALF" THEN NewBreaker
  ELSE [b EXCEPT !.calls = AddCall(b.calls, TRUE, old)]

RecordFailure(b, old) ==
  LET calls == AddCall(b.calls, FALSE, old) IN
  IF b.state = "HALF" \/ (b.state = "CLOSED" /\ ShouldOpen(calls))
  THEN OpenBreaker
  ELSE [b EXCEPT !.calls = calls]

MaybeTransitionFromOpen(b) ==
  IF b.state = "OPEN" /\ b.elapsed THEN [b EXCEPT !.state = "HALF"] ELSE b

\* call(fn) throws CircuitOpenError, and fn does not run.
Blocked(b) == MaybeTransitionFromOpen(b).state = "OPEN"
===============================================================================
