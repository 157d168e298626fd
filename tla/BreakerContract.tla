---------------------------- MODULE BreakerContract ----------------------------
(***************************************************************************)
(* What the circuit breaker promises to one sequential caller, without a   *)
(* clock: the specification that CircuitBreaker, which has the clock, is   *)
(* shown to implement and whose operators the agent's worker uses.         *)
(***************************************************************************)
EXTENDS BreakerOps

VARIABLES breaker, inFlight

Init == breaker = NewBreaker /\ inFlight = FALSE

\* A call starts; out of OPEN only as a probe, after the reset timeout.
Start ==
  /\ ~inFlight
  /\ ~Blocked(breaker)
  /\ breaker' = MaybeTransitionFromOpen(breaker)
  /\ inFlight' = TRUE

Succeed ==
  /\ inFlight
  /\ inFlight' = FALSE
  /\ \E old \in 0..Len(breaker.calls) : breaker' = RecordSuccess(breaker, old)

Fail ==
  /\ inFlight
  /\ inFlight' = FALSE
  /\ \E old \in 0..Len(breaker.calls) : breaker' = RecordFailure(breaker, old)

ResetTimeout ==
  /\ breaker.state = "OPEN"
  /\ ~breaker.elapsed
  /\ breaker' = [breaker EXCEPT !.elapsed = TRUE]
  /\ UNCHANGED inFlight

Next == Start \/ Succeed \/ Fail \/ ResetTimeout

Spec == Init /\ [][Next]_<<breaker, inFlight>>
===============================================================================
