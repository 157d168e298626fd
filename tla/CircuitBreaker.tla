---------------------------- MODULE CircuitBreaker ----------------------------
(***************************************************************************)
(* services/circuitBreaker.js with its clock.  Instants are kept as ages,  *)
(* in ticks: the age of _openedAt and of every entry of _calls.  The agent *)
(* has one sequential user of the breaker (the sync worker's tick, guarded *)
(* by `running'), so at most one call is in flight.                        *)
(***************************************************************************)
EXTENDS Integers, Sequences, FiniteSets

CONSTANTS FailureThreshold, MinRequests,
          WindowTicks,   \* windowMs
          ResetTicks,    \* resetTimeoutMs
          MaxCalls       \* bound: calls recorded within one window

ASSUME TimingAssumption ==
  /\ FailureThreshold \in 0..100
  /\ MinRequests \in Nat \ {0}
  /\ WindowTicks \in Nat \ {0}
  /\ ResetTicks \in Nat \ {0}

VARIABLES state,     \* _state
          openedAge, \* now - _openedAt, counted up to ResetTicks
          calls,     \* _calls: [age, ok], oldest first
          inFlight   \* fn of a call has started and not settled

vars == <<state, openedAge, calls, inFlight>>

Ops == INSTANCE BreakerOps

Outcomes(cs) == [i \in DOMAIN cs |-> cs[i].ok]

\* How many calls the window has left behind: the array is in the order of
\* the calls, so that they are its first ones.
Stale(cs) == Cardinality({i \in DOMAIN cs : cs[i].age >= WindowTicks})

Fresh(cs) == SubSeq(cs, Stale(cs) + 1, Len(cs))

\* Mutant of AddCall: the window is not pruned.
AddCallUnpruned(ok) == Append(calls, [age |-> 0, ok |-> ok])

\* _addCall: push, then filter what the window has left behind.
AddCall(ok) == Fresh(Append(calls, [age |-> 0, ok |-> ok]))

Call == [age : 0..WindowTicks, ok : BOOLEAN]

OldestFirst(cs) == \A i, j \in DOMAIN cs : i <= j => cs[i].age >= cs[j].age

TypeOK ==
  /\ state \in Ops!BreakerStates
  /\ openedAge \in 0..ResetTicks
  /\ calls \in Seq(Call) /\ OldestFirst(calls)
  /\ inFlight \in BOOLEAN

Init ==
  /\ state = "CLOSED"
  /\ openedAge = 0
  /\ calls = <<>>
  /\ inFlight = FALSE

\* Mutant of TripOpen: the window survives the trip.
TripOpenKeepsCalls ==
  /\ state' = "OPEN"
  /\ openedAge' = 0
  /\ calls' = AddCall(FALSE)

\* _transition(OPEN): the timeout restarts and the window is emptied.
TripOpen ==
  /\ state' = "OPEN"
  /\ openedAge' = 0
  /\ calls' = <<>>

\* Mutant of Start: an OPEN breaker is left to reset by itself.
StartUnlessOpen ==
  /\ ~inFlight
  /\ Len(Fresh(calls)) < MaxCalls
  /\ state # "OPEN"
  /\ inFlight' = TRUE
  /\ UNCHANGED <<state, openedAge, calls>>

\* call(fn) up to the await: _maybeTransitionFromOpen, then fn unless OPEN.
\* A blocked call throws and changes nothing.
Start ==
  /\ ~inFlight
  /\ Len(Fresh(calls)) < MaxCalls
  /\ \/ state # "OPEN" /\ UNCHANGED state
     \/ state = "OPEN" /\ openedAge >= ResetTicks /\ state' = "HALF"
  /\ inFlight' = TRUE
  /\ UNCHANGED <<openedAge, calls>>

\* Mutant of Succeed: the probe's success does not close the breaker.
SucceedStaysHalf ==
  /\ inFlight
  /\ inFlight' = FALSE
  /\ calls' = AddCall(TRUE)
  /\ UNCHANGED <<state, openedAge>>

\* fn resolved: _recordSuccess.
Succeed ==
  /\ inFlight
  /\ inFlight' = FALSE
  /\ IF state = "HALF"
     THEN state' = "CLOSED" /\ calls' = <<>> /\ openedAge' = 0
     ELSE calls' = AddCall(TRUE) /\ UNCHANGED <<state, openedAge>>

\* fn rejected: _recordFailure.
Fail ==
  /\ inFlight
  /\ inFlight' = FALSE
  /\ IF state = "HALF"
        \/ (state = "CLOSED" /\ Ops!ShouldOpen(Outcomes(AddCall(FALSE))))
     THEN TripOpen
     ELSE calls' = AddCall(FALSE) /\ UNCHANGED <<state, openedAge>>

\* Mutant of Older: no limit.
OlderForEver(age, limit) == age + 1

\* An age is counted up to the limit beyond which it makes no difference.
Older(age, limit) == IF age < limit THEN age + 1 ELSE age

Tick ==
  /\ openedAge' = IF state = "CLOSED" THEN 0 ELSE Older(openedAge, ResetTicks)
  /\ calls' = [i \in DOMAIN calls |->
                 [calls[i] EXCEPT !.age = Older(@, WindowTicks)]]
  /\ UNCHANGED <<state, inFlight>>

Next == Start \/ Succeed \/ Fail \/ Tick

Spec == Init /\ [][Next]_vars

\* The clock runs, a started call settles, and the user keeps calling.
FairSpec ==
  Spec /\ WF_vars(Tick) /\ WF_vars(Start) /\ WF_vars(Succeed \/ Fail)

(***************************************************************************)
(* Properties                                                              *)
(***************************************************************************)

\* HALF is only ever a probe under way: it never outlives the call that
\* entered it, so no second call can slip through on an unproven cloud.
HalfIsAProbe == state = "HALF" => inFlight

\* A trip out of CLOSED rests on calls of the current window only: enough of
\* them, and a failing share that rounds to at least the threshold, whatever
\* older calls the array still holds.
TripsOnRecentCalls ==
  [][state = "CLOSED" /\ state' = "OPEN" =>
       LET recent == {i \in DOMAIN calls : calls[i].age < WindowTicks}
           failed == {i \in recent : ~calls[i].ok}
       IN  /\ Cardinality(recent) + 1 >= MinRequests
           /\ 200 * (Cardinality(failed) + 1) >=
                (2 * FailureThreshold - 1) * (Cardinality(recent) + 1)]_vars

\* A breaker whose user keeps calling never stays OPEN: a probe follows.
OpenIsProbed == state = "OPEN" ~> state = "HALF"

\* The timed breaker implements the clock-free one.
Contract == INSTANCE BreakerContract WITH
  breaker <- [state |-> state,
              elapsed |-> state # "CLOSED" /\ openedAge >= ResetTicks,
              calls |-> Outcomes(calls)]

ImplementsContract == Contract!Spec
===============================================================================
