----------------------------- MODULE BreakerProofs -----------------------------
(***************************************************************************)
(* Proofs about CircuitBreaker, for every threshold, window and timeout    *)
(* and any number of calls in a window: what a trip rests on, and that the *)
(* breaker implements BreakerContract.                                     *)
(***************************************************************************)
EXTENDS CircuitBreaker, FiniteSetTheorems, SequenceTheorems, TLAPS

(***************************************************************************)
(* Counting the calls of a window                                          *)
(***************************************************************************)

\* A set of numbers that has, with a number, all smaller ones, is counted by
\* its largest.
LEMMA CountedFromOne ==
  ASSUME NEW n \in Nat, NEW S \in SUBSET (1..n),
         \A i \in S, j \in 1..n : j <= i => j \in S
  PROVE  Cardinality(S) \in 0..n /\ S = 1..Cardinality(S)
<1>1. IsFiniteSet(1..n) /\ Cardinality(1..n) = n
  BY FS_Interval
<1>2. IsFiniteSet(S) /\ Cardinality(S) \in 0..n
  <2>1. IsFiniteSet(S) /\ Cardinality(S) <= n
    BY <1>1, FS_Subset
  <2>2. Cardinality(S) \in Nat
    BY <2>1, FS_CardinalityType
  <2> QED
    BY <2>1, <2>2
<1>3. ASSUME NEW i \in S PROVE i <= Cardinality(S)
  <2>1. 1..i \subseteq S /\ Cardinality(1..i) = i
    BY FS_Interval
  <2> QED
    BY <1>2, <2>1, FS_Subset
<1> DEFINE m == Cardinality(S)
<1>4. S \subseteq 1..m /\ IsFiniteSet(1..m) /\ Cardinality(1..m) = m
  <2>1. m \in Nat
    BY <1>2
  <2> QED
    BY <1>3, <2>1, FS_Interval
<1> QED
  BY <1>2, <1>4, FS_Subset

\* The ages in a sequence of calls are numbers.
LEMMA Ages ==
  ASSUME NEW cs \in Seq(Call)
  PROVE  \A i \in 1..Len(cs) : cs[i] \in Call /\ cs[i].age \in 0..WindowTicks /\ cs[i].age \in Nat
<1>1. \A c \in Call : c.age \in 0..WindowTicks /\ c.age \in Nat
  BY TimingAssumption DEF Call
<1>2. \A i \in 1..Len(cs) : cs[i] \in Call
  BY ElementOfSeq
<1> QED
  BY <1>1, <1>2

\* In an array that is oldest first the stale calls are the first ones.
LEMMA StaleFirst ==
  ASSUME NEW cs \in Seq(Call), OldestFirst(cs)
  PROVE  /\ Stale(cs) \in 0..Len(cs)
         /\ \A i \in 1..Len(cs) : i <= Stale(cs) <=> cs[i].age >= WindowTicks
<1> DEFINE S == {i \in 1..Len(cs) : cs[i].age >= WindowTicks}
<1>1. Len(cs) \in Nat /\ DOMAIN cs = 1..Len(cs)
  BY LenProperties
<1>2. \A i \in 1..Len(cs) : cs[i].age \in Nat
  BY Ages
<1>3. \A i \in S, j \in 1..Len(cs) : j <= i => j \in S
  BY <1>1, <1>2, TimingAssumption DEF OldestFirst
<1>4. Cardinality(S) \in 0..Len(cs) /\ S = 1..Cardinality(S)
  BY <1>1, <1>3, CountedFromOne
<1>5. Stale(cs) = Cardinality(S)
  BY <1>1 DEF Stale
<1> HIDE DEF S
<1>6. \A i \in 1..Len(cs) : i \in S <=> i <= Stale(cs)
  BY <1>1, <1>4, <1>5
<1> QED
  BY <1>4, <1>5, <1>6 DEF S

\* Recording a call: what the window has left behind goes, the call comes last.
LEMMA CallRecorded ==
  ASSUME calls \in Seq(Call), OldestFirst(calls), NEW ok \in BOOLEAN
  PROVE  \E k \in 0..Len(calls) :
           /\ \A i \in 1..Len(calls) : i <= k <=> calls[i].age >= WindowTicks
           /\ AddCall(ok) \in Seq(Call)
           /\ OldestFirst(AddCall(ok))
           /\ Len(AddCall(ok)) = Len(calls) + 1 - k
           /\ \A i \in 1..(Len(calls) - k) : AddCall(ok)[i] = calls[k + i]
           /\ AddCall(ok)[Len(calls) + 1 - k] = [age |-> 0, ok |-> ok]
<1> DEFINE new == [age |-> 0, ok |-> ok]
           n == Len(calls)
           cs == Append(calls, new)
           k == Stale(cs)
           kept == SubSeq(cs, k + 1, n + 1)
<1>1. new \in Call /\ new.age = 0
  BY TimingAssumption DEF Call
<1> HIDE DEF new
<1>2. n \in Nat /\ DOMAIN calls = 1..n
  BY LenProperties
<1>3. /\ cs \in Seq(Call) /\ Len(cs) = n + 1
      /\ \A i \in 1..n : cs[i] = calls[i]
      /\ cs[n + 1] = new
  BY <1>1, AppendProperties
<1>4. DOMAIN cs = 1..(n + 1)
  BY <1>3, LenProperties
<1> HIDE DEF cs
<1>5. \A i \in 1..(n + 1) : cs[i].age \in Nat
  BY <1>3, Ages
<1>6. OldestFirst(cs)
  BY <1>1, <1>2, <1>3, <1>4, <1>5 DEF OldestFirst
<1>7. k \in 0..(n + 1) /\ \A i \in 1..(n + 1) : i <= k <=> cs[i].age >= WindowTicks
  BY <1>3, <1>6, StaleFirst
<1> HIDE DEF k
<1>8. k \in 0..n
  BY <1>1, <1>2, <1>3, <1>7, TimingAssumption
<1>9. AddCall(ok) = kept
  BY <1>3 DEF AddCall, Fresh, new, cs, k
<1>10. /\ kept \in Seq(Call)
       /\ Len(kept) = n + 1 - k
       /\ \A i \in 1..(n + 1 - k) : kept[i] = cs[k + i]
  <2>1. \A i \in (k + 1)..(n + 1) : cs[i] \in Call
    BY <1>2, <1>3, <1>4, <1>8
  <2> QED
    BY <1>2, <1>8, <2>1, SubSeqProperties
<1> HIDE DEF kept
<1>11. OldestFirst(kept)
  <2>1. DOMAIN kept = 1..(n + 1 - k)
    BY <1>10, LenProperties
  <2>2. ASSUME NEW i \in 1..(n + 1 - k), NEW j \in 1..(n + 1 - k), i <= j
        PROVE  kept[i].age >= kept[j].age
    <3>1. k + i \in 1..(n + 1) /\ k + j \in 1..(n + 1) /\ k + i <= k + j
      BY <1>2, <1>8, <2>2
    <3>2. cs[k + i].age >= cs[k + j].age
      BY <1>4, <1>6, <3>1 DEF OldestFirst
    <3> QED
      BY <1>10, <3>2
  <2> QED
    BY <2>1, <2>2 DEF OldestFirst
<1>12. \A i \in 1..n : i <= k <=> calls[i].age >= WindowTicks
  BY <1>2, <1>3, <1>7
<1>13. \A i \in 1..(n - k) : kept[i] = calls[k + i]
  BY <1>2, <1>3, <1>8, <1>10
<1>14. kept[n + 1 - k] = new
  BY <1>2, <1>3, <1>8, <1>10
<1> QED
  BY <1>8, <1>9, <1>10, <1>11, <1>12, <1>13, <1>14 DEF new

(***************************************************************************)
(* Types                                                                   *)
(***************************************************************************)

\* A tick makes every call a tick older and keeps their order.
LEMMA TickAges ==
  ASSUME TypeOK, Tick
  PROVE  /\ calls' \in Seq(Call) /\ OldestFirst(calls')
         /\ Len(calls') = Len(calls) /\ DOMAIN calls' = DOMAIN calls
         /\ \A i \in DOMAIN calls : calls'[i].ok = calls[i].ok
<1>1. DOMAIN calls = 1..Len(calls) /\ Len(calls) \in Nat
  BY LenProperties DEF TypeOK
<1>2. calls' = [i \in 1..Len(calls) |-> [calls[i] EXCEPT !.age = Older(@, WindowTicks)]]
  BY <1>1 DEF Tick
<1>3. \A i \in 1..Len(calls) : /\ calls[i] \in Call /\ calls[i].age \in 0..WindowTicks
                               /\ calls[i].age \in Nat
  BY Ages DEF TypeOK
<1>4. \A i \in 1..Len(calls) : /\ calls'[i] \in Call
                               /\ calls'[i].age = Older(calls[i].age, WindowTicks)
                               /\ calls'[i].ok = calls[i].ok
  BY <1>2, <1>3, TimingAssumption DEF Call, Older
<1>5. calls' \in [1..Len(calls) -> Call]
  BY <1>2, <1>4
<1>6. calls' \in Seq(Call) /\ Len(calls') = Len(calls) /\ DOMAIN calls' = 1..Len(calls)
  BY <1>1, <1>5
<1>7. ASSUME NEW i \in 1..Len(calls), NEW j \in 1..Len(calls), i <= j
      PROVE  calls'[i].age >= calls'[j].age
  <2>1. calls[i].age >= calls[j].age
    BY <1>1, <1>7 DEF TypeOK, OldestFirst
  <2> QED
    BY <1>3, <1>4, <2>1, TimingAssumption DEF Older
<1> QED
  BY <1>1, <1>4, <1>6, <1>7 DEF OldestFirst

\* The breaker's variables stay well formed; _calls stands in the order of the
\* calls, so that what a window has left behind is always at its front.
THEOREM BreakerTypes == Spec => []TypeOK
<1>1. Init => TypeOK
  <2> SUFFICES ASSUME Init PROVE TypeOK
    OBVIOUS
  <2>1. calls \in Seq(Call) /\ OldestFirst(calls)
    BY EmptySeq DEF Init, OldestFirst
  <2>2. state \in Ops!BreakerStates /\ openedAge \in 0..ResetTicks
    BY TimingAssumption DEF Init, Ops!BreakerStates
  <2>3. inFlight \in BOOLEAN
    BY DEF Init
  <2> QED
    BY <2>1, <2>2, <2>3 DEF TypeOK
<1>2. TypeOK /\ [Next]_vars => TypeOK'
  <2> SUFFICES ASSUME TypeOK, [Next]_vars
               PROVE  TypeOK'
    OBVIOUS
  <2>0. state \in Ops!BreakerStates /\ openedAge \in 0..ResetTicks
    BY DEF TypeOK
  <2>1. ASSUME NEW ok \in BOOLEAN, calls' = AddCall(ok)
        PROVE  (calls \in Seq(Call) /\ OldestFirst(calls))'
    <3>1. AddCall(ok) \in Seq(Call) /\ OldestFirst(AddCall(ok))
      BY CallRecorded DEF TypeOK
    <3> QED
      BY <2>1, <3>1 DEF OldestFirst
  <2>2. calls' = <<>> => (calls \in Seq(Call) /\ OldestFirst(calls))'
    BY EmptySeq DEF OldestFirst
  <2>3. CASE Start
    BY <2>3 DEF Start, TypeOK, Ops!BreakerStates
  <2>4. CASE Succeed
    <3>1. (calls \in Seq(Call) /\ OldestFirst(calls))'
      BY <2>1, <2>2, <2>4 DEF Succeed
    <3>2. state' \in Ops!BreakerStates /\ openedAge' \in 0..ResetTicks
      <4>1. (state' = "CLOSED" /\ openedAge' = 0) \/ (state' = state /\ openedAge' = openedAge)
        BY <2>4 DEF Succeed
      <4> QED
        BY <2>0, <4>1, TimingAssumption DEF Ops!BreakerStates
    <3>3. inFlight' \in BOOLEAN
      BY <2>4 DEF Succeed
    <3> QED
      BY <3>1, <3>2, <3>3 DEF TypeOK
  <2>5. CASE Fail
    <3>1. (calls \in Seq(Call) /\ OldestFirst(calls))'
      BY <2>1, <2>2, <2>5 DEF Fail, TripOpen
    <3>2. state' \in Ops!BreakerStates /\ openedAge' \in 0..ResetTicks
      <4>1. (state' = "OPEN" /\ openedAge' = 0) \/ (state' = state /\ openedAge' = openedAge)
        BY <2>5 DEF Fail, TripOpen
      <4> QED
        BY <2>0, <4>1, TimingAssumption DEF Ops!BreakerStates
    <3>3. inFlight' \in BOOLEAN
      BY <2>5 DEF Fail
    <3> QED
      BY <3>1, <3>2, <3>3 DEF TypeOK
  <2>6. CASE Tick
    <3>1. openedAge' \in 0..ResetTicks
      BY <2>6, TimingAssumption DEF Tick, Older, TypeOK
    <3>2. (calls \in Seq(Call) /\ OldestFirst(calls))'
      BY <2>6, TickAges
    <3> QED
      BY <2>6, <3>1, <3>2 DEF Tick, TypeOK
  <2>7. CASE UNCHANGED vars
    BY <2>7 DEF vars, TypeOK, OldestFirst
  <2> QED BY <2>3, <2>4, <2>5, <2>6, <2>7 DEF Next
<1> QED BY <1>1, <1>2, PTL DEF Spec

\* HALF never outlives the call that probes the cloud: call() enters it just
\* before fn starts, and _recordSuccess and _recordFailure both leave it.
THEOREM HalfIsAlwaysAProbe == Spec => []HalfIsAProbe
<1>1. Init => HalfIsAProbe
  BY DEF Init, HalfIsAProbe
<1>2. HalfIsAProbe /\ [Next]_vars => HalfIsAProbe'
  <2> SUFFICES ASSUME HalfIsAProbe, [Next]_vars
               PROVE  HalfIsAProbe'
    OBVIOUS
  <2> USE DEF HalfIsAProbe
  <2>1. CASE Start
    BY <2>1 DEF Start
  <2>2. CASE Succeed
    BY <2>2 DEF Succeed
  <2>3. CASE Fail
    BY <2>3 DEF Fail, TripOpen
  <2>4. CASE Tick
    BY <2>4 DEF Tick
  <2>5. CASE UNCHANGED vars
    BY <2>5 DEF vars
  <2> QED BY <2>1, <2>2, <2>3, <2>4, <2>5 DEF Next
<1> QED BY <1>1, <1>2, PTL DEF Spec

(***************************************************************************)
(* Trips                                                                   *)
(***************************************************************************)

\* A rounded share that reaches the threshold is at least half a point below
\* it at most.
LEMMA ShareReached ==
  ASSUME NEW f \in Nat, NEW l \in Nat \ {0}, NEW t \in Nat,
         (200 * f + l) \div (2 * l) >= t
  PROVE  200 * f >= (2 * t - 1) * l
<1> DEFINE a == 200 * f + l
           d == 2 * l
           q == a \div d
<1>1. a \in Nat /\ d \in Nat \ {0}
  OBVIOUS
<1> HIDE DEF a, d
<1>2. q \in Nat /\ d * q <= a
  BY <1>1
<1>3. q >= t
  BY DEF a, d
<1> HIDE DEF q
<1>4. d * t <= d * q /\ d * t \in Int /\ d * q \in Int
  BY <1>1, <1>2, <1>3
<1>5. d * t <= a
  BY <1>1, <1>2, <1>4
<1> QED
  BY <1>5 DEF a, d

\* With one more failure recorded the window holds the recent calls and that
\* one, and as many failures more.
LEMMA RecentCalls ==
  ASSUME calls \in Seq(Call), OldestFirst(calls)
  PROVE  LET recent == {i \in DOMAIN calls : calls[i].age < WindowTicks}
             failed == {i \in recent : ~calls[i].ok}
             seen   == Outcomes(AddCall(FALSE))
         IN  /\ Cardinality(recent) \in Nat /\ Cardinality(failed) \in Nat
             /\ Len(seen) = Cardinality(recent) + 1
             /\ Ops!Failures(seen) = Cardinality(failed) + 1
<1> DEFINE recent == {i \in DOMAIN calls : calls[i].age < WindowTicks}
           failed == {i \in recent : ~calls[i].ok}
           cs == AddCall(FALSE)
           seen == Outcomes(cs)
           n == Len(calls)
<1>1. n \in Nat /\ DOMAIN calls = 1..n /\ (\A i \in 1..n : calls[i].age \in Nat)
  BY LenProperties, Ages
<1>2. PICK k \in 0..n :
        /\ \A i \in 1..n : i <= k <=> calls[i].age >= WindowTicks
        /\ cs \in Seq(Call)
        /\ Len(cs) = n + 1 - k
        /\ \A i \in 1..(n - k) : cs[i] = calls[k + i]
        /\ cs[n + 1 - k] = [age |-> 0, ok |-> FALSE]
  BY CallRecorded
<1> HIDE DEF n, cs
<1> DEFINE m == n - k
<1>3. m \in Nat /\ DOMAIN cs = 1..(m + 1) /\ Len(cs) = m + 1
  BY <1>1, <1>2, LenProperties
<1>4. recent = (k + 1)..n
  BY <1>1, <1>2, TimingAssumption
<1>5. IsFiniteSet(recent) /\ Cardinality(recent) = m
  <2>1. k + 1 \in Int /\ n \in Int
    BY <1>1, <1>2
  <2>2. IsFiniteSet((k + 1)..n) /\ Cardinality((k + 1)..n) = IF k + 1 > n THEN 0 ELSE n - (k + 1) + 1
    BY <2>1, FS_Interval
  <2>3. (IF k + 1 > n THEN 0 ELSE n - (k + 1) + 1) = n - k
    BY <1>1, <1>2
  <2> QED
    BY <1>4, <2>2, <2>3
<1>6. IsFiniteSet(failed) /\ Cardinality(failed) \in Nat
  <2>1. IsFiniteSet(failed)
    BY <1>5, FS_Subset
  <2> QED
    BY <2>1, FS_CardinalityType
<1> DEFINE now  == {j \in 1..(m + 1) : ~cs[j].ok}
           then == failed \cup {n + 1}
<1>7. n + 1 \notin failed
  BY <1>1, <1>4
<1>8. IsFiniteSet(then) /\ Cardinality(then) = Cardinality(failed) + 1
  BY <1>6, <1>7, FS_AddElement
<1>9. \A j \in 1..(m + 1) : j \in now <=> k + j \in then
  <2>1. ASSUME NEW j \in 1..m PROVE j \in now <=> k + j \in then
    <3>1. cs[j] = calls[k + j] /\ k + j \in (k + 1)..n /\ k + j # n + 1 /\ j \in 1..(m + 1)
      BY <1>1, <1>2
    <3> QED
      BY <1>4, <3>1
  <2>2. m + 1 \in now /\ k + (m + 1) \in then
    BY <1>1, <1>2, <1>3
  <2>3. \A j \in 1..(m + 1) : j \in 1..m \/ j = m + 1
    BY <1>3
  <2> QED
    BY <2>1, <2>2, <2>3
<1>10. Cardinality(now) = Cardinality(then)
  <2> DEFINE shift == [i \in then |-> i - k]
  <2>1. \A i \in then : i \in (k + 1)..(n + 1) /\ i - k \in 1..(m + 1) /\ k + (i - k) = i
    BY <1>1, <1>4
  <2>2. \A i \in then : i - k \in now
    BY <1>9, <2>1
  <2>3. \A j \in now : k + j \in then /\ (k + j) - k = j
    BY <1>1, <1>9
  <2>4. \A i, j \in then : i - k = j - k => i = j
    BY <2>1
  <2> HIDE DEF then, now
  <2>5. shift \in Bijection(then, now)
    <3>1. shift \in [then -> now]
      BY <2>2
    <3>2. \A i, j \in then : shift[i] = shift[j] => i = j
      BY <2>4
    <3>3. \A j \in now : \E i \in then : shift[i] = j
      BY <2>3
    <3> QED
      BY <3>1, <3>2, <3>3 DEF Bijection, Injection, Surjection, IsInjective
  <2>6. ExistsBijection(then, now)
    BY <2>5 DEF ExistsBijection
  <2> QED
    BY <1>8, <2>6, FS_Bijection
<1>11. /\ DOMAIN seen = 1..(m + 1)
       /\ \A j \in 1..(m + 1) : seen[j] = cs[j].ok
  BY <1>3 DEF Outcomes
<1>12. Len(seen) = m + 1
  BY <1>3, <1>11
<1>13. {j \in DOMAIN seen : ~seen[j]} = now
  BY <1>11
<1>14. Ops!Failures(seen) = Cardinality(now)
  BY <1>13 DEF Ops!Failures, Ops!Cardinality, Cardinality
<1> QED
  BY <1>5, <1>6, <1>8, <1>10, <1>12, <1>14, <1>3 DEF cs

\* The breaker trips out of CLOSED on the calls of the current window alone,
\* enough of them and with the failing share the threshold asks for: what
\* _addCall leaves in the array is what happened within windowMs.
THEOREM TripsAreRecent == Spec => TripsOnRecentCalls
<1>1. ASSUME TypeOK, [Next]_vars, state = "CLOSED", state' = "OPEN"
      PROVE  LET recent == {i \in DOMAIN calls : calls[i].age < WindowTicks}
                 failed == {i \in recent : ~calls[i].ok}
             IN  /\ Cardinality(recent) + 1 >= MinRequests
                 /\ 200 * (Cardinality(failed) + 1) >=
                      (2 * FailureThreshold - 1) * (Cardinality(recent) + 1)
  <2> DEFINE recent == {i \in DOMAIN calls : calls[i].age < WindowTicks}
             failed == {i \in recent : ~calls[i].ok}
             seen   == Outcomes(AddCall(FALSE))
             l == Cardinality(recent) + 1
             f == Cardinality(failed) + 1
  <2>1. Fail
    BY <1>1 DEF Next, Start, Succeed, Tick, vars
  <2>2. Ops!ShouldOpen(seen)
    BY <1>1, <2>1 DEF Fail
  <2>3. /\ Cardinality(recent) \in Nat /\ Cardinality(failed) \in Nat
        /\ Len(seen) = l /\ Ops!Failures(seen) = f
    BY <1>1, RecentCalls DEF TypeOK
  <2> HIDE DEF recent, failed, seen
  <2>4. l \in Nat \ {0} /\ f \in Nat /\ seen # <<>>
    BY <2>3
  <2> HIDE DEF l, f
  <2>5. l >= MinRequests /\ (200 * f + l) \div (2 * l) >= FailureThreshold
    BY <2>2, <2>3, <2>4 DEF Ops!ShouldOpen, Ops!FailureRate
  <2>6. 200 * f >= (2 * FailureThreshold - 1) * l
    BY <2>4, <2>5, ShareReached, TimingAssumption
  <2> QED
    BY <2>5, <2>6 DEF l, f, recent, failed
<1> QED BY <1>1, BreakerTypes, PTL DEF Spec, TripsOnRecentCalls

(***************************************************************************)
(* The clock-free breaker                                                  *)
(***************************************************************************)

\* A probe starts once the reset timeout has gone by, and ends in another
\* state.
ProbeIsLate == state = "HALF" => openedAge >= ResetTicks

\* HALF is entered only then, and the age of a trip only grows while it lasts.
LEMMA ProbesAreLate == Spec => []ProbeIsLate
<1>1. Init => ProbeIsLate
  BY DEF Init, ProbeIsLate
<1>2. TypeOK /\ ProbeIsLate /\ [Next]_vars => ProbeIsLate'
  <2> SUFFICES ASSUME TypeOK, ProbeIsLate, [Next]_vars
               PROVE  ProbeIsLate'
    OBVIOUS
  <2>0. openedAge \in 0..ResetTicks
    BY DEF TypeOK
  <2> USE DEF ProbeIsLate
  <2>1. CASE Start
    BY <2>1 DEF Start
  <2>2. CASE Succeed
    BY <2>2 DEF Succeed
  <2>3. CASE Fail
    BY <2>3 DEF Fail, TripOpen
  <2>4. CASE Tick
    BY <2>0, <2>4, TimingAssumption DEF Tick, Older
  <2>5. CASE UNCHANGED vars
    BY <2>5 DEF vars
  <2> QED BY <2>1, <2>2, <2>3, <2>4, <2>5 DEF Next
<1> QED BY <1>1, <1>2, BreakerTypes, PTL DEF Spec

\* What a window leaves behind when a call is recorded are its first calls:
\* the outcomes are those the contract allows.
LEMMA OutcomesRecorded ==
  ASSUME TypeOK, NEW ok \in BOOLEAN
  PROVE  \E old \in 0..Len(Outcomes(calls)) :
           Outcomes(AddCall(ok)) = Contract!AddCall(Outcomes(calls), ok, old)
<1> DEFINE n == Len(calls)
           cs == AddCall(ok)
           was == Outcomes(calls)
           now == Outcomes(cs)
<1>1. n \in Nat /\ DOMAIN calls = 1..n
  BY LenProperties DEF TypeOK
<1>2. PICK k \in 0..n :
        /\ cs \in Seq(Call)
        /\ Len(cs) = n + 1 - k
        /\ \A i \in 1..(n - k) : cs[i] = calls[k + i]
        /\ cs[n + 1 - k] = [age |-> 0, ok |-> ok]
  BY CallRecorded DEF TypeOK
<1>3. DOMAIN cs = 1..(n + 1 - k)
  BY <1>2, LenProperties
<1>4. \A c \in Call : c.ok \in BOOLEAN
  BY DEF Call
<1>5. was = [i \in 1..n |-> calls[i].ok]
  BY <1>1 DEF Outcomes
<1>6. now = [i \in 1..(n + 1 - k) |-> cs[i].ok]
  BY <1>3 DEF Outcomes
<1>7. \A i \in 1..n : calls[i].ok \in BOOLEAN
  BY <1>4, ElementOfSeq DEF TypeOK
<1> HIDE DEF n, cs, was, now
<1>8. was \in Seq(BOOLEAN) /\ Len(was) = n /\ \A i \in 1..n : was[i] = calls[i].ok
  <2>1. was \in [1..n -> BOOLEAN]
    BY <1>5, <1>7
  <2> QED
    BY <1>1, <1>5, <2>1
<1> DEFINE kept == SubSeq(was, k + 1, n)
           want == kept \o <<ok>>
<1>9. /\ kept \in Seq(BOOLEAN) /\ Len(kept) = n - k
      /\ \A i \in 1..(n - k) : kept[i] = was[k + i]
  <2>1. \A i \in (k + 1)..n : was[i] \in BOOLEAN
    BY <1>1, <1>7, <1>8
  <2>2. k + 1 \in Int /\ n \in Int
    BY <1>1
  <2>3. Len(kept) = IF k + 1 <= n THEN n - (k + 1) + 1 ELSE 0
    BY <1>8, <2>1, <2>2, SubSeqProperties
  <2> QED
    BY <1>1, <1>8, <2>1, <2>2, <2>3, SubSeqProperties
<1> HIDE DEF kept
<1>10. <<ok>> \in Seq(BOOLEAN) /\ Len(<<ok>>) = 1 /\ <<ok>>[1] = ok
  OBVIOUS
<1>11. /\ want \in Seq(BOOLEAN) /\ Len(want) = n - k + 1
       /\ \A i \in 1..(n - k) : want[i] = kept[i]
       /\ want[n - k + 1] = ok
  BY <1>1, <1>9, <1>10, ConcatProperties
<1> HIDE DEF want
<1>12. \A i \in 1..(n - k) : now[i] = want[i]
  BY <1>1, <1>2, <1>6, <1>8, <1>9, <1>11
<1>13. now[n + 1 - k] = ok
  <2>1. [age |-> 0, ok |-> ok].ok = ok
    OBVIOUS
  <2> QED
    BY <1>1, <1>2, <1>6, <2>1
<1>14. now = want
  <2>1. DOMAIN want = 1..(n + 1 - k)
    BY <1>1, <1>11, LenProperties
  <2>2. \A i \in 1..(n + 1 - k) : i \in 1..(n - k) \/ i = n + 1 - k
    BY <1>1
  <2>3. \A i \in 1..(n + 1 - k) : now[i] = want[i]
    BY <1>1, <1>11, <1>12, <1>13, <2>2
  <2>4. want = [i \in 1..(n + 1 - k) |-> want[i]]
    <3>1. want \in [1..Len(want) -> BOOLEAN] /\ Len(want) = n + 1 - k
      BY <1>1, <1>11, LenProperties
    <3> QED
      BY <3>1
  <2>5. now = [i \in 1..(n + 1 - k) |-> now[i]]
    BY <1>6
  <2> QED
    BY <2>3, <2>4, <2>5
<1>15. want = Contract!AddCall(was, ok, k)
  BY <1>8 DEF Contract!AddCall, want, kept
<1> QED
  BY <1>8, <1>14, <1>15 DEF was, now, cs


\* A record is updated one field at a time.
FieldsOf(b, st, el, os) ==
  /\ b.state = st /\ b.elapsed = el /\ b.calls = os
  /\ \A x : [b EXCEPT !.state = x] = [state |-> x, elapsed |-> el, calls |-> os]
  /\ \A x : [b EXCEPT !.elapsed = x] = [state |-> st, elapsed |-> x, calls |-> os]
  /\ \A x : [b EXCEPT !.calls = x] = [state |-> st, elapsed |-> el, calls |-> x]

\* Records compare field by field.
LEMMA BreakerFields ==
  ASSUME NEW st, NEW el, NEW os, NEW b,
         b = [state |-> st, elapsed |-> el, calls |-> os]
  PROVE  FieldsOf(b, st, el, os)
  BY DEF FieldsOf

\* The two instances of BreakerOps count failures alike.
LEMMA SameShare ==
  ASSUME NEW cs
  PROVE  Contract!ShouldOpen(cs) <=> Ops!ShouldOpen(cs)
<1>1. Contract!Failures(cs) = Ops!Failures(cs)
  <2>1. \A S : Contract!Cardinality(S) = Cardinality(S)
    BY DEF Contract!Cardinality, Cardinality
  <2>2. \A S : Ops!Cardinality(S) = Cardinality(S)
    BY DEF Ops!Cardinality, Cardinality
  <2> QED
    BY <2>1, <2>2, Zenon DEF Contract!Failures, Ops!Failures
<1>2. Contract!FailureRate(cs) = Ops!FailureRate(cs)
  BY <1>1, Zenon DEF Contract!FailureRate, Ops!FailureRate
<1> QED
  BY <1>2, Zenon DEF Contract!ShouldOpen, Ops!ShouldOpen

\* What the contract's operations make of a breaker, field by field.
StepsOf(b, st, el, os) ==
  /\ Contract!MaybeTransitionFromOpen(b) =
       IF st = "OPEN" /\ el
       THEN [state |-> "HALF", elapsed |-> el, calls |-> os] ELSE b
  /\ Contract!Blocked(b) <=> st = "OPEN" /\ ~el
  /\ \A old : Contract!RecordSuccess(b, old) =
       IF st = "HALF" THEN Contract!NewBreaker
       ELSE [state |-> st, elapsed |-> el, calls |-> Contract!AddCall(os, TRUE, old)]
  /\ \A old : Contract!RecordFailure(b, old) =
       IF \/ st = "HALF"
          \/ st = "CLOSED" /\ Contract!ShouldOpen(Contract!AddCall(os, FALSE, old))
       THEN Contract!OpenBreaker
       ELSE [state |-> st, elapsed |-> el, calls |-> Contract!AddCall(os, FALSE, old)]
  /\ [b EXCEPT !.elapsed = TRUE] = [state |-> st, elapsed |-> TRUE, calls |-> os]

\* So the contract's operations act on a breaker with these three fields.
LEMMA ContractSteps ==
  ASSUME NEW st, NEW el \in BOOLEAN, NEW os, NEW b,
         b = [state |-> st, elapsed |-> el, calls |-> os]
  PROVE  StepsOf(b, st, el, os)
<1>1. FieldsOf(b, st, el, os)
  BY BreakerFields, Zenon
<1>2. /\ b.state = st /\ b.elapsed = el /\ b.calls = os
      /\ [b EXCEPT !.state = "HALF"] = [state |-> "HALF", elapsed |-> el, calls |-> os]
      /\ [b EXCEPT !.elapsed = TRUE] = [state |-> st, elapsed |-> TRUE, calls |-> os]
      /\ \A cs : [b EXCEPT !.calls = cs] = [state |-> st, elapsed |-> el, calls |-> cs]
  BY <1>1, Zenon DEF FieldsOf
<1>3. Contract!MaybeTransitionFromOpen(b) =
        IF st = "OPEN" /\ el
        THEN [state |-> "HALF", elapsed |-> el, calls |-> os] ELSE b
  BY <1>2, Zenon DEF Contract!MaybeTransitionFromOpen
<1>4. Contract!Blocked(b) <=> st = "OPEN" /\ ~el
  <2>1. CASE st = "OPEN" /\ el
    <3>1. Contract!MaybeTransitionFromOpen(b).state = "HALF"
      BY <1>3, <2>1
    <3> QED BY <2>1, <3>1 DEF Contract!Blocked
  <2>2. CASE ~(st = "OPEN" /\ el)
    <3>1. Contract!MaybeTransitionFromOpen(b).state = st
      BY <1>2, <1>3, <2>2, Zenon
    <3> QED BY <2>2, <3>1, Zenon DEF Contract!Blocked
  <2> QED BY <2>1, <2>2
<1>5. \A old : Contract!RecordSuccess(b, old) =
        IF st = "HALF" THEN Contract!NewBreaker
        ELSE [state |-> st, elapsed |-> el, calls |-> Contract!AddCall(os, TRUE, old)]
  BY <1>2, Zenon DEF Contract!RecordSuccess
<1>6. \A old : Contract!RecordFailure(b, old) =
        IF \/ st = "HALF"
           \/ st = "CLOSED" /\ Contract!ShouldOpen(Contract!AddCall(os, FALSE, old))
        THEN Contract!OpenBreaker
        ELSE [state |-> st, elapsed |-> el, calls |-> Contract!AddCall(os, FALSE, old)]
  BY <1>2, Zenon DEF Contract!RecordFailure
<1> QED
  BY <1>2, <1>3, <1>4, <1>5, <1>6, Zenon DEF StepsOf

\* Every call, every tick and every trip of the timed breaker is one the
\* clock-free breaker may make: BreakerContract, which the agent's worker is
\* modelled with, promises nothing the code does not keep.
THEOREM TimedBreakerImplementsContract == Spec => ImplementsContract
<1> DEFINE brk == [state   |-> state,
                   elapsed |-> state # "CLOSED" /\ openedAge >= ResetTicks,
                   calls   |-> Outcomes(calls)]
<1>1. Init => Contract!Init
  <2> SUFFICES ASSUME Init PROVE Contract!Init
    OBVIOUS
  <2>1. Outcomes(calls) = <<>>
    BY DEF Init, Outcomes
  <2>2. (state # "CLOSED" /\ openedAge >= ResetTicks) = FALSE
    BY DEF Init
  <2> QED
    BY <2>1, <2>2 DEF Init, Contract!Init, Contract!NewBreaker
<1>2. ASSUME TypeOK, ProbeIsLate, [Next]_vars
      PROVE  Contract!Next \/ UNCHANGED <<brk, inFlight>>
  <2> DEFINE el == state # "CLOSED" /\ openedAge >= ResetTicks
             os == Outcomes(calls)
  <2>0. state \in {"CLOSED", "OPEN", "HALF"} /\ openedAge \in 0..ResetTicks
    BY <1>2 DEF TypeOK, Ops!BreakerStates
  <2>1. /\ brk = [state |-> state, elapsed |-> el, calls |-> os]
        /\ brk' = [state |-> state', elapsed |-> el', calls |-> os']
        /\ brk.state = state /\ brk.elapsed = el /\ brk.calls = os
        /\ el \in BOOLEAN /\ el' \in BOOLEAN
    OBVIOUS
  <2>2. UNCHANGED calls => os' = os
    BY DEF Outcomes
  <2> HIDE DEF brk, os, el
  <2>3. StepsOf(brk, state, el, os)
    BY <2>1, ContractSteps, Zenon
  <2>4. CASE Start
    <3>1. os' = os /\ ~inFlight /\ inFlight' = TRUE
      BY <2>2, <2>4 DEF Start
    <3>2. ~(state = "OPEN" /\ ~el)
      BY <2>4 DEF Start, el
    <3>3. brk' = Contract!MaybeTransitionFromOpen(brk)
      <4>1. CASE state # "OPEN"
        <5>1. state' = state /\ el' = el
          BY <2>4, <4>1 DEF Start, el
        <5> QED
          BY <2>1, <2>3, <3>1, <4>1, <5>1, Zenon DEF StepsOf
      <4>2. CASE state = "OPEN"
        <5>1. state' = "HALF" /\ el /\ el' = el
          BY <2>4, <4>2 DEF Start, el
        <5> QED
          BY <2>1, <2>3, <3>1, <4>2, <5>1, Zenon DEF StepsOf
      <4> QED BY <4>1, <4>2
    <3>4. ~Contract!Blocked(brk)
      BY <2>3, <3>2, Zenon DEF StepsOf
    <3>5. Contract!Start
      BY <3>1, <3>3, <3>4, Zenon DEF Contract!Start, brk, os
    <3> QED
      BY <3>5 DEF Contract!Next
  <2>5. CASE Succeed
    <3>1. inFlight /\ inFlight' = FALSE
      BY <2>5 DEF Succeed
    <3>2. PICK old \in 0..Len(os) : Outcomes(AddCall(TRUE)) = Contract!AddCall(os, TRUE, old)
      BY <1>2, OutcomesRecorded DEF os
    <3>3. brk' = Contract!RecordSuccess(brk, old)
      <4>1. CASE state = "HALF"
        <5>1. state' = "CLOSED" /\ os' = <<>>
          BY <2>5, <4>1 DEF Succeed, os, Outcomes
        <5>2. el' = FALSE
          BY <5>1 DEF el
        <5>3. brk' = Contract!NewBreaker
          BY <2>1, <5>1, <5>2, Zenon DEF Contract!NewBreaker
        <5> QED
          BY <2>3, <4>1, <5>3, Zenon DEF StepsOf
      <4>2. CASE state # "HALF"
        <5>1. state' = state /\ openedAge' = openedAge /\ calls' = AddCall(TRUE)
          BY <2>5, <4>2 DEF Succeed
        <5>2. el' = el
          BY <5>1 DEF el
        <5>3. os' = Contract!AddCall(os, TRUE, old)
          <6>1. os' = Outcomes(AddCall(TRUE))
            BY <5>1 DEF os, Outcomes
          <6> QED BY <3>2, <6>1
        <5> QED
          BY <2>1, <2>3, <4>2, <5>1, <5>2, <5>3, Zenon DEF StepsOf
      <4> QED BY <4>1, <4>2
    <3>4. brk.calls = os
      BY <2>1
    <3>5. Contract!Succeed
      BY <3>1, <3>2, <3>3, <3>4, Zenon DEF Contract!Succeed, brk, os
    <3> QED
      BY <3>5 DEF Contract!Next
  <2>6. CASE Fail
    <3>1. inFlight /\ inFlight' = FALSE
      BY <2>6 DEF Fail
    <3> DEFINE trips == Ops!ShouldOpen(Outcomes(AddCall(FALSE)))
    <3>2. PICK old \in 0..Len(os) : Outcomes(AddCall(FALSE)) = Contract!AddCall(os, FALSE, old)
      BY <1>2, OutcomesRecorded DEF os
    <3>3. Contract!ShouldOpen(Contract!AddCall(os, FALSE, old)) <=> trips
      BY <3>2, SameShare, Zenon
    <3>4. brk' = Contract!RecordFailure(brk, old)
      <4>1. CASE state = "HALF" \/ (state = "CLOSED" /\ trips)
        <5>1. state' = "OPEN" /\ openedAge' = 0 /\ os' = <<>>
          <6>1. TripOpen
            BY <2>6, <4>1, Zenon DEF Fail
          <6> QED
            BY <6>1 DEF TripOpen, os, Outcomes
        <5>2. el' = FALSE
          BY <5>1, TimingAssumption DEF el
        <5>3. brk' = Contract!OpenBreaker
          BY <2>1, <5>1, <5>2, Zenon DEF Contract!OpenBreaker
        <5> HIDE DEF trips
        <5> QED
          BY <2>3, <3>3, <4>1, <5>3, Zenon DEF StepsOf
      <4>2. CASE ~(state = "HALF" \/ (state = "CLOSED" /\ trips))
        <5>1. state' = state /\ openedAge' = openedAge /\ calls' = AddCall(FALSE)
          BY <2>6, <4>2 DEF Fail
        <5>2. el' = el
          BY <5>1 DEF el
        <5>3. os' = Contract!AddCall(os, FALSE, old)
          <6>1. os' = Outcomes(AddCall(FALSE))
            BY <5>1 DEF os, Outcomes
          <6> QED BY <3>2, <6>1
        <5> HIDE DEF trips
        <5> QED
          BY <2>1, <2>3, <3>3, <4>2, <5>1, <5>2, <5>3, Zenon DEF StepsOf
      <4> QED BY <4>1, <4>2
    <3>5. brk.calls = os
      BY <2>1
    <3>6. Contract!Fail
      BY <3>1, <3>2, <3>4, <3>5, Zenon DEF Contract!Fail, brk, os
    <3> QED
      BY <3>6 DEF Contract!Next
  <2>7. CASE Tick
    <3>1. state' = state /\ inFlight' = inFlight
      BY <2>7 DEF Tick
    <3>2. os' = os
      <4>1. /\ DOMAIN calls' = DOMAIN calls
            /\ \A i \in DOMAIN calls : calls'[i].ok = calls[i].ok
        BY <1>2, <2>7, TickAges
      <4> QED
        BY <4>1 DEF os, Outcomes
    <3>3. CASE state = "OPEN" /\ ~el /\ el'
      <4>1. brk' = [state |-> state, elapsed |-> TRUE, calls |-> os]
        BY <2>1, <3>1, <3>2, <3>3, Zenon
      <4>2. brk' = [brk EXCEPT !.elapsed = TRUE]
        BY <2>3, <4>1, Zenon DEF StepsOf
      <4>3. brk.state = "OPEN" /\ ~brk.elapsed
        BY <2>1, <3>3, Zenon
      <4>4. Contract!ResetTimeout
        BY <3>1, <4>2, <4>3, Zenon DEF Contract!ResetTimeout, brk, os, el
      <4> QED
        BY <4>4 DEF Contract!Next
    <3>4. CASE ~(state = "OPEN" /\ ~el /\ el')
      <4>1. el' = el
        <5>1. openedAge' = IF state = "CLOSED" THEN 0
                           ELSE IF openedAge < ResetTicks THEN openedAge + 1 ELSE openedAge
          BY <2>7 DEF Tick, Older
        <5>2. CASE state = "CLOSED"
          BY <3>1, <5>2 DEF el
        <5>3. CASE state = "HALF"
          BY <1>2, <2>0, <3>1, <5>1, <5>3, TimingAssumption DEF el, ProbeIsLate
        <5>4. CASE state = "OPEN"
          <6>1. el => el'
            BY <2>0, <3>1, <5>1, <5>4, TimingAssumption DEF el
          <6> QED
            BY <2>1, <3>4, <5>4, <6>1
        <5> QED BY <2>0, <5>2, <5>3, <5>4
      <4> QED
        BY <2>1, <3>1, <3>2, <4>1, Zenon
    <3> QED BY <3>3, <3>4
  <2>8. CASE UNCHANGED vars
    <3>1. UNCHANGED <<state, openedAge, calls, inFlight>>
      BY <2>8 DEF vars
    <3> QED
      BY <3>1 DEF brk, os, Outcomes
  <2> QED BY <1>2, <2>4, <2>5, <2>6, <2>7, <2>8 DEF Next
<1> QED
  BY <1>1, <1>2, BreakerTypes, ProbesAreLate, PTL
  DEF Spec, ImplementsContract, Contract!Spec

===============================================================================
