------------------------------ MODULE LockProofs ------------------------------
(***************************************************************************)
(* Proofs about DistributedLock, for any number of instances and hosts and *)
(* whatever calls to the cloud fail.                                       *)
(***************************************************************************)
EXTENDS DistributedLock, TLAPS

-------------------------------------------------------------------------------

LEMMA TypeStep == TypeOK /\ [Next]_vars => TypeOK'
<1> SUFFICES ASSUME TypeOK, [Next]_vars
             PROVE  TypeOK'
  OBVIOUS
<1> USE LockAssumption DEF TypeOK
<1>1. ASSUME NEW i \in Instances, AcquireRemote(i) PROVE TypeOK'
  BY <1>1 DEF AcquireRemote
<1>2. ASSUME NEW i \in Instances, AcquireFallback(i) PROVE TypeOK'
  <2>1. remote' \in [by : Instances \cup {Nobody}, left : 0..TTL]
    BY <1>2 DEF AcquireFallback
  <2>2. local' \in [Hosts -> 0..TTL] /\ via' \in [Instances -> {"none", "remote", "local"}]
    BY <1>2 DEF AcquireFallback
  <2>3. UNCHANGED <<held, busy>>
    BY <1>2 DEF AcquireFallback
  <2> QED BY <2>1, <2>2, <2>3
<1>3. ASSUME NEW i \in Instances, Renew(i) PROVE TypeOK'
  BY <1>3 DEF Renew, Renewed
<1>4. ASSUME NEW i \in Instances, Release(i) PROVE TypeOK'
  BY <1>4 DEF Release, Released, Free
<1>5. ASSUME NEW i \in Instances, Crash(i) PROVE TypeOK'
  BY <1>5 DEF Crash
<1>6. CASE Tick
  <2>1. \A n \in 0..TTL : Less(n) \in 0..TTL
    BY DEF Less
  <2>2. remote' \in [by : Instances \cup {Nobody}, left : 0..TTL]
    BY <1>6, <2>1 DEF Tick
  <2>3. local' \in [Hosts -> 0..TTL]
    BY <1>6, <2>1 DEF Tick
  <2>4. busy' \in [Instances -> 0..JobTicks]
    BY <1>6 DEF Tick, Running
  <2> QED BY <1>6, <2>2, <2>3, <2>4 DEF Tick
<1>7. CASE UNCHANGED vars
  BY <1>7 DEF vars
<1> QED BY <1>1, <1>2, <1>3, <1>4, <1>5, <1>6, <1>7 DEF Next

\* Every variable of the lock keeps its type: leases stay within the TTL, and
\* nobody works past the bound between two renewals.
THEOREM LockTypes == Spec => []TypeOK
<1>1. Init => TypeOK
  BY LockAssumption DEF Init, TypeOK, Free
<1> QED BY <1>1, TypeStep, PTL DEF Spec

-------------------------------------------------------------------------------

\* What makes the remote lock exclusive: whoever runs under it owns the row,
\* knows that it does (so that it renews), and has at least the lease of its
\* last renewal left; who does not run has no unrenewed time on the clock.
LeaseHolds ==
  \A i \in Instances :
    /\ via[i] = "none" => busy[i] = 0
    /\ via[i] = "remote" =>
         remote.by = i /\ i \in held /\ remote.left >= TTL - busy[i]

LEMMA LeaseHoldsInit == Init => LeaseHolds
BY DEF Init, LeaseHolds

\* One step keeps the leases of those that run under the remote lock.
LEMMA LeaseHoldsStep ==
  ASSUME JobTicks < TTL, TypeOK, LeaseHolds, [Next]_vars
  PROVE  LeaseHolds'
<1> USE LockAssumption DEF TypeOK, LeaseHolds
\* A lease whose holder renews in time is never the one that ran out.
<1>1. \A j \in Instances : via[j] = "remote" => remote.left > 0 /\ remote.by = j
  OBVIOUS
<1>2. ASSUME NEW i \in Instances, AcquireRemote(i) PROVE LeaseHolds'
  <2>1. \A j \in Instances : via[j] # "remote"
    BY <1>1, <1>2 DEF AcquireRemote
  <2> QED BY <1>2, <2>1 DEF AcquireRemote
<1>3. ASSUME NEW i \in Instances, AcquireFallback(i) PROVE LeaseHolds'
  <2>1. \A j \in Instances : via'[j] = via[j] \/ (j = i /\ via'[j] = "local")
    BY <1>3 DEF AcquireFallback
  <2>2. (\E j \in Instances : via[j] = "remote") => UNCHANGED remote
    BY <1>1, <1>3 DEF AcquireFallback
  <2>3. UNCHANGED <<held, busy>>
    BY <1>3 DEF AcquireFallback
  <2> QED BY <2>1, <2>2, <2>3
<1>4. ASSUME NEW i \in Instances, Renew(i) PROVE LeaseHolds'
  <2>1. CASE i \in held /\ remote.by = i
    <3>1. \A j \in Instances : via[j] = "remote" => j = i
      BY <2>1
    <3> QED BY <1>4, <2>1, <3>1 DEF Renew, Renewed
  <2>2. CASE ~(i \in held /\ remote.by = i)
    BY <1>4, <2>2 DEF Renew, Renewed
  <2> QED BY <2>1, <2>2
<1>5. ASSUME NEW i \in Instances, Release(i) PROVE LeaseHolds'
  BY <1>5 DEF Release, Released
<1>6. ASSUME NEW i \in Instances, Crash(i) PROVE LeaseHolds'
  BY <1>6 DEF Crash
<1>7. CASE Tick
  <2> SUFFICES ASSUME NEW i \in Instances
               PROVE  /\ via'[i] = "none" => busy'[i] = 0
                      /\ via'[i] = "remote" =>
                           remote'.by = i /\ i \in held' /\ remote'.left >= TTL - busy'[i]
    OBVIOUS
  <2>1. UNCHANGED <<held, via>> /\ remote'.by = remote.by /\ remote'.left = Less(remote.left)
    BY <1>7 DEF Tick
  <2>2. busy'[i] = IF via[i] # "none" THEN busy[i] + 1 ELSE 0
    BY <1>7 DEF Tick, Running
  <2> QED BY <1>1, <2>1, <2>2 DEF Less
<1>8. CASE UNCHANGED vars
  BY <1>8 DEF vars
<1> QED BY <1>2, <1>3, <1>4, <1>5, <1>6, <1>7, <1>8 DEF Next

\* While renewals get through within the lease, two workers never run under
\* the remote lock at once: distributedLock.js with any number of instances.
THEOREM RemoteLockIsExclusive ==
  ASSUME JobTicks < TTL
  PROVE  Spec => []RemoteMutex
<1>1. LeaseHolds => RemoteMutex
  BY DEF LeaseHolds, RemoteMutex, Running
<1>2. TypeOK /\ LeaseHolds /\ [Next]_vars => LeaseHolds'
  BY LeaseHoldsStep
<1> QED BY <1>1, <1>2, LeaseHoldsInit, LockTypes, PTL DEF Spec

\* Nobody takes or frees the row of a worker whose lease is in force, however
\* long it goes without a renewal.
THEOREM LeasesAreRespected == Spec => LeaseIsRespected
<1>1. ASSUME TypeOK, [Next]_vars,
             NEW i \in Instances, remote.by = i, remote.left > 0, via[i] = "remote"
      PROVE  remote'.by = i \/ via'[i] = "none"
  <2> USE <1>1, LockAssumption DEF TypeOK
  <2>1. ASSUME NEW j \in Instances, AcquireRemote(j) PROVE remote'.by = i
    BY <2>1 DEF AcquireRemote
  <2>2. ASSUME NEW j \in Instances, AcquireFallback(j) PROVE remote'.by = i
    BY <2>2 DEF AcquireFallback
  <2>3. ASSUME NEW j \in Instances, Renew(j) PROVE remote'.by = i
    BY <2>3 DEF Renew, Renewed
  <2>4. ASSUME NEW j \in Instances, Release(j)
        PROVE  remote'.by = i \/ via'[i] = "none"
    BY <2>4 DEF Release, Released
  <2>5. ASSUME NEW j \in Instances, Crash(j)
        PROVE  remote'.by = i \/ via'[i] = "none"
    BY <2>5 DEF Crash
  <2>6. CASE Tick
    BY <2>6 DEF Tick
  <2>7. CASE UNCHANGED vars
    BY <2>7 DEF vars
  <2> QED BY <2>1, <2>2, <2>3, <2>4, <2>5, <2>6, <2>7 DEF Next
<1>2. TypeOK /\ [Next]_vars =>
        [\A i \in Instances :
           remote.by = i /\ remote.left > 0 /\ via[i] = "remote" =>
             remote'.by = i \/ via'[i] = "none"]_vars
  BY <1>1
<1> QED BY <1>2, LockTypes, PTL DEF Spec, LeaseIsRespected

(***************************************************************************)
(* The contract of the remote row, and what it comes to                    *)
(***************************************************************************)

Row == remote.left > 0

Inside == {i \in Instances : via[i] = "remote"}

\* Who works under the remote row has a lease in force, and is alone.
LEMMA OneInside ==
  ASSUME JobTicks < TTL, TypeOK, LeaseHolds
  PROVE  /\ Inside # {} => Row
         /\ \A i, j \in Inside : i = j /\ remote.by = i
BY LockAssumption DEF TypeOK, LeaseHolds, Inside, Row

\* Who is inside changes with the lock under which one instance runs.
LEMMA InsideMoves ==
  ASSUME TypeOK, NEW i \in Instances, NEW how \in {"none", "remote", "local"},
         via' = [via EXCEPT ![i] = how]
  PROVE  Inside' = IF how = "remote" THEN Inside \cup {i} ELSE Inside \ {i}
BY DEF TypeOK, Inside

\* One step of the lock, as the contract sees it.
LEMMA LockStep ==
  ASSUME JobTicks < TTL, TypeOK, LeaseHolds, [Next]_vars
  PROVE  [Contract!Next]_<<Row, Inside>>
<1> DEFINE Stays == Row' = Row /\ Inside' = Inside
<1> USE LockAssumption
<1>1. ASSUME NEW i \in Instances, AcquireRemote(i) PROVE Contract!Take(i)
  <2>1. Inside' = Inside \cup {i}
    BY <1>1, InsideMoves DEF AcquireRemote
  <2>2. ~Row /\ Row'
    BY <1>1 DEF AcquireRemote, Row
  <2> QED BY <2>1, <2>2 DEF Contract!Take, Row, Inside
<1>2. ASSUME NEW i \in Instances, AcquireFallback(i) PROVE Stays \/ Contract!TakeUnheard
  <2>1. i \notin Inside
    BY <1>2 DEF AcquireFallback, Inside
  <2>2. Inside' = Inside
    <3>1. CASE local[Host[i]] = 0
      BY <1>2, <2>1, <3>1, InsideMoves DEF AcquireFallback
    <3>2. CASE local[Host[i]] # 0
      BY <1>2, <3>2 DEF AcquireFallback, Inside
    <3> QED BY <3>1, <3>2
  <2>3. CASE UNCHANGED remote
    BY <2>2, <2>3 DEF Row
  <2>4. CASE remote.left = 0 /\ remote' = [by |-> i, left |-> TTL]
    <3>1. ~Row /\ Row'
      BY <2>4 DEF Row
    <3> QED BY <2>2, <3>1 DEF Contract!TakeUnheard, Row, Inside
  <2> QED BY <1>2, <2>3, <2>4 DEF AcquireFallback
\* A holder's renewal finds its lease in force; only a row that is still an
\* instance's after a lost answer can come to life again.
<1>3. ASSUME NEW i \in Instances, Renew(i) PROVE Stays \/ Contract!TakeUnheard
  <2>1. Inside' = Inside
    BY <1>3 DEF Renew, Inside
  <2>2. Row => Row'
    BY <1>3 DEF Renew, Renewed, Row, TypeOK
  <2>3. Row' \in BOOLEAN /\ Row \in BOOLEAN
    BY DEF Row
  <2> QED BY <2>1, <2>2, <2>3 DEF Contract!TakeUnheard, Row, Inside
<1>4. ASSUME NEW i \in Instances, Release(i)
      PROVE  Stays \/ Contract!Leave(i) \/ Contract!RunOut
  <2>1. Inside' = Inside \ {i}
    BY <1>4, InsideMoves DEF Release
  <2>2. Row' \in {Row, FALSE} /\ (remote.by # i => Row' = Row)
    <3>1. CASE UNCHANGED remote
      BY <3>1 DEF Row
    <3>2. CASE remote' = Free /\ remote.by = i
      <4>1. Row' = FALSE
        BY <3>2 DEF Free, Row
      <4> QED BY <3>2, <4>1
    <3>3. UNCHANGED remote \/ (remote' = Free /\ remote.by = i)
      BY <1>4 DEF Release, Released
    <3> QED BY <3>1, <3>2, <3>3
  <2>3. CASE i \in Inside
    BY <2>1, <2>2, <2>3 DEF Contract!Leave, Row, Inside
  <2>4. CASE i \notin Inside /\ remote.by = i
    <3>1. Inside = {}
      BY <2>4, OneInside
    <3> QED BY <2>1, <2>2, <3>1 DEF Contract!RunOut, Row, Inside
  <2>5. CASE i \notin Inside /\ remote.by # i
    BY <2>1, <2>2, <2>5
  <2> QED BY <2>3, <2>4, <2>5
<1>5. ASSUME NEW i \in Instances, Crash(i) PROVE Stays \/ Contract!Leave(i)
  <2>1. Inside' = Inside \ {i}
    BY <1>5, InsideMoves DEF Crash
  <2>2. Row' = Row
    BY <1>5 DEF Crash, Row, TypeOK
  <2> QED BY <2>1, <2>2 DEF Contract!Leave, Row, Inside
\* A lease runs out under nobody: whoever is inside has one after the tick too.
<1>6. ASSUME Tick PROVE Stays \/ Contract!RunOut
  <2>1. Inside' = Inside
    BY <1>6 DEF Tick, Inside
  <2>2. Inside' # {} => Row'
    BY LeaseHoldsStep, TypeStep DEF TypeOK, LeaseHolds, Inside, Row
  <2>3. Row' => Row
    BY <1>6 DEF Tick, Less, Row, TypeOK
  <2>4. Row' \in BOOLEAN /\ Row \in BOOLEAN
    BY DEF Row
  <2> QED BY <2>1, <2>2, <2>3, <2>4 DEF Contract!RunOut, Row, Inside
<1>7. ASSUME UNCHANGED vars PROVE Stays
  BY <1>7 DEF vars, Row, Inside
<1> QED
  BY <1>1, <1>2, <1>3, <1>4, <1>5, <1>6, <1>7 DEF Next, Contract!Next

\* The remote row keeps the contract of LockContract with any number of
\* instances and hosts, whatever is lost and whoever dies, as long as
\* renewals get through within the lease.
THEOREM RemoteRowKeepsContract ==
  ASSUME JobTicks < TTL
  PROVE  Spec => ImplementsLockContract
<1>1. Init => Contract!Init
  BY DEF Init, Free, Contract!Init
<1>2. TypeOK /\ LeaseHolds /\ [Next]_vars => [Contract!Next]_(Contract!vars)
  BY LockStep DEF Contract!vars, Row, Inside
<1>3. TypeOK /\ LeaseHolds /\ [Next]_vars => LeaseHolds'
  BY LeaseHoldsStep
<1> QED
  BY <1>1, <1>2, <1>3, LeaseHoldsInit, LockTypes, PTL
  DEF Spec, ImplementsLockContract, Contract!Spec

\* The contract is enough for processQueue: who keeps to it lets one worker in
\* at a time, and never without a lease.
THEOREM ContractExcludes == Contract!Spec => []Contract!Exclusive
<1> DEFINE Alone == /\ \A i, j \in Inside : i = j
                    /\ Inside # {} => Row
<1>1. Contract!Init => Alone
  BY DEF Contract!Init, Inside, Row
<1>2. ASSUME Alone, [Contract!Next]_(Contract!vars) PROVE Alone'
  <2>1. ASSUME NEW i \in Instances, Contract!Take(i) PROVE Alone'
    <3>1. Inside = {} /\ Inside' = Inside \cup {i} /\ Row'
      BY <1>2, <2>1 DEF Contract!Take, Inside, Row
    <3> QED BY <3>1
  <2>2. ASSUME NEW i \in Instances, Contract!Leave(i) PROVE Alone'
    <3>1. i \in Inside /\ Inside' = Inside \ {i}
      BY <2>2 DEF Contract!Leave, Inside
    <3>2. Inside' = {}
      BY <1>2, <3>1
    <3> QED BY <3>2
  <2>3. CASE Contract!TakeUnheard
    <3>1. Inside' = Inside /\ Row'
      BY <2>3 DEF Contract!TakeUnheard, Inside, Row
    <3> QED BY <1>2, <3>1
  <2>4. CASE Contract!RunOut
    <3>1. Inside' = Inside /\ Inside = {}
      BY <2>4 DEF Contract!RunOut, Inside
    <3> QED BY <3>1
  <2>5. CASE UNCHANGED Contract!vars
    <3>1. Inside' = Inside /\ Row' = Row
      BY <2>5 DEF Contract!vars, Inside, Row
    <3> QED BY <1>2, <3>1
  <2> QED BY <1>2, <2>1, <2>2, <2>3, <2>4, <2>5 DEF Contract!Next
<1>3. Alone => Contract!Exclusive
  BY DEF Contract!Exclusive, Inside, Row
<1> QED
  BY <1>1, <1>2, <1>3, PTL DEF Contract!Spec

\* What distributedLock.js says of the agents, where it is true: while every
\* acquire is answered, one worker at a time is in processQueue, whatever
\* releases are lost and whoever dies. MCLockSplit shows that it needs this.
THEOREM ExclusiveWhileCloudAnswers ==
  ASSUME JobTicks < TTL, "acquire" \notin Outages
  PROVE  Spec => []MutualExclusion
<1> DEFINE NeverLocal == \A i \in Instances : via[i] # "local"
<1>1. Init => NeverLocal
  BY DEF Init
<1>2. TypeOK /\ NeverLocal /\ [Next]_vars => NeverLocal'
  <2> SUFFICES ASSUME TypeOK, NeverLocal, [Next]_vars PROVE NeverLocal'
    OBVIOUS
  <2> USE DEF TypeOK
  <2>1. ASSUME NEW i \in Instances, NEW how \in {"none", "remote"},
               via' = [via EXCEPT ![i] = how]
        PROVE  NeverLocal'
    BY <2>1
  <2>2. ASSUME NEW i \in Instances,
               AcquireRemote(i) \/ Renew(i) \/ Release(i) \/ Crash(i)
        PROVE  NeverLocal'
    BY <2>1, <2>2 DEF AcquireRemote, Renew, Release, Crash
  <2>3. ASSUME NEW i \in Instances, AcquireFallback(i) PROVE NeverLocal'
    BY <2>3 DEF AcquireFallback
  <2>4. CASE Tick \/ UNCHANGED vars
    BY <2>4 DEF Tick, vars
  <2> QED BY <2>2, <2>3, <2>4 DEF Next
<1>3. TypeOK /\ RemoteMutex /\ NeverLocal => MutualExclusion
  BY DEF TypeOK, RemoteMutex, MutualExclusion, Running
<1> QED
  BY <1>1, <1>2, <1>3, RemoteLockIsExclusive, LockTypes, PTL DEF Spec
===============================================================================
