--------------------------- MODULE SyncWorkerProofs ---------------------------
(***************************************************************************)
(* Proofs about SyncWorker for any number of workers, punches, devices,    *)
(* jobs and faults: its types, with or without an exclusive lock, and      *)
(* under one, that a job is in one pair of hands.                          *)
(***************************************************************************)
EXTENDS SyncWorker, SequenceTheorems, TLAPS

(***************************************************************************)
(* The breaker's operators stay within Breaker                             *)
(***************************************************************************)

\* Recording a call keeps a sequence of outcomes, whatever the window drops.
LEMMA AddCallType ==
  ASSUME NEW calls \in Seq(BOOLEAN), NEW ok \in BOOLEAN,
         NEW old \in Expired(calls)
  PROVE  AddCall(calls, ok, old) \in Seq(BOOLEAN)
<1>1. Len(calls) \in Nat /\ old \in 0..Len(calls)
  BY DEF Expired
<1>2. \A i \in (old + 1)..Len(calls) : calls[i] \in BOOLEAN
  <2> TAKE i \in (old + 1)..Len(calls)
  <2>1. i \in 1..Len(calls)
    BY <1>1
  <2> QED
    BY <2>1, ElementOfSeq, Zenon
<1>3. SubSeq(calls, old + 1, Len(calls)) \in Seq(BOOLEAN)
  <2>1. old + 1 \in Int /\ Len(calls) \in Int
    BY <1>1
  <2> QED
    BY <1>2, <2>1, SubSeqProperties, Zenon
<1>4. <<ok>> \in Seq(BOOLEAN)
  OBVIOUS
<1> QED
  BY <1>3, <1>4, ConcatProperties, Zenon DEF AddCall

\* What a settled call leaves of a breaker is a breaker.
LEMMA RecordType ==
  ASSUME NEW b \in Breaker, NEW old \in Expired(b.calls)
  PROVE  /\ RecordSuccess(b, old) \in Breaker
         /\ RecordFailure(b, old) \in Breaker
<1>1. /\ AddCall(b.calls, TRUE, old) \in Seq(BOOLEAN)
      /\ AddCall(b.calls, FALSE, old) \in Seq(BOOLEAN)
  <2>1. b.calls \in Seq(BOOLEAN)
    BY DEF Breaker
  <2> QED
    BY <2>1, AddCallType
<1>2. NewBreaker \in Breaker /\ OpenBreaker \in Breaker
  BY DEF NewBreaker, OpenBreaker, Breaker, BreakerStates
<1>3. \A cs \in Seq(BOOLEAN) : [b EXCEPT !.calls = cs] \in Breaker
  BY DEF Breaker
<1> QED
  BY <1>1, <1>2, <1>3, Zenon DEF RecordSuccess, RecordFailure

\* Recorded, as the actions use it.
LEMMA RecordedType ==
  ASSUME TypeOK, NEW w \in Workers, NEW ok \in BOOLEAN, Recorded(w, ok)
  PROVE  breaker' \in [Workers -> Breaker]
<1>1. PICK old \in Expired(breaker[w].calls) :
        breaker' = [breaker EXCEPT ![w] =
                      IF ok THEN RecordSuccess(@, old) ELSE RecordFailure(@, old)]
  BY DEF Recorded
<1>2. breaker[w] \in Breaker
  BY DEF TypeOK
<1>3. (IF ok THEN RecordSuccess(breaker[w], old) ELSE RecordFailure(breaker[w], old))
        \in Breaker
  BY <1>2, RecordType
<1> QED
  BY <1>1, <1>3 DEF TypeOK

(***************************************************************************)
(* Jobs and items                                                          *)
(***************************************************************************)

\* What the actions write into sync_jobs are job rows, and what dequeue returns is
\* an item.
LEMMA JobTypes ==
  /\ NoJob \in Job
  /\ \A rows \in SUBSET Records : NewJob(rows) \in Job
  /\ \A job \in Job, i \in Item, retryable \in BOOLEAN :
       AfterError(job, i, retryable) \in Job
<1>1. NoJob \in Job
  BY DEF NoJob, Job, JobStatus
<1>2. \A rows \in SUBSET Records : NewJob(rows) \in Job
  BY DEF NewJob, Job, JobStatus
<1>3. ASSUME NEW job \in Job, NEW i \in Item, NEW retryable \in BOOLEAN
      PROVE  AfterError(job, i, retryable) \in Job
  <2>1. i.attempts + 1 \in Nat
    BY DEF Item
  <2>2. \A n \in Nat :
          [job EXCEPT !.status = "pending", !.attempts = n, !.due = FALSE] \in Job
    BY DEF Job, JobStatus
  <2>3. \A n \in Nat : [job EXCEPT !.status = "failed", !.attempts = n] \in Job
    BY DEF Job, JobStatus
  <2> QED
    BY <2>1, <2>2, <2>3, Zenon DEF AfterError
<1> QED
  BY <1>1, <1>2, <1>3

(***************************************************************************)
(* Type correctness                                                        *)
(***************************************************************************)

\* enqueueFromTimeRecords keeps every variable well formed.
LEMMA TypeIngest ==
  ASSUME TypeOK, NEW w \in Workers, Ingest(w)
  PROVE  TypeOK'
<1>1. CASE SelectUnsynced(w)
  <2>1. Oldest(EnqueueBatch, Unsynced) \in SUBSET Records
    BY DEF Oldest, Unsynced
  <2> QED
    BY <1>1, <2>1 DEF TypeOK, SelectUnsynced, Goto, database, remote, Steps
<1>2. CASE SkipIngestion(w)
  BY <1>2 DEF TypeOK, SkipIngestion, Goto, database, remote, Steps
<1>3. ASSUME NEW d \in Devices, EnqueueDevice(w, d)
      PROVE  TypeOK'
  <2> DEFINE group == {r \in selected[w] : Device[r] = d}
  <2>1. syncJobs' \in [JobIds -> Job]
    <3>1. PICK valid \in Admitted(group) :
            IF valid = {} THEN UNCHANGED syncJobs
            ELSE \E j \in JobsWith("none") :
                   syncJobs' = [syncJobs EXCEPT ![j] = NewJob(valid)]
      BY <1>3 DEF EnqueueDevice
    <3>2. valid \in SUBSET Records
      <4>1. group \in SUBSET Records
        BY DEF TypeOK
      <4> QED
        BY <3>1, <4>1, Zenon DEF Admitted
    <3>3. NewJob(valid) \in Job
      BY <3>2, JobTypes
    <3> QED
      BY <3>1, <3>3 DEF TypeOK, JobsWith
  <2>2. selected' \in [Workers -> SUBSET Records]
    BY <1>3 DEF TypeOK, EnqueueDevice
  <2> QED
    BY <1>3, <2>1, <2>2 DEF TypeOK, EnqueueDevice, remote
<1> QED
  BY <1>1, <1>2, <1>3 DEF Ingest

\* So do the lock, dequeue and the end of processQueue.
LEMMA TypeProcessQueue ==
  ASSUME TypeOK, NEW w \in Workers, ProcessQueue(w)
  PROVE  TypeOK'
<1> USE DEF TypeOK, Goto, database, remote, Steps
<1>1. CASE AcquireLock(w)
  BY <1>1 DEF AcquireLock
<1>2. CASE LockBusy(w)
  BY <1>2 DEF LockBusy
<1>3. CASE SelectReady(w)
  <2>1. PICK ready \in SUBSET ReadyJobs :
          inHand' = [inHand EXCEPT ![w] =
            {[id |-> j, rows |-> syncJobs[j].rows,
              attempts |-> syncJobs[j].attempts] : j \in ready}]
    BY <1>3 DEF SelectReady
  <2>2. \A j \in ready : [id |-> j, rows |-> syncJobs[j].rows,
                          attempts |-> syncJobs[j].attempts] \in Item
    BY DEF ReadyJobs, JobsWith, Job, Item
  <2>3. inHand' \in [Workers -> SUBSET Item]
    BY <2>1, <2>2
  <2> QED
    BY <1>3, <2>3 DEF SelectReady
<1>4. CASE ClaimJobs(w)
  <2>1. \A job \in Job : [job EXCEPT !.status = "processing"] \in Job
    BY DEF Job, JobStatus
  <2>2. syncJobs' \in [JobIds -> Job]
    BY <1>4, <2>1 DEF ClaimJobs
  <2> QED
    BY <1>4, <2>2 DEF ClaimJobs
<1>5. CASE FinishQueue(w)
  BY <1>5 DEF FinishQueue
<1> QED
  BY <1>1, <1>2, <1>3, <1>4, <1>5 DEF ProcessQueue

\* The catch of processOneJob, for the actions that end in it.
LEMMA TypeJobFails ==
  ASSUME TypeOK, NEW w \in Workers, NEW i \in Item, NEW retryable \in BOOLEAN,
         JobFails(w, i, retryable)
  PROVE  /\ syncJobs' \in [JobIds -> Job]
         /\ current' \in [Workers -> SUBSET Item]
         /\ pc' \in [Workers -> Steps]
         /\ timeRecords' \in [Records -> {"absent", "unsynced", "synced"}]
         /\ locks' \subseteq Workers
         /\ espelho' \subseteq Hashes
         /\ selected' \in [Workers -> SUBSET Records]
         /\ inHand' \in [Workers -> SUBSET Item]
<1>1. syncJobs' \in [JobIds -> Job]
  <2>1. i.id \in JobIds
    BY DEF Item
  <2>2. AfterError(syncJobs[i.id], i, retryable) \in Job
    BY <2>1, JobTypes DEF TypeOK
  <2> QED
    BY <2>1, <2>2 DEF TypeOK, JobFails
<1> QED
  BY <1>1 DEF TypeOK, JobFails, Goto, Steps

\* The upsert keeps a count of rows for every hash.
LEMMA UpsertedType ==
  ASSUME TypeOK, NEW rows \in SUBSET Records
  PROVE  Upserted(rows) \in [Hashes -> Nat]
BY DEF TypeOK, Upserted

\* processOneJob keeps every variable well formed when nothing fails ...
LEMMA TypeProcessOneJob ==
  ASSUME TypeOK, NEW w \in Workers, NEW i \in inHand[w] \cup current[w],
         ProcessOneJob(w, i)
  PROVE  TypeOK'
<1>1. i \in Item /\ i.id \in JobIds /\ i.rows \in SUBSET Records
  BY DEF TypeOK, Item
<1>2. \A job \in Job :
        /\ [job EXCEPT !.status = "pending"] \in Job
        /\ [job EXCEPT !.status = "done"] \in Job
  BY DEF Job, JobStatus
<1>3. CASE ReturnToPending(w, i)
  <2>1. syncJobs' \in [JobIds -> Job]
    BY <1>1, <1>2, <1>3 DEF TypeOK, ReturnToPending
  <2> QED
    BY <1>3, <2>1 DEF TypeOK, ReturnToPending, remote
<1>4. CASE StartUpsert(w, i)
  <2>1. \A b \in Breaker : MaybeTransitionFromOpen(b) \in Breaker
    BY DEF MaybeTransitionFromOpen, Breaker, BreakerStates
  <2>2. breaker' \in [Workers -> Breaker]
    BY <1>4, <2>1 DEF TypeOK, StartUpsert
  <2> QED
    BY <1>1, <1>4, <2>2 DEF TypeOK, StartUpsert, database, remote, Goto, Steps
<1>5. CASE UpsertApplied(w, i)
  <2>1. breaker' \in [Workers -> Breaker]
    BY <1>5, RecordedType DEF UpsertApplied
  <2>2. cloud' \in [Hashes -> Nat]
    BY <1>1, <1>5, UpsertedType DEF UpsertApplied
  <2> QED
    BY <1>5, <2>1, <2>2 DEF TypeOK, UpsertApplied, database, Goto, Steps
<1>6. CASE UpsertRefused(w, i)
  <2>1. breaker' \in [Workers -> Breaker]
    BY <1>6, RecordedType DEF UpsertRefused
  <2>2. PICK retryable \in BOOLEAN : JobFails(w, i, retryable)
    BY <1>6 DEF UpsertRefused
  <2> QED
    BY <1>1, <1>6, <2>1, <2>2, TypeJobFails DEF TypeOK, UpsertRefused
<1>7. CASE MarkSynced(w, i)
  BY <1>7 DEF TypeOK, MarkSynced, Marked, remote, Goto, Steps
<1>8. CASE Ack(w, i)
  <2>1. syncJobs' \in [JobIds -> Job]
    BY <1>1, <1>2, <1>8 DEF TypeOK, Ack
  <2> QED
    BY <1>8, <2>1 DEF TypeOK, Ack, remote, Goto, Steps
<1>9. CASE Promote(w, i)
  <2>1. breaker' \in [Workers -> Breaker]
    BY <1>9, RecordedType DEF Promote
  <2>2. \A d : Promoted(d) \subseteq Hashes
    BY DEF TypeOK, Promoted, InCloud
  <2> QED
    BY <1>9, <2>1, <2>2 DEF TypeOK, Promote, database, Goto, Steps
<1> QED
  BY <1>3, <1>4, <1>5, <1>6, <1>7, <1>8, <1>9 DEF ProcessOneJob

\* ... when a call, a SQLite write or the whole process fails ...
LEMMA TypeFailure ==
  ASSUME TypeOK, NEW w \in Workers, Failure(w)
  PROVE  TypeOK'
<1>1. Fault => faults' \in 0..MaxFaults
  BY WorkerAssumption DEF TypeOK, Fault
<1>2. ASSUME NEW i \in current[w], UpsertFailed(w, i)
      PROVE  TypeOK'
  <2>1. i \in Item /\ i.rows \in SUBSET Records
    BY DEF TypeOK, Item
  <2>2. breaker' \in [Workers -> Breaker]
    BY <1>2, RecordedType DEF UpsertFailed
  <2>3. cloud' \in [Hashes -> Nat]
    BY <1>2, <2>1, UpsertedType DEF UpsertFailed, TypeOK
  <2>4. PICK retryable \in BOOLEAN : JobFails(w, i, retryable)
    BY <1>2 DEF UpsertFailed
  <2> QED
    BY <1>1, <1>2, <2>1, <2>2, <2>3, <2>4, TypeJobFails DEF TypeOK, UpsertFailed
<1>3. ASSUME NEW i \in current[w], LocalWriteFailed(w, i)
      PROVE  TypeOK'
  <2>1. i \in Item
    BY DEF TypeOK
  <2> QED
    BY <1>1, <1>3, <2>1, TypeJobFails DEF TypeOK, LocalWriteFailed
<1>4. ASSUME NEW i \in current[w], PromoteFailed(w, i)
      PROVE  TypeOK'
  <2>1. breaker' \in [Workers -> Breaker]
    BY <1>4, RecordedType DEF PromoteFailed
  <2> QED
    BY <1>1, <1>4, <2>1 DEF TypeOK, PromoteFailed, database, remote, Goto, Steps
<1>5. CASE ReleaseFailed(w)
  BY <1>1, <1>5 DEF TypeOK, ReleaseFailed, database, remote, Goto, Steps
<1>6. CASE TickThrows(w)
  <2>1. breaker' \in [Workers -> Breaker]
    BY <1>6, RecordedType DEF TypeOK, TickThrows
  <2> QED
    BY <1>1, <1>6, <2>1 DEF TypeOK, TickThrows, remote, Goto, Steps
<1>7. CASE CrashRestart(w)
  <2>1. NewBreaker \in Breaker
    BY DEF NewBreaker, Breaker, BreakerStates
  <2>2. breaker' \in [Workers -> Breaker]
    BY <1>7, <2>1 DEF TypeOK, CrashRestart
  <2> QED
    BY <1>1, <1>7, <2>2 DEF TypeOK, CrashRestart, database, remote, Goto, Steps
<1> QED
  BY <1>2, <1>3, <1>4, <1>5, <1>6, <1>7 DEF Failure

\* ... and so do the timers, the reconciler and the purge ...
LEMMA TypeTimers ==
  ASSUME TypeOK, Timers
  PROVE  TypeOK'
<1>1. ASSUME NEW j \in JobIds, BackoffElapsed(j)
      PROVE  TypeOK'
  <2>1. \A job \in Job : [job EXCEPT !.due = TRUE] \in Job
    BY DEF Job
  <2>2. syncJobs' \in [JobIds -> Job]
    BY <1>1, <2>1 DEF TypeOK, BackoffElapsed
  <2> QED
    BY <1>1, <2>2 DEF TypeOK, BackoffElapsed, remote, memory
<1>2. ASSUME NEW w \in Workers, ResetTimeout(w)
      PROVE  TypeOK'
  <2>1. \A b \in Breaker : [b EXCEPT !.elapsed = TRUE] \in Breaker
    BY DEF Breaker
  <2>2. breaker' \in [Workers -> Breaker]
    BY <1>2, <2>1 DEF TypeOK, ResetTimeout
  <2> QED
    BY <1>2, <2>2 DEF TypeOK, ResetTimeout, database, remote
<1>3. ASSUME NEW w \in Workers, LockExpires(w)
      PROVE  TypeOK'
  BY <1>3 DEF TypeOK, LockExpires, LeaseOver, remote, memory
<1>4. ASSUME NEW w \in Workers, NEW d \in Devices, Reconcile(w, d)
      PROVE  TypeOK'
  <2>1. Promoted(d) \subseteq Hashes
    BY DEF TypeOK, Promoted, InCloud
  <2> QED
    BY <1>4, <2>1 DEF TypeOK, Reconcile, database, memory
<1>5. CASE PurgeDone
  <2>1. syncJobs' \in [JobIds -> Job]
    BY <1>5, JobTypes DEF TypeOK, PurgeDone, Purgeable, JobsWith
  <2> QED
    BY <1>5, <2>1 DEF TypeOK, PurgeDone, remote, memory
<1> QED
  BY <1>1, <1>2, <1>3, <1>4, <1>5 DEF Timers

\* ... and the operator's requeue of dead letters.
LEMMA TypeRequeue ==
  ASSUME TypeOK, RequeueDeadLetter
  PROVE  TypeOK'
<1>1. \A job \in Job :
        [job EXCEPT !.status = "pending", !.attempts = 0, !.due = TRUE] \in Job
  BY DEF Job, JobStatus
<1>2. syncJobs' \in [JobIds -> Job]
  <2>1. \A j \in JobIds : syncJobs'[j] \in Job
    BY <1>1 DEF TypeOK, RequeueDeadLetter
  <2> QED
    BY <2>1 DEF RequeueDeadLetter
<1> QED
  BY <1>2 DEF TypeOK, RequeueDeadLetter, remote, memory

\* No step leaves the types, the stuttering one included.
LEMMA TypeStep == TypeOK /\ [Next]_vars => TypeOK'
<1> SUFFICES ASSUME TypeOK, [Next]_vars
             PROVE  TypeOK'
  OBVIOUS
<1>1. ASSUME NEW r \in Records, Collect(r)
      PROVE  TypeOK'
  BY <1>1 DEF TypeOK, Collect, remote, memory
<1>2. ASSUME NEW w \in Workers, Progress(w)
      PROVE  TypeOK'
  BY <1>2, TypeIngest, TypeProcessQueue, TypeProcessOneJob DEF Progress
<1>3. CASE UNCHANGED vars
  BY <1>3 DEF TypeOK, vars
<1> QED
  BY <1>1, <1>2, <1>3, TypeFailure, TypeTimers, TypeRequeue DEF Next

\* Every variable keeps its type, for any number of workers, jobs and faults:
\* a job's row stays well formed whichever of dequeue, the catch, ack, the purge
\* and the operator's requeue writes it last.
THEOREM TypeCorrect == Spec => []TypeOK
<1>1. Init => TypeOK
  BY JobTypes, WorkerAssumption
     DEF Init, TypeOK, Steps, NewBreaker, Breaker, BreakerStates
<1> QED
  BY <1>1, TypeStep, PTL DEF Spec

(***************************************************************************)
(* Hands: under an exclusive lock a job is in one pair of hands, keeps     *)
(* within its attempts, and stays finished once it is done                 *)
(***************************************************************************)

\* Whoever is in processQueue has the lock, and nobody else has it: a crash
\* leaves a lock behind, but never a worker inside without one.
OneHolder ==
  /\ \A w \in Workers : InProcessQueue(w) => w \in locks
  /\ \A v, w \in locks : v = w

\* What a worker holds at each step, one item per job, with a try left.
HandOf(w) ==
  /\ pc[w] \in {"idle", "ingest", "dequeue"} => inHand[w] = {}
  /\ pc[w] \in {"idle", "ingest", "dequeue", "claim", "loop"} => current[w] = {}
  /\ \A i, k \in inHand[w] : i.id = k.id => i = k
  /\ \A i \in current[w], k \in inHand[w] : i.id # k.id
  /\ \A i, k \in current[w] : i = k
  /\ \A i \in inHand[w] \cup current[w] : i.attempts < MaxAttempts

Hands == \A w \in Workers : HandOf(w)

\* A job in hand is queued or being processed until it is acknowledged.
HeldJobsAreOpen ==
  \A w \in Workers :
    /\ \A i \in inHand[w] : syncJobs[i.id].status \in {"pending", "processing"}
    /\ pc[w] # "promote" =>
         \A i \in current[w] : syncJobs[i.id].status \in {"pending", "processing"}

Tries(job) ==
  /\ job.status = "failed" => job.attempts \in 1..MaxAttempts
  /\ job.status # "failed" => job.attempts < MaxAttempts

JobsHaveTries == \A j \in JobIds : Tries(syncJobs[j])

HandInv == OneHolder /\ Hands /\ HeldJobsAreOpen /\ JobsHaveTries

LEMMA HandInit == Init => HandInv
<1> SUFFICES ASSUME Init PROVE HandInv
  OBVIOUS
<1>1. OneHolder
  BY DEF Init, OneHolder, InProcessQueue
<1>2. Hands
  BY DEF Init, Hands, HandOf
<1>3. HeldJobsAreOpen
  BY DEF Init, HeldJobsAreOpen
<1>4. JobsHaveTries
  BY WorkerAssumption DEF Init, JobsHaveTries, Tries, NoJob
<1> QED
  BY <1>1, <1>2, <1>3, <1>4 DEF HandInv

(***************************************************************************)
(* The lock                                                                *)
(***************************************************************************)

\* Only AcquireLock enters processQueue, and only when no row is in force;
\* only leaving processQueue gives the row back.
LEMMA HolderStep ==
  ASSUME ExclusiveLock, TypeOK, OneHolder, [Next]_vars
  PROVE  OneHolder'
<1> USE DEF TypeOK, OneHolder, InProcessQueue, Goto
<1>1. ASSUME UNCHANGED <<pc, locks>> PROVE OneHolder'
  BY <1>1
<1>2. ASSUME NEW w \in Workers, UNCHANGED locks, NEW s,
             pc' = [pc EXCEPT ![w] = s], s \in {"idle", "ingest"} \/ InProcessQueue(w)
      PROVE  OneHolder'
  BY <1>2
<1>3. ASSUME NEW w \in Workers, pc' = [pc EXCEPT ![w] = "idle"], locks' = locks \ {w}
      PROVE  OneHolder'
  BY <1>3
<1>4. ASSUME NEW w \in Workers, Ingest(w) PROVE OneHolder'
  BY <1>1, <1>2, <1>4 DEF Ingest, SelectUnsynced, SkipIngestion, EnqueueDevice, database
<1>5. ASSUME NEW w \in Workers, ProcessQueue(w) PROVE OneHolder'
  <2>1. CASE AcquireLock(w)
    BY <2>1 DEF AcquireLock, CanLock
  <2>2. CASE LockBusy(w)
    BY <1>2, <2>2 DEF LockBusy, database
  <2>3. CASE SelectReady(w)
    BY <1>2, <2>3 DEF SelectReady, database
  <2>4. CASE ClaimJobs(w)
    BY <1>2, <2>4 DEF ClaimJobs
  <2>5. CASE FinishQueue(w)
    BY <1>3, <2>5 DEF FinishQueue
  <2> QED BY <1>5, <2>1, <2>2, <2>3, <2>4, <2>5 DEF ProcessQueue
<1>6. ASSUME NEW w \in Workers, NEW i, ProcessOneJob(w, i) PROVE OneHolder'
  <2>1. CASE ReturnToPending(w, i)
    BY <1>1, <2>1 DEF ReturnToPending
  <2>2. CASE StartUpsert(w, i) \/ UpsertApplied(w, i)
    BY <1>2, <2>2 DEF StartUpsert, UpsertApplied, database
  <2>3. CASE UpsertRefused(w, i)
    BY <1>2, <2>3 DEF UpsertRefused, JobFails
  <2>4. CASE MarkSynced(w, i) \/ Ack(w, i) \/ Promote(w, i)
    BY <1>2, <2>4 DEF MarkSynced, Ack, Promote, database
  <2> QED BY <1>6, <2>1, <2>2, <2>3, <2>4 DEF ProcessOneJob
<1>7. ASSUME NEW w \in Workers, Failure(w) PROVE OneHolder'
  <2>1. ASSUME NEW i \in current[w], UpsertFailed(w, i) \/ LocalWriteFailed(w, i)
        PROVE  OneHolder'
    BY <1>2, <2>1 DEF UpsertFailed, LocalWriteFailed, JobFails
  <2>2. ASSUME NEW i \in current[w], PromoteFailed(w, i) PROVE OneHolder'
    BY <1>2, <2>2 DEF PromoteFailed, database
  <2>3. CASE ReleaseFailed(w) \/ CrashRestart(w)
    BY <1>2, <2>3 DEF ReleaseFailed, CrashRestart, database
  <2>4. CASE TickThrows(w)
    BY <1>2, <1>3, <2>4 DEF TickThrows
  <2> QED BY <1>7, <2>1, <2>2, <2>3, <2>4 DEF Failure
<1>8. ASSUME Timers PROVE OneHolder'
  <2>1. ASSUME NEW w \in Workers, LockExpires(w) PROVE OneHolder'
    BY <2>1 DEF LockExpires, LeaseOver, memory
  <2> QED BY <1>1, <1>8, <2>1 DEF Timers, BackoffElapsed, ResetTimeout, Reconcile, PurgeDone,
                                  database, memory
<1>9. ASSUME (\E r \in Records : Collect(r)) \/ RequeueDeadLetter \/ UNCHANGED vars
      PROVE  OneHolder'
  BY <1>1, <1>9 DEF Collect, RequeueDeadLetter, memory, vars
<1> QED BY <1>4, <1>5, <1>6, <1>7, <1>8, <1>9 DEF Next, Progress

\* The lock as its contract sees it.
Row == locks # {}

Inside == {w \in Workers : InProcessQueue(w)}

\* Under an exclusive lock a worker's step takes the row, leaves it, lets it
\* run out, or does not touch the lock.
LEMMA LockStep ==
  ASSUME ExclusiveLock, TypeOK, OneHolder, [Next]_vars
  PROVE  [Lock!Next]_<<Row, Inside>>
<1> DEFINE Moves == [Lock!Next]_<<Row, Inside>>
<1> USE DEF TypeOK, Goto
\* Steps outside processQueue, and from place to place within it.
<1>1. ASSUME UNCHANGED <<pc, locks>> PROVE Moves
  BY <1>1 DEF Row, Inside, InProcessQueue
<1>2. ASSUME NEW w \in Workers, UNCHANGED locks, NEW s,
             pc' = [pc EXCEPT ![w] = s],
             InProcessQueue(w) <=> s \notin {"idle", "ingest"}
      PROVE  Moves
  <2>1. \A v \in Workers : InProcessQueue(v)' <=> InProcessQueue(v)
    BY <1>2 DEF InProcessQueue
  <2>2. Inside' = Inside
    BY <2>1 DEF Inside
  <2>3. Row' = Row
    BY <1>2 DEF Row
  <2> QED BY <2>2, <2>3
\* Leaving processQueue, with or without the row.
<1>3. ASSUME NEW w \in Workers, InProcessQueue(w), pc' = [pc EXCEPT ![w] = "idle"],
             locks' = locks \/ locks' = locks \ {w}
      PROVE  Moves
  <2>1. \A v \in Workers : InProcessQueue(v)' <=> InProcessQueue(v) /\ v # w
    BY <1>3 DEF InProcessQueue
  <2>2. Inside' = Inside \ {w} /\ w \in Inside
    BY <1>3, <2>1 DEF Inside
  <2>3. Row' \in {Row, FALSE}
    <3>1. CASE locks' = locks
      BY <3>1 DEF Row
    <3>2. CASE locks' = locks \ {w}
      <4>1. locks' = {}
        BY <1>3, <3>2 DEF OneHolder
      <4> QED BY <4>1 DEF Row
    <3> QED BY <1>3, <3>1, <3>2
  <2>4. Lock!Leave(w)
    BY <2>2, <2>3 DEF Lock!Leave, Row, Inside
  <2> QED BY <2>4 DEF Lock!Next
<1>4. ASSUME NEW w \in Workers, Ingest(w) PROVE Moves
  BY <1>1, <1>2, <1>4
  DEF Ingest, SelectUnsynced, SkipIngestion, EnqueueDevice, database, InProcessQueue
<1>5. ASSUME NEW w \in Workers, ProcessQueue(w) PROVE Moves
  <2>1. CASE AcquireLock(w)
    <3>1. \A v \in Workers : InProcessQueue(v)' <=> InProcessQueue(v) \/ v = w
      BY <2>1 DEF AcquireLock, InProcessQueue
    <3>2. Inside' = Inside \cup {w}
      BY <3>1 DEF Inside
    <3>3. ~Row /\ Row' = TRUE
      BY <2>1 DEF AcquireLock, CanLock, Row
    <3>4. Lock!Take(w)
      BY <3>2, <3>3 DEF Lock!Take, Row, Inside
    <3> QED BY <3>4 DEF Lock!Next
  <2>2. CASE LockBusy(w) \/ SelectReady(w) \/ ClaimJobs(w)
    BY <1>2, <2>2 DEF LockBusy, SelectReady, ClaimJobs, database, InProcessQueue
  <2>3. CASE FinishQueue(w)
    BY <1>3, <2>3 DEF FinishQueue, InProcessQueue
  <2> QED BY <1>5, <2>1, <2>2, <2>3 DEF ProcessQueue
<1>6. ASSUME NEW w \in Workers, NEW i, ProcessOneJob(w, i) PROVE Moves
  <2>1. CASE ReturnToPending(w, i)
    BY <1>1, <2>1 DEF ReturnToPending
  <2>2. CASE StartUpsert(w, i) \/ UpsertApplied(w, i)
    BY <1>2, <2>2 DEF StartUpsert, UpsertApplied, database, InProcessQueue
  <2>3. CASE UpsertRefused(w, i)
    BY <1>2, <2>3 DEF UpsertRefused, JobFails, InProcessQueue
  <2>4. CASE MarkSynced(w, i) \/ Ack(w, i) \/ Promote(w, i)
    BY <1>2, <2>4 DEF MarkSynced, Ack, Promote, database, InProcessQueue
  <2> QED BY <1>6, <2>1, <2>2, <2>3, <2>4 DEF ProcessOneJob
<1>7. ASSUME NEW w \in Workers, Failure(w) PROVE Moves
  <2>1. ASSUME NEW i \in current[w], UpsertFailed(w, i) \/ LocalWriteFailed(w, i)
        PROVE  Moves
    BY <1>2, <2>1 DEF UpsertFailed, LocalWriteFailed, JobFails, InProcessQueue
  <2>2. ASSUME NEW i \in current[w], PromoteFailed(w, i) PROVE Moves
    BY <1>2, <2>2 DEF PromoteFailed, database, InProcessQueue
  <2>3. CASE ReleaseFailed(w)
    BY <1>3, <2>3 DEF ReleaseFailed, database, InProcessQueue
  <2>4. CASE CrashRestart(w) \/ TickThrows(w)
    <3>1. CASE InProcessQueue(w)
      BY <1>3, <2>4, <3>1 DEF CrashRestart, TickThrows, database
    <3>2. CASE ~InProcessQueue(w)
      BY <1>2, <2>4, <3>2 DEF CrashRestart, TickThrows, database
    <3> QED BY <3>1, <3>2
  <2> QED BY <1>7, <2>1, <2>2, <2>3, <2>4 DEF Failure
\* Only a row that a worker left behind runs out.
<1>8. ASSUME Timers PROVE Moves
  <2>1. ASSUME NEW w \in Workers, LockExpires(w) PROVE Moves
    <3>1. Inside = {} /\ Inside' = Inside
      BY <2>1 DEF LockExpires, LeaseOver, memory, OneHolder, Inside, InProcessQueue
    <3>2. Row' = FALSE
      BY <2>1 DEF LockExpires, LeaseOver, OneHolder, Row
    <3>3. Lock!RunOut
      BY <3>1, <3>2 DEF Lock!RunOut, Row, Inside
    <3> QED BY <3>3 DEF Lock!Next
  <2> QED BY <1>1, <1>8, <2>1 DEF Timers, BackoffElapsed, ResetTimeout, Reconcile, PurgeDone,
                                  database, memory
<1>9. ASSUME (\E r \in Records : Collect(r)) \/ RequeueDeadLetter \/ UNCHANGED vars
      PROVE  Moves
  BY <1>1, <1>9 DEF Collect, RequeueDeadLetter, memory, vars
<1> QED BY <1>4, <1>5, <1>6, <1>7, <1>8, <1>9 DEF Next, Progress

(***************************************************************************)
(* What each worker holds                                                  *)
(***************************************************************************)

\* A worker's hands are its own: they change only with its own steps.
LEMMA HandsStep ==
  ASSUME TypeOK, Hands, JobsHaveTries, [Next]_vars
  PROVE  Hands'
<1> USE DEF TypeOK, Goto
<1>1. ASSUME UNCHANGED <<pc, inHand, current>> PROVE Hands'
  BY <1>1 DEF Hands, HandOf
<1>2. ASSUME NEW w \in Workers, HandOf(w)',
             \A v \in Workers \ {w} : UNCHANGED <<pc[v], inHand[v], current[v]>>
      PROVE  Hands'
  BY <1>2 DEF Hands, HandOf
<1>3. ASSUME NEW w \in Workers, pc' = [pc EXCEPT ![w] = "idle"],
             inHand' = [inHand EXCEPT ![w] = {}], current' = [current EXCEPT ![w] = {}]
      PROVE  Hands'
  BY <1>2, <1>3 DEF HandOf
\* A job leaves the hands of its worker, which goes on with the next.
<1>4. ASSUME NEW w \in Workers, pc' = [pc EXCEPT ![w] = "loop"],
             current' = [current EXCEPT ![w] = {}], UNCHANGED inHand
      PROVE  Hands'
  BY <1>2, <1>4 DEF Hands, HandOf
<1>5. ASSUME NEW w \in Workers, NEW s, pc' = [pc EXCEPT ![w] = s],
             UNCHANGED <<inHand, current>>,
             \/ pc[w] = "idle" /\ s = "ingest"
             \/ pc[w] = "ingest" /\ s \in {"idle", "dequeue"}
             \/ pc[w] = "claim" /\ s = "loop"
             \/ pc[w] = "loop" /\ s = "idle" /\ inHand[w] = {}
             \/ pc[w] \in {"upsert", "mark", "ack"} /\ s \in {"mark", "ack", "promote"}
      PROVE  Hands'
  BY <1>2, <1>5 DEF Hands, HandOf
<1>6. ASSUME NEW w \in Workers, SelectReady(w) PROVE Hands'
  <2>1. PICK ready \in SUBSET ReadyJobs :
          inHand' = [inHand EXCEPT ![w] =
            {[id |-> j, rows |-> syncJobs[j].rows,
              attempts |-> syncJobs[j].attempts] : j \in ready}]
    BY <1>6 DEF SelectReady
  <2>2. \A j \in ready : syncJobs[j].attempts < MaxAttempts
    BY DEF ReadyJobs, JobsWith, JobsHaveTries, Tries
  <2>3. current[w] = {} /\ UNCHANGED current /\ pc' = [pc EXCEPT ![w] = "claim"]
    BY <1>6 DEF SelectReady, Hands, HandOf
  <2>4. \A i \in inHand'[w] : \E j \in ready : i = [id |-> j, rows |-> syncJobs[j].rows,
                                                   attempts |-> syncJobs[j].attempts]
    BY <2>1
  <2>5. /\ \A i, k \in inHand'[w] : i.id = k.id => i = k
        /\ \A i \in inHand'[w] : i.attempts < MaxAttempts
    BY <2>2, <2>4
  <2>6. HandOf(w)'
    BY <2>3, <2>5 DEF HandOf
  <2> QED BY <1>2, <2>1, <2>3, <2>6
<1>7. ASSUME NEW w \in Workers, NEW i \in inHand[w], ReturnToPending(w, i) PROVE Hands'
  <2>1. HandOf(w)'
    BY <1>7 DEF ReturnToPending, Hands, HandOf
  <2> QED BY <1>2, <1>7, <2>1 DEF ReturnToPending
<1>8. ASSUME NEW w \in Workers, NEW i \in inHand[w], StartUpsert(w, i) PROVE Hands'
  <2>1. HandOf(w)'
    BY <1>8 DEF StartUpsert, Hands, HandOf
  <2> QED BY <1>2, <1>8, <2>1 DEF StartUpsert
<1>9. ASSUME NEW w \in Workers, NEW i, ProcessOneJob(w, i) PROVE Hands'
  <2>1. CASE UpsertApplied(w, i) \/ MarkSynced(w, i) \/ Ack(w, i)
    BY <1>5, <2>1 DEF UpsertApplied, MarkSynced, Ack
  <2>2. CASE UpsertRefused(w, i)
    BY <1>4, <2>2 DEF UpsertRefused, JobFails
  <2>3. CASE Promote(w, i)
    BY <1>4, <2>3 DEF Promote
  <2>4. CASE ReturnToPending(w, i) \/ StartUpsert(w, i)
    BY <1>7, <1>8, <2>4 DEF ReturnToPending, StartUpsert
  <2> QED BY <1>9, <2>1, <2>2, <2>3, <2>4 DEF ProcessOneJob
<1>10. ASSUME NEW w \in Workers, Ingest(w) \/ ProcessQueue(w) PROVE Hands'
  BY <1>1, <1>5, <1>6, <1>10 DEF Ingest, SelectUnsynced, SkipIngestion, EnqueueDevice,
     ProcessQueue, AcquireLock, LockBusy, ClaimJobs, FinishQueue
<1>11. ASSUME NEW w \in Workers, Failure(w) PROVE Hands'
  <2>1. ASSUME NEW i \in current[w],
               UpsertFailed(w, i) \/ LocalWriteFailed(w, i) \/ PromoteFailed(w, i)
        PROVE  Hands'
    BY <1>4, <2>1 DEF UpsertFailed, LocalWriteFailed, JobFails, PromoteFailed
  <2>2. CASE ReleaseFailed(w)
    BY <1>5, <2>2 DEF ReleaseFailed
  <2>3. CASE TickThrows(w) \/ CrashRestart(w)
    BY <1>3, <2>3 DEF TickThrows, CrashRestart
  <2> QED BY <1>11, <2>1, <2>2, <2>3 DEF Failure
<1>12. ASSUME Timers \/ (\E r \in Records : Collect(r)) \/ RequeueDeadLetter \/ UNCHANGED vars
       PROVE  Hands'
  BY <1>1, <1>12 DEF Timers, BackoffElapsed, ResetTimeout, LockExpires, Reconcile, PurgeDone,
     Collect, RequeueDeadLetter, memory, vars
<1> QED BY <1>9, <1>10, <1>11, <1>12 DEF Next, Progress

(***************************************************************************)
(* The jobs                                                                *)
(***************************************************************************)

\* What one worker has in hand nobody else has: the others are not inside.
LEMMA OthersAreEmptyHanded ==
  ASSUME OneHolder, Hands, NEW w \in Workers, InProcessQueue(w),
         NEW v \in Workers \ {w}
  PROVE  inHand[v] = {} /\ current[v] = {}
BY DEF OneHolder, Hands, HandOf, InProcessQueue

\* What a step may do to a job: nothing to one that is done but purge it, and
\* nothing to one in somebody's hands but its worker's own steps.
Advances ==
  /\ JobsHaveTries'
  /\ HeldJobsAreOpen'
  /\ \A j \in JobIds :
       syncJobs[j].status = "done" => syncJobs'[j].status \in {"done", "none"}

\* A step that touches no job and gives nobody new work.
LEMMA LeavesJobs ==
  ASSUME TypeOK, HandInv, UNCHANGED syncJobs,
         \A v \in Workers : /\ inHand'[v] \subseteq inHand[v]
                            /\ current'[v] \subseteq inHand[v] \cup current[v]
                            /\ pc[v] = "promote" => pc'[v] = "promote" \/ current'[v] = {}
  PROVE  Advances
BY DEF HandInv, HeldJobsAreOpen, JobsHaveTries, Advances

\* A step of nobody's hands that touches only jobs nobody holds open.
LEMMA TouchesFreeJobs ==
  ASSUME TypeOK, HandInv, UNCHANGED <<pc, inHand, current>>,
         \A j \in JobIds :
           \/ UNCHANGED syncJobs[j]
           \/ /\ syncJobs[j].status \in {"none", "failed"} \/ j \in Purgeable
              /\ syncJobs'[j].status \in {"pending", "none"}
              /\ syncJobs'[j].attempts = 0
              /\ syncJobs[j].status = "done" => syncJobs'[j].status = "none"
           \/ /\ syncJobs[j].status = "pending" /\ syncJobs'[j].status = "pending"
              /\ syncJobs'[j].attempts = syncJobs[j].attempts
  PROVE  Advances
<1> USE WorkerAssumption DEF HandInv
<1>1. JobsHaveTries'
  BY DEF JobsHaveTries, Tries
<1>2. HeldJobsAreOpen'
  <2>1. \A w \in Workers : \A i \in inHand[w] \cup current[w] :
          i.id \in JobIds /\ i.id \notin Purgeable
    BY DEF TypeOK, Item, Purgeable, Ids
  <2> QED BY <2>1 DEF HeldJobsAreOpen
<1>3. \A j \in JobIds :
        syncJobs[j].status = "done" => syncJobs'[j].status \in {"done", "none"}
  OBVIOUS
<1> QED BY <1>1, <1>2, <1>3 DEF Advances

\* The catch of processOneJob, on the job in hand.
LEMMA JobFailsAdvances ==
  ASSUME TypeOK, HandInv, NEW w \in Workers, NEW i \in current[w],
         pc[w] \in {"upsert", "mark", "ack"}, NEW retryable \in BOOLEAN,
         JobFails(w, i, retryable)
  PROVE  Advances
<1> USE WorkerAssumption DEF HandInv
<1>1. i \in Item /\ i.id \in JobIds /\ i.attempts \in Nat /\ i.attempts < MaxAttempts
  BY DEF TypeOK, Item, Hands, HandOf
<1> DEFINE job == AfterError(syncJobs[i.id], i, retryable)
<1>2. syncJobs[i.id] \in Job
  BY <1>1 DEF TypeOK
<1>3. Tries(job)
  <2>1. /\ job.attempts = i.attempts + 1
        /\ \/ job.status = "pending" /\ i.attempts + 1 < MaxAttempts
           \/ job.status = "failed"
    BY <1>2 DEF AfterError, Job
  <2> HIDE DEF job
  <2> QED BY <1>1, <2>1 DEF Tries
<1>4. syncJobs' = [syncJobs EXCEPT ![i.id] = job]
      /\ current' = [current EXCEPT ![w] = {}] /\ UNCHANGED inHand
      /\ pc' = [pc EXCEPT ![w] = "loop"]
  BY DEF JobFails, Goto
<1> HIDE DEF job
<1>5. JobsHaveTries'
  BY <1>1, <1>3, <1>4 DEF TypeOK, JobsHaveTries, Tries
<1>6. HeldJobsAreOpen'
  <2>1. \A k \in inHand[w] : k.id # i.id /\ k.id \in JobIds
    BY DEF Hands, HandOf, TypeOK, Item
  <2>2. \A v \in Workers \ {w} : inHand[v] = {} /\ current[v] = {}
    BY OthersAreEmptyHanded DEF InProcessQueue
  <2> QED BY <1>1, <1>4, <2>1, <2>2 DEF TypeOK, HeldJobsAreOpen
<1>7. syncJobs[i.id].status # "done"
  BY DEF HeldJobsAreOpen
<1> QED BY <1>1, <1>4, <1>5, <1>6, <1>7 DEF Advances, TypeOK

LEMMA IngestAdvances ==
  ASSUME TypeOK, HandInv, NEW w \in Workers, Ingest(w)
  PROVE  Advances
<1>1. CASE SelectUnsynced(w) \/ SkipIngestion(w)
  BY <1>1, LeavesJobs DEF SelectUnsynced, SkipIngestion, database, Goto, TypeOK
<1>2. ASSUME NEW d \in Devices, EnqueueDevice(w, d) PROVE Advances
  <2>1. \/ UNCHANGED syncJobs
        \/ \E valid : \E j \in JobsWith("none") :
             syncJobs' = [syncJobs EXCEPT ![j] = NewJob(valid)]
    BY <1>2 DEF EnqueueDevice
  <2>2. UNCHANGED <<pc, inHand, current>>
    BY <1>2 DEF EnqueueDevice
  <2> QED BY <2>1, <2>2, TouchesFreeJobs DEF JobsWith, NewJob, TypeOK
<1> QED BY <1>1, <1>2 DEF Ingest

LEMMA QueueAdvances ==
  ASSUME TypeOK, HandInv, NEW w \in Workers, ProcessQueue(w)
  PROVE  Advances
<1>1. CASE AcquireLock(w) \/ LockBusy(w) \/ FinishQueue(w)
  BY <1>1, LeavesJobs DEF AcquireLock, LockBusy, FinishQueue, database, Goto, TypeOK
<1>2. CASE SelectReady(w)
  <2>1. \A i \in inHand'[w] : syncJobs[i.id].status = "pending"
    BY <1>2 DEF SelectReady, ReadyJobs, JobsWith, TypeOK
  <2>2. \A v \in Workers \ {w} : UNCHANGED inHand[v]
    BY <1>2 DEF SelectReady, TypeOK
  <2>3. UNCHANGED <<syncJobs, current>> /\ pc' = [pc EXCEPT ![w] = "claim"]
        /\ pc[w] = "dequeue"
    BY <1>2 DEF SelectReady, database, Goto
  <2>4. HeldJobsAreOpen'
    BY <2>1, <2>2, <2>3 DEF HandInv, HeldJobsAreOpen, TypeOK
  <2> QED BY <2>3, <2>4 DEF HandInv, JobsHaveTries, Advances
<1>3. CASE ClaimJobs(w)
  <2>1. syncJobs' = [j \in JobIds |->
          IF j \in Ids(inHand[w]) THEN [syncJobs[j] EXCEPT !.status = "processing"]
          ELSE syncJobs[j]]
        /\ UNCHANGED <<inHand, current>> /\ pc' = [pc EXCEPT ![w] = "loop"]
    BY <1>3 DEF ClaimJobs, Goto
  <2>2. \A j \in Ids(inHand[w]) : syncJobs[j].status \in {"pending", "processing"}
    BY DEF HandInv, HeldJobsAreOpen, Ids
  <2>3. \A j \in JobIds : syncJobs[j] \in Job
    BY DEF TypeOK
  <2>4. \A j \in JobIds :
          \/ j \in Ids(inHand[w]) /\ syncJobs'[j].status = "processing"
             /\ syncJobs'[j].attempts = syncJobs[j].attempts
          \/ UNCHANGED syncJobs[j]
    BY <2>1, <2>3 DEF Job
  <2>5. \A v \in Workers : \A i \in inHand[v] \cup current[v] : i.id \in JobIds
    BY DEF TypeOK, Item
  <2>7. pc[w] = "claim" /\ current[w] = {}
    BY <1>3 DEF ClaimJobs, HandInv, Hands, HandOf
  <2>8. HeldJobsAreOpen'
    BY <2>1, <2>4, <2>5, <2>7 DEF HandInv, HeldJobsAreOpen, TypeOK
  <2>9. JobsHaveTries'
    BY <2>2, <2>4 DEF HandInv, JobsHaveTries, Tries
  <2> QED BY <2>2, <2>4, <2>8, <2>9 DEF Advances
<1> QED BY <1>1, <1>2, <1>3 DEF ProcessQueue

LEMMA OneJobAdvances ==
  ASSUME TypeOK, HandInv, NEW w \in Workers, NEW i \in inHand[w] \cup current[w],
         ProcessOneJob(w, i)
  PROVE  Advances
<1>1. i.id \in JobIds /\ syncJobs[i.id] \in Job
  BY DEF TypeOK, Item
<1>2. \A v \in Workers : \A k \in inHand[v] \cup current[v] : k.id \in JobIds
  BY DEF TypeOK, Item
<1>3. CASE ReturnToPending(w, i)
  <2>1. syncJobs[i.id].status \in {"pending", "processing"}
    BY <1>3 DEF ReturnToPending, HandInv, HeldJobsAreOpen
  <2>2. /\ \A j \in JobIds : j # i.id => syncJobs'[j] = syncJobs[j]
        /\ syncJobs'[i.id].status = "pending"
        /\ syncJobs'[i.id].attempts = syncJobs[i.id].attempts
    BY <1>1, <1>3 DEF ReturnToPending, TypeOK, Job
  <2>3. /\ \A v \in Workers : inHand'[v] \subseteq inHand[v]
        /\ UNCHANGED <<current, pc>>
    BY <1>3 DEF ReturnToPending, TypeOK
  <2>4. JobsHaveTries'
    BY <2>1, <2>2 DEF HandInv, JobsHaveTries, Tries
  <2>5. HeldJobsAreOpen'
    BY <1>2, <2>2, <2>3 DEF HandInv, HeldJobsAreOpen
  <2> QED BY <2>1, <2>2, <2>4, <2>5 DEF Advances
<1>4. CASE StartUpsert(w, i)
  <2>1. /\ i \in inHand[w] /\ pc[w] = "loop"
        /\ inHand' = [inHand EXCEPT ![w] = @ \ {i}]
        /\ current' = [current EXCEPT ![w] = {i}]
        /\ pc' = [pc EXCEPT ![w] = "upsert"] /\ UNCHANGED syncJobs
    BY <1>4 DEF StartUpsert, Goto, database
  <2> QED BY <2>1, LeavesJobs DEF TypeOK
<1>5. CASE UpsertApplied(w, i) \/ MarkSynced(w, i)
  BY <1>5, LeavesJobs DEF UpsertApplied, MarkSynced, database, Goto, TypeOK
<1>6. CASE UpsertRefused(w, i)
  BY <1>6, JobFailsAdvances DEF UpsertRefused
<1>7. CASE Ack(w, i)
  <2>1. /\ i \in current[w] /\ pc[w] = "ack" /\ UNCHANGED <<inHand, current>>
        /\ syncJobs' = [syncJobs EXCEPT ![i.id].status = "done"]
        /\ pc' = [pc EXCEPT ![w] = "promote"]
    BY <1>7 DEF Ack, Goto
  <2>2. syncJobs[i.id].status \in {"pending", "processing"}
    BY <2>1 DEF HandInv, HeldJobsAreOpen
  <2>3. /\ \A j \in JobIds : j # i.id => syncJobs'[j] = syncJobs[j]
        /\ syncJobs'[i.id].status = "done"
        /\ syncJobs'[i.id].attempts = syncJobs[i.id].attempts
    BY <1>1, <2>1 DEF TypeOK, Job
  <2>4. JobsHaveTries'
    BY <2>2, <2>3 DEF HandInv, JobsHaveTries, Tries
  <2>5. \A k \in inHand[w] : k.id # i.id
    BY <2>1 DEF HandInv, Hands, HandOf
  <2>6. \A v \in Workers \ {w} : inHand[v] = {} /\ current[v] = {}
    BY <2>1, OthersAreEmptyHanded DEF HandInv, InProcessQueue
  <2>7. HeldJobsAreOpen'
    BY <1>2, <2>1, <2>3, <2>5, <2>6 DEF HandInv, HeldJobsAreOpen, TypeOK
  <2> QED BY <2>3, <2>4, <2>7 DEF Advances
<1>8. CASE Promote(w, i)
  BY <1>8, LeavesJobs DEF Promote, database, Goto, TypeOK
<1> QED BY <1>3, <1>4, <1>5, <1>6, <1>7, <1>8 DEF ProcessOneJob

LEMMA FailureAdvances ==
  ASSUME TypeOK, HandInv, NEW w \in Workers, Failure(w)
  PROVE  Advances
<1>1. ASSUME NEW i \in current[w], UpsertFailed(w, i) \/ LocalWriteFailed(w, i)
      PROVE  Advances
  BY <1>1, JobFailsAdvances DEF UpsertFailed, LocalWriteFailed
<1>2. ASSUME NEW i \in current[w], PromoteFailed(w, i) PROVE Advances
  BY <1>2, LeavesJobs DEF PromoteFailed, database, Goto, TypeOK
<1>3. CASE ReleaseFailed(w)
  BY <1>3, LeavesJobs DEF ReleaseFailed, database, Goto, TypeOK
<1>4. CASE TickThrows(w) \/ CrashRestart(w)
  BY <1>4, LeavesJobs DEF TickThrows, CrashRestart, database, Goto, TypeOK
<1> QED BY <1>1, <1>2, <1>3, <1>4 DEF Failure

\* The timers and the operator touch only jobs nobody has in hand, but for the
\* backoff of one that is queued.
LEMMA OutsideAdvances ==
  ASSUME TypeOK, HandInv, Timers \/ RequeueDeadLetter \/ (\E r \in Records : Collect(r))
  PROVE  Advances
<1>1. ASSUME NEW j \in JobIds, BackoffElapsed(j) PROVE Advances
  <2>1. /\ \A k \in JobIds : k # j => syncJobs'[k] = syncJobs[k]
        /\ syncJobs[j].status = "pending" /\ syncJobs'[j].status = "pending"
        /\ syncJobs'[j].attempts = syncJobs[j].attempts
        /\ UNCHANGED <<pc, inHand, current>>
    BY <1>1 DEF BackoffElapsed, TypeOK, Job, memory
  <2> QED BY <2>1, TouchesFreeJobs
<1>2. ASSUME \/ \E w \in Workers : ResetTimeout(w) \/ LockExpires(w)
             \/ \E w \in Workers, d \in Devices : Reconcile(w, d)
             \/ \E r \in Records : Collect(r)
      PROVE  Advances
  BY <1>2, LeavesJobs DEF ResetTimeout, LockExpires, Reconcile, Collect, database, memory
<1>3. CASE PurgeDone
  <2>1. PICK purged \in SUBSET Purgeable :
          syncJobs' = [j \in JobIds |-> IF j \in purged THEN NoJob ELSE syncJobs[j]]
    BY <1>3 DEF PurgeDone
  <2>2. ASSUME NEW j \in JobIds
        PROVE  \/ syncJobs'[j] = syncJobs[j]
               \/ /\ j \in Purgeable
                  /\ syncJobs'[j].status = "none" /\ syncJobs'[j].attempts = 0
    <3>1. syncJobs'[j] = IF j \in purged THEN NoJob ELSE syncJobs[j]
      BY <2>1
    <3> QED BY <3>1 DEF NoJob
  <2>3. UNCHANGED <<pc, inHand, current>>
    BY <1>3 DEF PurgeDone, memory
  <2> QED BY <2>2, <2>3, TouchesFreeJobs
<1>4. CASE RequeueDeadLetter
  <2>1. PICK chosen \in SUBSET JobsWith("failed") :
          syncJobs' = [j \in JobIds |->
            IF j \in chosen
            THEN [syncJobs[j] EXCEPT !.status = "pending", !.attempts = 0, !.due = TRUE]
            ELSE syncJobs[j]]
    BY <1>4 DEF RequeueDeadLetter
  <2>2. \A job \in Job :
          LET requeued == [job EXCEPT !.status = "pending", !.attempts = 0, !.due = TRUE]
          IN  requeued.status = "pending" /\ requeued.attempts = 0
    BY DEF Job
  <2>3. \A j \in JobIds :
          \/ syncJobs'[j] = syncJobs[j]
          \/ /\ syncJobs[j].status = "failed"
             /\ syncJobs'[j].status = "pending" /\ syncJobs'[j].attempts = 0
    BY <2>1, <2>2 DEF JobsWith, TypeOK
  <2>4. UNCHANGED <<pc, inHand, current>>
    BY <1>4 DEF RequeueDeadLetter, memory
  <2> QED BY <2>3, <2>4, TouchesFreeJobs
<1> QED BY <1>1, <1>2, <1>3, <1>4 DEF Timers

LEMMA JobsAdvance ==
  ASSUME TypeOK, HandInv, [Next]_vars
  PROVE  Advances
<1>1. ASSUME NEW w \in Workers, Progress(w) PROVE Advances
  BY <1>1, IngestAdvances, QueueAdvances, OneJobAdvances DEF Progress
<1>2. CASE UNCHANGED vars
  BY <1>2, LeavesJobs DEF vars
<1> QED BY <1>1, <1>2, FailureAdvances, OutsideAdvances DEF Next

(***************************************************************************)
(* The theorems                                                            *)
(***************************************************************************)

\* The invariant above holds of every run under an exclusive lock.
THEOREM HandInvariant ==
  ASSUME ExclusiveLock
  PROVE  Spec => []HandInv
<1>1. TypeOK /\ HandInv /\ [Next]_vars => HandInv'
  BY HolderStep, HandsStep, JobsAdvance DEF HandInv, Advances
<1> QED BY <1>1, HandInit, TypeCorrect, PTL DEF Spec

\* Under an exclusive lock no two workers hold the same job, whoever crashes
\* and whatever becomes of its lock row.
THEOREM OneHandOnly ==
  ASSUME ExclusiveLock
  PROVE  Spec => []OneHandPerJob
<1>1. HandInv => OneHandPerJob
  BY DEF HandInv, OneHolder, Hands, HandOf, OneHandPerJob, InProcessQueue, Ids
<1> QED BY <1>1, HandInvariant, PTL

\* A queued job has a try left and a dead letter has had one: no stale item and
\* no late answer counts attempts past MAX_ATTEMPTS.
THEOREM AttemptsStayBounded ==
  ASSUME ExclusiveLock
  PROVE  Spec => []AttemptsBounded
<1>1. HandInv => AttemptsBounded
  BY DEF HandInv, JobsHaveTries, Tries, AttemptsBounded
<1> QED BY <1>1, HandInvariant, PTL

\* Under an exclusive lock a done job is never processed again: whatever a worker
\* read before, nothing but the purge writes its row.
THEOREM DoneStaysDone ==
  ASSUME ExclusiveLock
  PROVE  Spec => DoneIsFinal
<1>1. TypeOK /\ HandInv /\ [Next]_vars =>
        [\A j \in JobIds :
           syncJobs[j].status = "done" => syncJobs'[j].status \in {"done", "none"}]_vars
  BY JobsAdvance DEF Advances
<1> QED BY <1>1, HandInvariant, TypeCorrect, PTL DEF Spec, DoneIsFinal

(***************************************************************************)
(* The lock's contract                                                     *)
(***************************************************************************)

\* Workers under an exclusive lock see nothing of it that its contract does
\* not say: the lock assumed here is the one LockProofs finds in
\* distributedLock.js.
THEOREM WorkersKeepLockContract ==
  ASSUME ExclusiveLock
  PROVE  Spec => KeepsLockContract
<1>1. Init => Lock!Init
  BY DEF Init, Lock!Init, InProcessQueue
<1>2. TypeOK /\ HandInv /\ [Next]_vars => [Lock!Next]_(Lock!vars)
  BY LockStep DEF HandInv, Lock!vars, Row, Inside
<1> QED
  BY <1>1, <1>2, HandInvariant, TypeCorrect, PTL
  DEF Spec, KeepsLockContract, Lock!Spec
===============================================================================
