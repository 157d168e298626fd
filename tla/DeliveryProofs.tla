---------------------------- MODULE DeliveryProofs ----------------------------
(***************************************************************************)
(* The exactly-once guarantee of SyncWorker, proved for any number of      *)
(* workers on one database, without relying on the lock, and its           *)
(* refinement of PunchDelivery.                                            *)
(***************************************************************************)
EXTENDS SyncWorkerProofs

(***************************************************************************)
(* What an upsert does to the cloud                                        *)
(***************************************************************************)

\* It adds the rows sent, keeps those that were there and repeats none.
LEMMA UpsertDelivers ==
  ASSUME TypeOK, AtMostOnce, NEW rows \in SUBSET Records, cloud' = Upserted(rows)
  PROVE  /\ \A h \in Hashes : cloud[h] > 0 => cloud'[h] > 0
         /\ \A h \in Hashes : cloud'[h] <= 1
         /\ \A r \in rows : cloud'[Hash[r]] > 0
<1>1. Hash \in [Records -> Hashes]
  BY WorkerAssumption
<1>2. cloud \in [Hashes -> Nat]
  BY DEF TypeOK
<1> QED
  BY <1>1, <1>2 DEF Upserted, AtMostOnce

(***************************************************************************)
(* The inductive invariant, one lemma per group of actions                 *)
(***************************************************************************)

\* enqueueFromTimeRecords only queues punches the site holds.
LEMMA DeliveryIngest ==
  ASSUME TypeOK, DeliveryInv, NEW w \in Workers, Ingest(w)
  PROVE  DeliveryInv'
<1> USE DEF TypeOK, DeliveryInv, NoLostPunch, AtMostOnce, DoneMeansSynced,
            ItemsAreJobs, OneCurrentJob, MarkAfterUpsert, AckAfterMark,
            JobsHoldPunches, SelectedArePunches, JobsWith, Goto, database, remote
<1>1. CASE SelectUnsynced(w)
  <2>1. \A r \in Oldest(EnqueueBatch, Unsynced) : timeRecords[r] # "absent"
    BY DEF Oldest, Unsynced
  <2> QED
    BY <1>1, <2>1 DEF SelectUnsynced
<1>2. CASE SkipIngestion(w)
  BY <1>2 DEF SkipIngestion
<1>3. ASSUME NEW d \in Devices, EnqueueDevice(w, d)
      PROVE  DeliveryInv'
  <2> DEFINE group == {r \in selected[w] : Device[r] = d}
  <2>1. PICK valid \in Admitted(group) :
          IF valid = {} THEN UNCHANGED syncJobs
          ELSE \E j \in JobsWith("none") :
                 syncJobs' = [syncJobs EXCEPT ![j] = NewJob(valid)]
    BY <1>3 DEF EnqueueDevice
  <2>2. valid \subseteq group
    BY <2>1, Zenon DEF Admitted
  <2>3. CASE valid = {}
    BY <1>3, <2>1, <2>3 DEF EnqueueDevice
  <2>4. CASE valid # {}
    <3>1. PICK j \in JobsWith("none") :
            syncJobs' = [syncJobs EXCEPT ![j] = NewJob(valid)]
      BY <2>1, <2>4
    <3>2. \A r \in valid : timeRecords[r] # "absent"
      BY <2>2
    <3>3. NewJob(valid).status = "pending" /\ NewJob(valid).rows = valid
      BY DEF NewJob
    <3>4. JobsHoldPunches'
      BY <1>3, <3>1, <3>2, <3>3 DEF EnqueueDevice
    <3>5. ItemsAreJobs'
      BY <1>3, <3>1 DEF EnqueueDevice, Item
    <3>6. DoneMeansSynced'
      BY <1>3, <3>1, <3>3 DEF EnqueueDevice
    <3> QED
      BY <1>3, <3>4, <3>5, <3>6 DEF EnqueueDevice
  <2> QED
    BY <2>3, <2>4
<1> QED
  BY <1>1, <1>2, <1>3 DEF Ingest

\* dequeue hands out payloads of existing jobs, and taking a job that another
\* worker is at disturbs nothing.
LEMMA DeliveryProcessQueue ==
  ASSUME TypeOK, DeliveryInv, NEW w \in Workers, ProcessQueue(w)
  PROVE  DeliveryInv'
<1> USE DEF TypeOK, DeliveryInv, NoLostPunch, AtMostOnce, DoneMeansSynced,
            ItemsAreJobs, OneCurrentJob, MarkAfterUpsert, AckAfterMark,
            JobsHoldPunches, SelectedArePunches, JobsWith, Goto, database, remote
<1>1. CASE AcquireLock(w)
  BY <1>1 DEF AcquireLock
<1>2. CASE LockBusy(w)
  BY <1>2 DEF LockBusy
<1>3. CASE SelectReady(w)
  <2>1. PICK ready \in SUBSET ReadyJobs :
          inHand' = [inHand EXCEPT ![w] =
            {[id |-> j, rows |-> syncJobs[j].rows,
              attempts |-> syncJobs[j].attempts] : j \in ready}]
    BY <1>3 DEF SelectReady
  <2>2. ItemsAreJobs'
    BY <1>3, <2>1 DEF SelectReady, ReadyJobs
  <2> QED
    BY <1>3, <2>2 DEF SelectReady
<1>4. CASE ClaimJobs(w)
  <2>1. \A j \in JobIds : /\ syncJobs'[j].rows = syncJobs[j].rows
                          /\ syncJobs'[j].status \in {syncJobs[j].status, "processing"}
    BY <1>4 DEF ClaimJobs, Job
  <2>2. ItemsAreJobs'
    BY <1>4, <2>1 DEF ClaimJobs, Item
  <2>3. DoneMeansSynced' /\ JobsHoldPunches'
    BY <1>4, <2>1 DEF ClaimJobs
  <2>4. MarkAfterUpsert' /\ AckAfterMark'
    BY <1>4 DEF ClaimJobs
  <2>5. UNCHANGED <<timeRecords, cloud, selected, current>>
    BY <1>4 DEF ClaimJobs
  <2>6. NoLostPunch' /\ AtMostOnce' /\ OneCurrentJob' /\ SelectedArePunches'
    BY <2>5
  <2> QED
    BY <2>2, <2>3, <2>4, <2>6, Zenon DEF DeliveryInv
<1>5. CASE FinishQueue(w)
  BY <1>5 DEF FinishQueue
<1> QED
  BY <1>1, <1>2, <1>3, <1>4, <1>5 DEF ProcessQueue

\* Whatever the cloud has become, the catch of processOneJob does no harm as
\* long as nothing has left the cloud.
LEMMA DeliveryJobFails ==
  ASSUME TypeOK, DeliveryInv, NEW w \in Workers, NEW i \in current[w],
         NEW retryable \in BOOLEAN, JobFails(w, i, retryable),
         \A h \in Hashes : cloud[h] > 0 => cloud'[h] > 0,
         \A h \in Hashes : cloud'[h] <= 1
  PROVE  DeliveryInv'
<1> USE DEF TypeOK, DeliveryInv, NoLostPunch, AtMostOnce, DoneMeansSynced,
            ItemsAreJobs, OneCurrentJob, MarkAfterUpsert, AckAfterMark,
            JobsHoldPunches, SelectedArePunches, JobsWith, Goto, JobFails
<1>1. i \in Item /\ i.id \in JobIds
  BY DEF Item
<1>2. Hash \in [Records -> Hashes]
  BY WorkerAssumption
<1>3. \A job \in Job : /\ AfterError(job, i, retryable).rows = job.rows
                       /\ AfterError(job, i, retryable).status \in {"pending", "failed"}
  BY DEF AfterError, Job
<1>4. \A j \in JobIds :
        /\ syncJobs'[j].rows = syncJobs[j].rows
        /\ \/ syncJobs'[j].status = syncJobs[j].status
           \/ syncJobs'[j].status \in {"pending", "failed"}
  BY <1>1, <1>3
<1>5. ItemsAreJobs'
  BY <1>4 DEF Item
<1>6. DoneMeansSynced' /\ JobsHoldPunches'
  BY <1>4
<1>7. MarkAfterUpsert' /\ AckAfterMark'
  BY <1>2 DEF Item
<1> QED
  BY <1>2, <1>5, <1>6, <1>7

\* processOneJob reaches the mark with its punches in the cloud and the ack
\* with its punches marked.
LEMMA DeliveryProcessOneJob ==
  ASSUME TypeOK, DeliveryInv, NEW w \in Workers, NEW i \in inHand[w] \cup current[w],
         ProcessOneJob(w, i)
  PROVE  DeliveryInv'
<1> USE DEF TypeOK, DeliveryInv, NoLostPunch, AtMostOnce, DoneMeansSynced,
            ItemsAreJobs, OneCurrentJob, MarkAfterUpsert, AckAfterMark,
            JobsHoldPunches, SelectedArePunches, JobsWith, Goto, database, remote
<1>1. i \in Item /\ i.id \in JobIds /\ i.rows \in SUBSET Records
  BY DEF Item
<1>2. Hash \in [Records -> Hashes]
  BY WorkerAssumption
<1>3. CASE ReturnToPending(w, i)
  <2>1. \A j \in JobIds : /\ syncJobs'[j].rows = syncJobs[j].rows
                          /\ syncJobs'[j].status \in {syncJobs[j].status, "pending"}
    BY <1>1, <1>3 DEF ReturnToPending, Job
  <2>2. ItemsAreJobs'
    BY <1>3, <2>1 DEF ReturnToPending, Item
  <2>3. DoneMeansSynced' /\ JobsHoldPunches'
    BY <1>3, <2>1 DEF ReturnToPending
  <2> QED
    BY <1>3, <2>2, <2>3 DEF ReturnToPending
<1>4. CASE StartUpsert(w, i)
  BY <1>4 DEF StartUpsert
<1>5. CASE UpsertApplied(w, i)
  <2>1. /\ \A h \in Hashes : cloud[h] > 0 => cloud'[h] > 0
        /\ \A h \in Hashes : cloud'[h] <= 1
        /\ \A r \in i.rows : cloud'[Hash[r]] > 0
    BY <1>1, <1>5, UpsertDelivers DEF UpsertApplied
  <2>2. MarkAfterUpsert'
    <3>1. SUFFICES ASSUME NEW v \in Workers, pc'[v] = "mark",
                          NEW k \in current[v], NEW r \in k.rows
                   PROVE  cloud'[Hash[r]] > 0
      BY <1>5 DEF UpsertApplied
    <3>2. k \in Item /\ Hash[r] \in Hashes
      BY <1>2, <3>1 DEF Item
    <3>3. CASE v = w
      <4>1. k = i
        BY <1>5, <3>3 DEF UpsertApplied
      <4> QED
        BY <2>1, <3>1, <4>1
    <3>4. CASE v # w
      <4>1. pc[v] = "mark"
        BY <1>5, <3>1, <3>4 DEF UpsertApplied
      <4> QED
        BY <2>1, <3>1, <3>2, <4>1
    <3> QED
      BY <3>3, <3>4
  <2>3. AckAfterMark'
    BY <1>5 DEF UpsertApplied
  <2> QED
    BY <1>2, <1>5, <2>1, <2>2, <2>3 DEF UpsertApplied
<1>6. CASE UpsertRefused(w, i)
  <2>1. PICK retryable \in BOOLEAN : JobFails(w, i, retryable)
    BY <1>6 DEF UpsertRefused
  <2> QED
    BY <1>6, <2>1, DeliveryJobFails DEF UpsertRefused
<1>7. CASE MarkSynced(w, i)
  <2>1. \A r \in i.rows : cloud[Hash[r]] > 0
    BY <1>7 DEF MarkSynced
  <2>2. /\ \A r \in Records : timeRecords[r] = "synced" => timeRecords'[r] = "synced"
        /\ \A r \in Records : timeRecords[r] # "absent" => timeRecords'[r] # "absent"
        /\ \A r \in i.rows : timeRecords'[r] = "synced"
    BY <1>1, <1>7 DEF MarkSynced, Marked
  <2>3. NoLostPunch'
    BY <1>7, <2>1 DEF MarkSynced, Marked
  <2>7. DoneMeansSynced' /\ JobsHoldPunches'
    BY <1>7, <2>2 DEF MarkSynced, Job
  <2>4. AckAfterMark'
    <3>1. SUFFICES ASSUME NEW v \in Workers, pc'[v] = "ack",
                          NEW k \in current[v], NEW r \in k.rows
                   PROVE  timeRecords'[r] = "synced"
      BY <1>7 DEF MarkSynced
    <3>2. k.rows \in SUBSET Records
      BY <3>1 DEF Item
    <3>3. CASE v = w
      <4>1. k = i
        BY <1>7, <3>3 DEF MarkSynced
      <4> QED
        BY <2>2, <3>1, <4>1
    <3>4. CASE v # w
      <4>1. pc[v] = "ack"
        BY <1>7, <3>1, <3>4 DEF MarkSynced
      <4> QED
        BY <2>2, <3>1, <3>2, <4>1
    <3> QED
      BY <3>3, <3>4
  <2>5. MarkAfterUpsert'
    BY <1>7 DEF MarkSynced
  <2>6. SelectedArePunches'
    BY <1>7, <2>2 DEF MarkSynced
  <2> QED
    BY <1>7, <2>3, <2>4, <2>5, <2>6, <2>7 DEF MarkSynced
<1>8. CASE Ack(w, i)
  <2>1. i.rows = syncJobs[i.id].rows /\ \A r \in i.rows : timeRecords[r] = "synced"
    BY <1>8 DEF Ack
  <2>2. \A j \in JobIds : /\ syncJobs'[j].rows = syncJobs[j].rows
                          /\ syncJobs'[j].status =
                               IF j = i.id THEN "done" ELSE syncJobs[j].status
    BY <1>1, <1>8 DEF Ack, Job
  <2>3. ItemsAreJobs'
    BY <1>8, <2>2 DEF Ack, Item
  <2>4. DoneMeansSynced' /\ JobsHoldPunches'
    BY <1>8, <2>1, <2>2 DEF Ack
  <2> QED
    BY <1>8, <2>3, <2>4 DEF Ack
<1>9. CASE Promote(w, i)
  BY <1>9 DEF Promote
<1> QED
  BY <1>3, <1>4, <1>5, <1>6, <1>7, <1>8, <1>9 DEF ProcessOneJob

\* A failed call, a failed SQLite write or a crash loses nothing.
LEMMA DeliveryFailure ==
  ASSUME TypeOK, DeliveryInv, NEW w \in Workers, Failure(w)
  PROVE  DeliveryInv'
<1> USE DEF TypeOK, DeliveryInv, NoLostPunch, AtMostOnce, DoneMeansSynced,
            ItemsAreJobs, OneCurrentJob, MarkAfterUpsert, AckAfterMark,
            JobsHoldPunches, SelectedArePunches, JobsWith, Goto, database, remote
<1>1. ASSUME NEW i \in current[w], UpsertFailed(w, i)
      PROVE  DeliveryInv'
  <2>1. i.rows \in SUBSET Records
    BY DEF Item
  <2>2. /\ \A h \in Hashes : cloud[h] > 0 => cloud'[h] > 0
        /\ \A h \in Hashes : cloud'[h] <= 1
    <3>1. CASE UNCHANGED cloud
      BY <3>1
    <3>2. CASE cloud' = Upserted(i.rows)
      BY <2>1, <3>2, UpsertDelivers
    <3> QED
      BY <1>1, <3>1, <3>2 DEF UpsertFailed
  <2>3. PICK retryable \in BOOLEAN : JobFails(w, i, retryable)
    BY <1>1 DEF UpsertFailed
  <2> QED
    BY <2>2, <2>3, DeliveryJobFails
<1>2. ASSUME NEW i \in current[w], LocalWriteFailed(w, i)
      PROVE  DeliveryInv'
  BY <1>2, DeliveryJobFails DEF LocalWriteFailed
<1>3. ASSUME NEW i \in current[w], PromoteFailed(w, i)
      PROVE  DeliveryInv'
  BY <1>3 DEF PromoteFailed
<1>4. CASE ReleaseFailed(w)
  BY <1>4 DEF ReleaseFailed
<1>5. CASE TickThrows(w)
  BY <1>5 DEF TickThrows
<1>6. CASE CrashRestart(w)
  BY <1>6 DEF CrashRestart
<1> QED
  BY <1>1, <1>2, <1>3, <1>4, <1>5, <1>6 DEF Failure

\* The timers change no punch, and the purge takes no job that is in hand.
LEMMA DeliveryTimers ==
  ASSUME TypeOK, DeliveryInv, Timers
  PROVE  DeliveryInv'
<1> USE DEF TypeOK, DeliveryInv, NoLostPunch, AtMostOnce, DoneMeansSynced,
            ItemsAreJobs, OneCurrentJob, MarkAfterUpsert, AckAfterMark,
            JobsHoldPunches, SelectedArePunches, JobsWith, remote, memory
<1>1. ASSUME NEW j \in JobIds, BackoffElapsed(j)
      PROVE  DeliveryInv'
  <2>1. \A k \in JobIds : /\ syncJobs'[k].rows = syncJobs[k].rows
                          /\ syncJobs'[k].status = syncJobs[k].status
    BY <1>1 DEF BackoffElapsed, Job
  <2>2. ItemsAreJobs'
    BY <1>1, <2>1 DEF BackoffElapsed, Item
  <2> QED
    BY <1>1, <2>1, <2>2 DEF BackoffElapsed
<1>2. ASSUME NEW w \in Workers, ResetTimeout(w)
      PROVE  DeliveryInv'
  BY <1>2 DEF ResetTimeout, database
<1>3. ASSUME NEW w \in Workers, LockExpires(w)
      PROVE  DeliveryInv'
  BY <1>3 DEF LockExpires
<1>4. ASSUME NEW w \in Workers, NEW d \in Devices, Reconcile(w, d)
      PROVE  DeliveryInv'
  BY <1>4 DEF Reconcile, database
<1>5. CASE PurgeDone
  <2>1. PICK purged \in SUBSET Purgeable \ {{}} :
          syncJobs' = [j \in JobIds |-> IF j \in purged THEN NoJob ELSE syncJobs[j]]
    BY <1>5 DEF PurgeDone
  <2>2. ItemsAreJobs'
    <3>1. \A w \in Workers : \A i \in inHand[w] \cup current[w] :
            i.id \in JobIds /\ i.id \notin purged
      BY <2>1 DEF Purgeable, Ids, Item
    <3> QED
      BY <1>5, <2>1, <3>1 DEF PurgeDone
  <2>3. DoneMeansSynced' /\ JobsHoldPunches'
    BY <1>5, <2>1 DEF PurgeDone, Purgeable, NoJob
  <2>4. UNCHANGED <<timeRecords, cloud, pc, selected, current>>
    BY <1>5 DEF PurgeDone
  <2> QED
    BY <2>2, <2>3, <2>4
<1> QED
  BY <1>1, <1>2, <1>3, <1>4, <1>5 DEF Timers

\* The operator's requeue reopens jobs and keeps their payloads.
LEMMA DeliveryRequeue ==
  ASSUME TypeOK, DeliveryInv, RequeueDeadLetter
  PROVE  DeliveryInv'
<1> USE DEF TypeOK, DeliveryInv, NoLostPunch, AtMostOnce, DoneMeansSynced,
            ItemsAreJobs, OneCurrentJob, MarkAfterUpsert, AckAfterMark,
            JobsHoldPunches, SelectedArePunches, JobsWith, remote, memory
<1>1. PICK chosen \in SUBSET JobsWith("failed") \ {{}} :
        syncJobs' = [j \in JobIds |->
          IF j \in chosen
          THEN [syncJobs[j] EXCEPT !.status = "pending", !.attempts = 0, !.due = TRUE]
          ELSE syncJobs[j]]
  BY DEF RequeueDeadLetter
<1>2. \A j \in JobIds : /\ syncJobs'[j].rows = syncJobs[j].rows
                        /\ syncJobs'[j].status \in {syncJobs[j].status, "pending"}
  <2> DEFINE Requeued(job) ==
        [job EXCEPT !.status = "pending", !.attempts = 0, !.due = TRUE]
  <2>1. \A job \in Job : Requeued(job).rows = job.rows
    BY DEF Job
  <2>2. \A job \in Job : Requeued(job).status = "pending"
    BY DEF Job
  <2>3. \A j \in JobIds :
          syncJobs'[j] = IF j \in chosen THEN Requeued(syncJobs[j]) ELSE syncJobs[j]
    BY <1>1
  <2> HIDE DEF Requeued
  <2> QED
    BY <2>1, <2>2, <2>3
<1>3. UNCHANGED <<timeRecords, cloud, pc, selected, inHand, current>>
  BY DEF RequeueDeadLetter
<1>4. ItemsAreJobs'
  BY <1>2, <1>3 DEF Item
<1>5. DoneMeansSynced' /\ JobsHoldPunches'
  BY <1>2, <1>3
<1> QED
  BY <1>3, <1>4, <1>5

\* The delivery invariant is inductive relative to the types.
LEMMA DeliveryStep == TypeOK /\ DeliveryInv /\ [Next]_vars => DeliveryInv'
<1> SUFFICES ASSUME TypeOK, DeliveryInv, [Next]_vars
             PROVE  DeliveryInv'
  OBVIOUS
<1> USE DEF DeliveryInv, NoLostPunch, AtMostOnce, DoneMeansSynced, ItemsAreJobs,
            OneCurrentJob, MarkAfterUpsert, AckAfterMark, JobsHoldPunches,
            SelectedArePunches, JobsWith
<1>1. ASSUME NEW r \in Records, Collect(r)
      PROVE  DeliveryInv'
  BY <1>1 DEF TypeOK, Collect, remote, memory, Job, Item
<1>2. ASSUME NEW w \in Workers, Progress(w)
      PROVE  DeliveryInv'
  BY <1>2, DeliveryIngest, DeliveryProcessQueue, DeliveryProcessOneJob DEF Progress
<1>3. CASE UNCHANGED vars
  BY <1>3 DEF vars
<1> QED
  BY <1>1, <1>2, <1>3, DeliveryFailure, DeliveryTimers, DeliveryRequeue DEF Next

\* It holds of the empty database and cloud.
LEMMA DeliveryInit == Init => DeliveryInv
BY WorkerAssumption
   DEF Init, DeliveryInv, NoLostPunch, AtMostOnce, DoneMeansSynced, ItemsAreJobs,
       OneCurrentJob, MarkAfterUpsert, AckAfterMark, JobsHoldPunches,
       SelectedArePunches, JobsWith, NoJob

\* The inductive invariant behind exactly-once delivery.
THEOREM DeliveryInvariant == Spec => []DeliveryInv
BY DeliveryInit, DeliveryStep, TypeCorrect, PTL DEF Spec

\* A punch marked synced on the site is in clock_event_logs, whatever crashes,
\* lost answers, stale jobs and concurrent workers came before.
THEOREM NoPunchLost == Spec => []NoLostPunch
<1>1. DeliveryInv => NoLostPunch
  BY DEF DeliveryInv
<1> QED
  BY <1>1, DeliveryInvariant, PTL

\* A done job has nothing left to deliver, so purgeDoneJobs loses no punch.
THEOREM DoneJobsAreSynced == Spec => []DoneMeansSynced
<1>1. DeliveryInv => DoneMeansSynced
  BY DEF DeliveryInv
<1> QED
  BY <1>1, DeliveryInvariant, PTL

(***************************************************************************)
(* Refinement of PunchDelivery                                             *)
(***************************************************************************)

\* Only four kinds of step touch what PunchDelivery sees.
LEMMA Stutters ==
  ASSUME UNCHANGED <<timeRecords, cloud>>
  PROVE  [Delivery!Next]_<<{r \in Records : timeRecords[r] # "absent"},
                           {r \in Records : timeRecords[r] = "synced"}, cloud>>
OBVIOUS

\* An upsert, answered or not, is the arrival of a batch.
LEMMA UpsertIsDeliver ==
  ASSUME TypeOK, DeliveryInv, NEW w \in Workers, NEW i \in current[w],
         cloud' = Upserted(i.rows), UNCHANGED timeRecords
  PROVE  Delivery!Next
<1>1. i \in Item /\ i.rows \in SUBSET Records /\ i.id \in JobIds
  BY DEF TypeOK, Item
<1>2. \A r \in i.rows : timeRecords[r] # "absent"
  BY <1>1 DEF DeliveryInv, ItemsAreJobs, JobsHoldPunches
<1>3. cloud' = [h \in Hashes |-> IF h \in {Hash[r] : r \in i.rows} THEN 1 ELSE cloud[h]]
  <2>1. \A h \in Hashes : cloud[h] \in Nat /\ cloud[h] <= 1
    BY DEF TypeOK, DeliveryInv, AtMostOnce
  <2> QED
    BY <2>1 DEF Upserted
<1>4. Delivery!Deliver(i.rows)
  BY <1>1, <1>2, <1>3 DEF Delivery!Deliver
<1> QED
  BY <1>1, <1>4 DEF Delivery!Next

\* Marking a job's punches confirms a batch that has arrived.
LEMMA MarkIsConfirm ==
  ASSUME TypeOK, DeliveryInv, NEW w \in Workers, NEW i \in current[w], MarkSynced(w, i)
  PROVE  Delivery!Next
<1>1. i \in Item /\ i.rows \in SUBSET Records /\ i.id \in JobIds
  BY DEF TypeOK, Item
<1>2. \A r \in i.rows : timeRecords[r] # "absent"
  BY <1>1 DEF DeliveryInv, ItemsAreJobs, JobsHoldPunches
<1>3. \A r \in i.rows : cloud[Hash[r]] = 1
  <2>1. \A r \in i.rows : Hash[r] \in Hashes
    BY <1>1, WorkerAssumption
  <2>2. \A r \in i.rows : cloud[Hash[r]] > 0
    BY DEF MarkSynced, DeliveryInv, MarkAfterUpsert
  <2>3. \A h \in Hashes : cloud[h] \in Nat /\ cloud[h] <= 1
    BY DEF TypeOK, DeliveryInv, AtMostOnce
  <2> QED
    BY <2>1, <2>2, <2>3
<1>4. timeRecords' = [r \in Records |->
                        IF r \in i.rows THEN "synced" ELSE timeRecords[r]]
      /\ UNCHANGED cloud
  BY DEF MarkSynced, Marked, remote
<1>5. {r \in Records : timeRecords'[r] = "synced"}
        = {r \in Records : timeRecords[r] = "synced"} \cup i.rows
  BY <1>1, <1>4
<1>6. {r \in Records : timeRecords'[r] # "absent"}
        = {r \in Records : timeRecords[r] # "absent"}
  BY <1>1, <1>2, <1>4
<1>7. Delivery!Confirm(i.rows)
  BY <1>1, <1>2, <1>3, <1>4, <1>5, <1>6 DEF Delivery!Confirm
<1> QED
  BY <1>1, <1>7 DEF Delivery!Next

\* The agent's mirroring of a punch is the recording of a punch.
LEMMA CollectIsPunch ==
  ASSUME TypeOK, NEW r \in Records, Collect(r)
  PROVE  Delivery!Next
<1>1. timeRecords[r] = "absent" /\ UNCHANGED cloud
      /\ timeRecords' = [timeRecords EXCEPT ![r] = "unsynced"]
  BY DEF Collect, remote
<1>2. {s \in Records : timeRecords'[s] # "absent"}
        = {s \in Records : timeRecords[s] # "absent"} \cup {r}
  BY <1>1 DEF TypeOK
<1>3. {s \in Records : timeRecords'[s] = "synced"}
        = {s \in Records : timeRecords[s] = "synced"}
  BY <1>1 DEF TypeOK
<1>4. Delivery!Punch(r)
  BY <1>1, <1>2, <1>3 DEF Delivery!Punch
<1> QED
  BY <1>4 DEF Delivery!Next

\* Every step is the recording of a punch, a delivery, a confirmation or none.
LEMMA RefinementStep ==
  TypeOK /\ DeliveryInv /\ [Next]_vars =>
    [Delivery!Next]_<<{r \in Records : timeRecords[r] # "absent"},
                      {r \in Records : timeRecords[r] = "synced"}, cloud>>
<1> SUFFICES ASSUME TypeOK, DeliveryInv, [Next]_vars
             PROVE  Delivery!Next \/ UNCHANGED <<timeRecords, cloud>>
  BY Stutters
<1>1. ASSUME NEW r \in Records, Collect(r)
      PROVE  Delivery!Next
  BY <1>1, CollectIsPunch
<1>2. ASSUME NEW w \in Workers, Ingest(w) \/ ProcessQueue(w)
      PROVE  UNCHANGED <<timeRecords, cloud>>
  BY <1>2 DEF Ingest, SelectUnsynced, SkipIngestion, EnqueueDevice, ProcessQueue,
              AcquireLock, LockBusy, SelectReady, ClaimJobs, FinishQueue, database,
              remote
<1>3. ASSUME NEW w \in Workers, NEW i \in inHand[w] \cup current[w],
             ProcessOneJob(w, i)
      PROVE  Delivery!Next \/ UNCHANGED <<timeRecords, cloud>>
  <2>1. CASE UpsertApplied(w, i)
    BY <2>1, UpsertIsDeliver DEF UpsertApplied, database
  <2>2. CASE MarkSynced(w, i)
    BY <2>2, MarkIsConfirm DEF MarkSynced
  <2>3. CASE \/ ReturnToPending(w, i) \/ StartUpsert(w, i) \/ UpsertRefused(w, i)
             \/ Ack(w, i) \/ Promote(w, i)
    BY <2>3 DEF ReturnToPending, StartUpsert, UpsertRefused, JobFails, Ack, Promote,
                database, remote
  <2> QED
    BY <1>3, <2>1, <2>2, <2>3 DEF ProcessOneJob
<1>4. ASSUME NEW w \in Workers, Failure(w)
      PROVE  Delivery!Next \/ UNCHANGED <<timeRecords, cloud>>
  <2>1. ASSUME NEW i \in current[w], UpsertFailed(w, i)
        PROVE  Delivery!Next \/ UNCHANGED <<timeRecords, cloud>>
    <3>1. UNCHANGED timeRecords
      BY <2>1 DEF UpsertFailed, JobFails
    <3>2. UNCHANGED cloud \/ cloud' = Upserted(i.rows)
      BY <2>1 DEF UpsertFailed
    <3> QED
      BY <3>1, <3>2, UpsertIsDeliver
  <2>2. ASSUME NEW i \in current[w], LocalWriteFailed(w, i) \/ PromoteFailed(w, i)
        PROVE  UNCHANGED <<timeRecords, cloud>>
    BY <2>2 DEF LocalWriteFailed, JobFails, PromoteFailed, database, remote
  <2>3. CASE ReleaseFailed(w) \/ TickThrows(w) \/ CrashRestart(w)
    BY <2>3 DEF ReleaseFailed, TickThrows, CrashRestart, database, remote
  <2> QED
    BY <1>4, <2>1, <2>2, <2>3 DEF Failure
<1>5. CASE Timers \/ RequeueDeadLetter
  BY <1>5 DEF Timers, BackoffElapsed, ResetTimeout, LockExpires, Reconcile,
              PurgeDone, RequeueDeadLetter, database, remote
<1>6. CASE UNCHANGED vars
  BY <1>6 DEF vars
<1> QED
  BY <1>1, <1>2, <1>3, <1>4, <1>5, <1>6 DEF Next, Progress

\* The pipeline starts with nothing recorded, confirmed or delivered.
LEMMA RefinementInit == Init => Delivery!Init
BY DEF Init, Delivery!Init

\* The pipeline implements exactly-once delivery: the queue, its retries, the
\* crashes and any number of workers show outside only as punches recorded,
\* delivered once and confirmed after that.
THEOREM ImplementsDelivery == Spec => DeliversPunches
BY RefinementInit, RefinementStep, TypeCorrect, DeliveryInvariant, PTL
   DEF Spec, DeliversPunches, Delivery!Spec
===============================================================================
