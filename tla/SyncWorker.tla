------------------------------ MODULE SyncWorker ------------------------------
(***************************************************************************)
(* The agent's pipeline from the local SQLite database to the cloud:       *)
(*   time_records -> sync_jobs -> clock_event_logs -> espelho              *)
(* as run by services/syncService.js on services/syncQueue.js, with the    *)
(* breaker of services/circuitBreaker.js and the lock of                   *)
(* services/distributedLock.js.  A worker is one process running           *)
(* startSyncService; several may share the database file.                  *)
(*                                                                         *)
(* A step is the code between two points where a worker can be interrupted *)
(* by its own awaits, by another process on the same database, or by a     *)
(* crash: one SQLite statement or transaction, or one cloud call.          *)
(***************************************************************************)
EXTENDS BreakerOps

CONSTANTS
  Workers,            \* processes running the worker on this database
  Records,            \* punches, numbered by p_data_hora
  Hashes, Devices,
  Hash,               \* dedupe_hash of a record
  Device,             \* company and device of a record
  Malformed,          \* records the worker refuses to enqueue for ever
  Poison,             \* records whose insertion the cloud refuses for ever
  EnqueueBatch,       \* ENQUEUE_BATCH_SIZE
  WorkerBatch,        \* WORKER_BATCH_SIZE
  BackpressureLimit,  \* BACKPRESSURE_LIMIT
  MaxAttempts,        \* MAX_ATTEMPTS
  Throttled,          \* whether rate, flood or tenant limits may hold punches back
  Pausable,           \* whether maintenance mode may be switched on
  ExclusiveLock,      \* whether the lock excludes the other workers
  JobIds,             \* bound: the jobs sync_jobs can hold
  MaxFaults           \* bound: crashes and failed calls of a behaviour

ASSUME WorkerAssumption ==
  /\ Records \subseteq Nat
  /\ Hash \in [Records -> Hashes]
  /\ Device \in [Records -> Devices]
  /\ Malformed \subseteq Records
  /\ Poison \subseteq Records
  /\ EnqueueBatch \in Nat \ {0}
  /\ WorkerBatch \in Nat \ {0}
  /\ BackpressureLimit \in Nat
  /\ MaxAttempts \in Nat \ {0}
  /\ {Throttled, Pausable, ExclusiveLock} \subseteq BOOLEAN
  /\ MaxFaults \in Nat

\* The device is one of the fields the hash is computed from.
ASSUME HashAssumption ==
  \A r, s \in Records : Hash[r] = Hash[s] => Device[r] = Device[s]

VARIABLES
  timeRecords,  \* time_records: each record absent, unsynced or synced
  syncJobs,     \* sync_jobs, by id
  cloud,        \* rows of clock_event_logs with each dedupe hash
  espelho,      \* dedupe hashes promoted to the timesheet
  locks,        \* workers whose sync_worker lock row is in force
  pc,           \* where each worker's tick is
  selected,     \* punches read by enqueueFromTimeRecords, not handled yet
  inHand,       \* jobs read by dequeue, not handled yet
  current,      \* the job processOneJob is at (at most one)
  breaker,      \* each process's circuit breaker
  faults        \* crashes and failed calls so far

database == <<timeRecords, syncJobs, locks>>
remote   == <<cloud, espelho>>
memory   == <<pc, selected, inHand, current, breaker>>
vars     == <<timeRecords, syncJobs, cloud, espelho, locks,
              pc, selected, inHand, current, breaker, faults>>

JobStatus == {"none", "pending", "processing", "done", "failed"}

\* due: next_run_at <= now.  "none": no row with this id.
Job == [status : JobStatus, rows : SUBSET Records, attempts : Nat, due : BOOLEAN]

NoJob == [status |-> "none", rows |-> {}, attempts |-> 0, due |-> FALSE]

\* What dequeue returns of a job: its payload and the attempts it then had.
Item == [id : JobIds, rows : SUBSET Records, attempts : Nat]

JobsWith(status) == {j \in JobIds : syncJobs[j].status = status}

Unsynced == {r \in Records : timeRecords[r] = "unsynced"}

ReadyJobs == {j \in JobsWith("pending") : syncJobs[j].due}

Steps == {"idle", "ingest", "dequeue", "claim", "loop", "upsert", "mark", "ack",
          "promote"}

\* Between the lock's acquisition and its release.
InProcessQueue(w) == pc[w] \notin {"idle", "ingest"}

TypeOK ==
  /\ timeRecords \in [Records -> {"absent", "unsynced", "synced"}]
  /\ syncJobs \in [JobIds -> Job]
  /\ cloud \in [Hashes -> Nat]
  /\ espelho \subseteq Hashes
  /\ locks \subseteq Workers
  /\ pc \in [Workers -> Steps]
  /\ selected \in [Workers -> SUBSET Records]
  /\ inHand \in [Workers -> SUBSET Item]
  /\ current \in [Workers -> SUBSET Item]
  /\ breaker \in [Workers -> Breaker]
  /\ faults \in 0..MaxFaults

Init ==
  /\ timeRecords = [r \in Records |-> "absent"]
  /\ syncJobs = [j \in JobIds |-> NoJob]
  /\ cloud = [h \in Hashes |-> 0]
  /\ espelho = {}
  /\ locks = {}
  /\ pc = [w \in Workers |-> "idle"]
  /\ selected = [w \in Workers |-> {}]
  /\ inHand = [w \in Workers |-> {}]
  /\ current = [w \in Workers |-> {}]
  /\ breaker = [w \in Workers |-> NewBreaker]
  /\ faults = 0

Goto(w, step) == pc' = [pc EXCEPT ![w] = step]

Fault ==
  /\ faults < MaxFaults
  /\ faults' = faults + 1

\* The agent mirrors a punch read from the clock into time_records.
Collect(r) ==
  /\ timeRecords[r] = "absent"
  /\ timeRecords' = [timeRecords EXCEPT ![r] = "unsynced"]
  /\ UNCHANGED <<syncJobs, locks, remote, memory, faults>>

(***************************************************************************)
(* tick: enqueueFromTimeRecords                                            *)
(***************************************************************************)

Backpressure == Cardinality(JobsWith("pending")) > BackpressureLimit

\* Mutant of Oldest: one row short of the LIMIT.
OldestButOne(n, rows) == {r \in rows : Cardinality({s \in rows : s < r}) < n - 1}

\* ORDER BY p_data_hora ASC LIMIT n.
Oldest(n, rows) == {r \in rows : Cardinality({s \in rows : s < r}) < n}

SelectUnsynced(w) ==
  /\ pc[w] = "idle"
  /\ ~Backpressure
  /\ selected' = [selected EXCEPT ![w] = Oldest(EnqueueBatch, Unsynced)]
  /\ Goto(w, "ingest")
  /\ UNCHANGED <<database, remote, inHand, current, breaker, faults>>

SkipIngestion(w) ==
  /\ pc[w] = "idle"
  /\ Backpressure \/ Pausable
  /\ Goto(w, "ingest")
  /\ UNCHANGED <<database, remote, selected, inHand, current, breaker, faults>>

\* The punches that pass the validator and the tenant limit; with no job id
\* left in the bound, none.
Admitted(rows) ==
  IF JobsWith("none") = {} THEN {{}}
  ELSE IF Throttled THEN SUBSET (rows \ Malformed)
  ELSE {rows \ Malformed}

NewJob(rows) ==
  [status |-> "pending", rows |-> rows, attempts |-> 0, due |-> TRUE]

\* One device's punches become one job.  Nothing asks whether another job
\* already carries them.
EnqueueDevice(w, d) ==
  LET group == {r \in selected[w] : Device[r] = d} IN
  /\ pc[w] = "ingest"
  /\ group # {}
  /\ selected' = [selected EXCEPT ![w] = @ \ group]
  /\ \E valid \in Admitted(group) :
       IF valid = {} THEN UNCHANGED syncJobs
       ELSE \E j \in JobsWith("none") :
              syncJobs' = [syncJobs EXCEPT ![j] = NewJob(valid)]
  /\ UNCHANGED <<timeRecords, locks, remote, pc, inHand, current, breaker, faults>>

(***************************************************************************)
(* tick: processQueue                                                      *)
(***************************************************************************)

\* Mutant of CanLock: the row is taken whoever holds it.
CanAlwaysLock == TRUE

\* acquire's conditional UPDATE, or the INSERT into sync_locks, goes through.
CanLock == ExclusiveLock => locks = {}

AcquireLock(w) ==
  /\ pc[w] = "ingest"
  /\ selected[w] = {}
  /\ CanLock
  /\ locks' = locks \cup {w}
  /\ Goto(w, "dequeue")
  /\ UNCHANGED <<timeRecords, syncJobs, remote, selected, inHand, current,
                 breaker, faults>>

LockBusy(w) ==
  /\ pc[w] = "ingest"
  /\ selected[w] = {}
  /\ locks # {}
  /\ Goto(w, "idle")
  /\ UNCHANGED <<database, remote, selected, inHand, current, breaker, faults>>

\* dequeue, the SELECT.
SelectReady(w) ==
  /\ pc[w] = "dequeue"
  /\ \E ready \in SUBSET ReadyJobs :
       /\ IF Cardinality(ReadyJobs) <= WorkerBatch THEN ready = ReadyJobs
          ELSE Cardinality(ready) = WorkerBatch
       /\ inHand' = [inHand EXCEPT ![w] =
            {[id |-> j, rows |-> syncJobs[j].rows,
              attempts |-> syncJobs[j].attempts] : j \in ready}]
  /\ Goto(w, "claim")
  /\ UNCHANGED <<database, remote, selected, current, breaker, faults>>

Ids(items) == {i.id : i \in items}

\* dequeue, the UPDATE: by id alone, whatever the status is by now.
ClaimJobs(w) ==
  /\ pc[w] = "claim"
  /\ syncJobs' = [j \in JobIds |->
       IF j \in Ids(inHand[w]) THEN [syncJobs[j] EXCEPT !.status = "processing"]
       ELSE syncJobs[j]]
  /\ Goto(w, "loop")
  /\ UNCHANGED <<timeRecords, locks, remote, selected, inHand, current,
                 breaker, faults>>

\* The queue is drained, or was empty: finally, release.
FinishQueue(w) ==
  /\ pc[w] = "loop"
  /\ inHand[w] = {}
  /\ locks' = locks \ {w}
  /\ Goto(w, "idle")
  /\ UNCHANGED <<timeRecords, syncJobs, remote, selected, inHand, current,
                 breaker, faults>>

\* The remote release is lost; the TTL of the lock will have to run out.
ReleaseFailed(w) ==
  /\ pc[w] = "loop"
  /\ inHand[w] = {}
  /\ Fault
  /\ Goto(w, "idle")
  /\ UNCHANGED <<database, remote, selected, inHand, current, breaker>>

(***************************************************************************)
(* processOneJob                                                           *)
(***************************************************************************)

\* cb.isOpen: the job goes back to the queue and the breaker is not called.
ReturnToPending(w, i) ==
  /\ pc[w] = "loop"
  /\ i \in inHand[w]
  /\ breaker[w].state = "OPEN"
  /\ inHand' = [inHand EXCEPT ![w] = @ \ {i}]
  /\ syncJobs' = [syncJobs EXCEPT ![i.id].status = "pending"]
  /\ UNCHANGED <<timeRecords, locks, remote, pc, selected, current, breaker, faults>>

StartUpsert(w, i) ==
  /\ pc[w] = "loop"
  /\ i \in inHand[w]
  /\ breaker[w].state # "OPEN"
  /\ inHand' = [inHand EXCEPT ![w] = @ \ {i}]
  /\ current' = [current EXCEPT ![w] = {i}]
  /\ breaker' = [breaker EXCEPT ![w] = MaybeTransitionFromOpen(@)]
  /\ Goto(w, "upsert")
  /\ UNCHANGED <<database, remote, selected, faults>>

\* Mutant of Upserted: a plain insert.
InsertedAgain(rows) ==
  [h \in Hashes |-> IF h \in {Hash[r] : r \in rows} THEN cloud[h] + 1 ELSE cloud[h]]

\* upsert with onConflict dedupe_hash, ignoreDuplicates: one statement.
Upserted(rows) ==
  [h \in Hashes |->
     IF cloud[h] = 0 /\ h \in {Hash[r] : r \in rows} THEN 1 ELSE cloud[h]]

Recorded(w, ok) ==
  \E old \in Expired(breaker[w].calls) :
    breaker' = [breaker EXCEPT ![w] =
                  IF ok THEN RecordSuccess(@, old) ELSE RecordFailure(@, old)]

UpsertApplied(w, i) ==
  /\ pc[w] = "upsert"
  /\ i \in current[w]
  /\ i.rows \cap Poison = {}
  /\ cloud' = Upserted(i.rows)
  /\ Recorded(w, TRUE)
  /\ Goto(w, "mark")
  /\ UNCHANGED <<database, espelho, selected, inHand, current, faults>>

\* Mutant of AfterError: the attempt just made is not counted.
AfterErrorOffByOne(job, i, retryable) ==
  IF retryable /\ i.attempts < MaxAttempts
  THEN [job EXCEPT !.status = "pending", !.attempts = i.attempts + 1, !.due = FALSE]
  ELSE [job EXCEPT !.status = "failed", !.attempts = i.attempts + 1]

\* Mutant of AfterError: a status the CHECK of sync_jobs does not know.
AfterErrorNewStatus(job, i, retryable) ==
  [job EXCEPT !.status = "error", !.attempts = i.attempts + 1]

\* The catch of processOneJob: dead letter at once for a permanent error, a
\* later attempt or the dead letter for a transient one.  The attempts are
\* those dequeue read.
AfterError(job, i, retryable) ==
  IF retryable /\ i.attempts + 1 < MaxAttempts
  THEN [job EXCEPT !.status = "pending", !.attempts = i.attempts + 1, !.due = FALSE]
  ELSE [job EXCEPT !.status = "failed", !.attempts = i.attempts + 1]

JobFails(w, i, retryable) ==
  /\ syncJobs' = [syncJobs EXCEPT ![i.id] = AfterError(@, i, retryable)]
  /\ current' = [current EXCEPT ![w] = {}]
  /\ Goto(w, "loop")
  /\ UNCHANGED <<timeRecords, locks, espelho, selected, inHand>>

\* The cloud refuses a row, and with it the whole statement.
UpsertRefused(w, i) ==
  /\ pc[w] = "upsert"
  /\ i \in current[w]
  /\ i.rows \cap Poison # {}
  /\ Recorded(w, FALSE)
  /\ \E retryable \in BOOLEAN : JobFails(w, i, retryable)
  /\ UNCHANGED <<cloud, faults>>

\* The call fails: on the way there, on the way back (the rows are in), or
\* for good (credentials).
UpsertFailed(w, i) ==
  /\ pc[w] = "upsert"
  /\ i \in current[w]
  /\ Fault
  /\ Recorded(w, FALSE)
  /\ \E retryable \in BOOLEAN : JobFails(w, i, retryable)
  /\ \/ UNCHANGED cloud
     \/ i.rows \cap Poison = {} /\ cloud' = Upserted(i.rows)

\* Mutant of Marked: UPDATE ... WHERE synced = 0, without the id.
MarkedAll(rows) ==
  [r \in Records |-> IF timeRecords[r] = "absent" THEN "absent" ELSE "synced"]

\* Mutant of Marked: only the oldest punch of the job.
MarkedFirst(rows) ==
  [r \in Records |->
     IF r \in rows /\ \A s \in rows : r <= s THEN "synced" ELSE timeRecords[r]]

Marked(rows) == [r \in Records |-> IF r \in rows THEN "synced" ELSE timeRecords[r]]

\* The transaction that sets synced = 1.
MarkSynced(w, i) ==
  /\ pc[w] = "mark"
  /\ i \in current[w]
  /\ timeRecords' = Marked(i.rows)
  /\ Goto(w, "ack")
  /\ UNCHANGED <<syncJobs, locks, remote, selected, inHand, current, breaker, faults>>

Ack(w, i) ==
  /\ pc[w] = "ack"
  /\ i \in current[w]
  /\ syncJobs' = [syncJobs EXCEPT ![i.id].status = "done"]
  /\ Goto(w, "promote")
  /\ UNCHANGED <<timeRecords, locks, remote, selected, inHand, current, breaker, faults>>

\* SQLite refuses the write of MarkSynced or Ack (busy, full): same catch.
LocalWriteFailed(w, i) ==
  /\ pc[w] \in {"mark", "ack"}
  /\ i \in current[w]
  /\ Fault
  /\ JobFails(w, i, TRUE)
  /\ UNCHANGED <<cloud, breaker>>

HashesOf(d) == {Hash[r] : r \in {s \in Records : Device[s] = d}}

InCloud == {h \in Hashes : cloud[h] > 0}

\* promote_clock_events_to_espelho for one company and device.
Promoted(d) == espelho \cup (HashesOf(d) \cap InCloud)

\* promoteEspelho: its errors are swallowed, but the breaker records them.
Promote(w, i) ==
  /\ pc[w] = "promote"
  /\ i \in current[w]
  /\ Recorded(w, TRUE)
  /\ \E r \in i.rows : espelho' = Promoted(Device[r])
  /\ current' = [current EXCEPT ![w] = {}]
  /\ Goto(w, "loop")
  /\ UNCHANGED <<database, cloud, selected, inHand, faults>>

PromoteFailed(w, i) ==
  /\ pc[w] = "promote"
  /\ i \in current[w]
  /\ Fault
  /\ Recorded(w, FALSE)
  /\ current' = [current EXCEPT ![w] = {}]
  /\ Goto(w, "loop")
  /\ UNCHANGED <<database, remote, selected, inHand>>

(***************************************************************************)
(* Timers, operators, crashes                                              *)
(***************************************************************************)

\* Mutant of Reconcile: the test of the breaker is inverted.
ReconcileWhenOpen(w, d) ==
  /\ breaker[w].state = "OPEN"
  /\ espelho' = Promoted(d)
  /\ UNCHANGED <<database, cloud, memory, faults>>

\* The reconciler's timer promotes one device, unless the breaker is OPEN.
Reconcile(w, d) ==
  /\ breaker[w].state # "OPEN"
  /\ espelho' = Promoted(d)
  /\ UNCHANGED <<database, cloud, memory, faults>>

\* next_run_at of a job goes by.
BackoffElapsed(j) ==
  /\ syncJobs[j].status = "pending"
  /\ ~syncJobs[j].due
  /\ syncJobs' = [syncJobs EXCEPT ![j].due = TRUE]
  /\ UNCHANGED <<timeRecords, locks, remote, memory, faults>>

ResetTimeout(w) ==
  /\ breaker[w].state = "OPEN"
  /\ ~breaker[w].elapsed
  /\ breaker' = [breaker EXCEPT ![w].elapsed = TRUE]
  /\ UNCHANGED <<database, remote, pc, selected, inHand, current, faults>>

\* Mutant of LeaseOver: processQueue does not renew its lock.
LeaseOverAtWork(w) == w \in locks

\* Mutant of LeaseOver: a lock without a TTL.
LeaseNeverOver(w) == FALSE

\* A lock left behind runs out; a worker in processQueue renews its own.
LeaseOver(w) == w \in locks /\ ~InProcessQueue(w)

LockExpires(w) ==
  /\ LeaseOver(w)
  /\ locks' = locks \ {w}
  /\ UNCHANGED <<timeRecords, syncJobs, remote, memory, faults>>

\* POST /api/admin/sync-errors, in another process.
RequeueDeadLetter ==
  /\ \E chosen \in SUBSET JobsWith("failed") \ {{}} :
       syncJobs' = [j \in JobIds |->
         IF j \in chosen
         THEN [syncJobs[j] EXCEPT !.status = "pending", !.attempts = 0, !.due = TRUE]
         ELSE syncJobs[j]]
  /\ UNCHANGED <<timeRecords, locks, remote, memory, faults>>

\* Mutant of Purgeable: no retention time.
PurgeableAtOnce == JobsWith("done")

\* Jobs done for three days, and so in no worker's hands.
Purgeable ==
  {j \in JobsWith("done") :
     \A w \in Workers : j \notin Ids(inHand[w] \cup current[w])}

\* purgeDoneJobs.
PurgeDone ==
  /\ \E purged \in SUBSET Purgeable \ {{}} :
       syncJobs' = [j \in JobIds |-> IF j \in purged THEN NoJob ELSE syncJobs[j]]
  /\ UNCHANGED <<timeRecords, locks, remote, memory, faults>>

\* The process dies and is started again: SQLite stays, the lock row too.
CrashRestart(w) ==
  /\ Fault
  /\ Goto(w, "idle")
  /\ selected' = [selected EXCEPT ![w] = {}]
  /\ inHand' = [inHand EXCEPT ![w] = {}]
  /\ current' = [current EXCEPT ![w] = {}]
  /\ breaker' = [breaker EXCEPT ![w] = NewBreaker]
  /\ UNCHANGED <<database, remote>>

\* SQLite refuses a write that only tick catches: of the enqueue, of the
\* dequeue, or of processOneJob's own catch.  What was in hand is dropped;
\* the finally of processQueue releases the lock.
TickThrows(w) ==
  /\ pc[w] \notin {"idle", "promote"}
  /\ Fault
  /\ locks' = IF InProcessQueue(w) THEN locks \ {w} ELSE locks
  /\ Goto(w, "idle")
  /\ selected' = [selected EXCEPT ![w] = {}]
  /\ inHand' = [inHand EXCEPT ![w] = {}]
  /\ current' = [current EXCEPT ![w] = {}]
  /\ IF pc[w] = "upsert" THEN Recorded(w, FALSE) ELSE UNCHANGED breaker
  /\ UNCHANGED <<timeRecords, syncJobs, remote>>

Ingest(w) ==
  \/ SelectUnsynced(w)
  \/ SkipIngestion(w)
  \/ \E d \in Devices : EnqueueDevice(w, d)

ProcessQueue(w) ==
  \/ AcquireLock(w)
  \/ LockBusy(w)
  \/ SelectReady(w)
  \/ ClaimJobs(w)
  \/ FinishQueue(w)

ProcessOneJob(w, i) ==
  \/ ReturnToPending(w, i)
  \/ StartUpsert(w, i)
  \/ UpsertApplied(w, i)
  \/ UpsertRefused(w, i)
  \/ MarkSynced(w, i)
  \/ Ack(w, i)
  \/ Promote(w, i)

\* What a worker does when nothing fails.
Progress(w) ==
  \/ Ingest(w)
  \/ ProcessQueue(w)
  \/ \E i \in inHand[w] \cup current[w] : ProcessOneJob(w, i)

Failure(w) ==
  \/ \E i \in current[w] :
       UpsertFailed(w, i) \/ LocalWriteFailed(w, i) \/ PromoteFailed(w, i)
  \/ ReleaseFailed(w)
  \/ TickThrows(w)
  \/ CrashRestart(w)

Timers ==
  \/ \E j \in JobIds : BackoffElapsed(j)
  \/ \E w \in Workers : ResetTimeout(w) \/ LockExpires(w)
  \/ \E w \in Workers, d \in Devices : Reconcile(w, d)
  \/ PurgeDone

Next ==
  \/ \E r \in Records : Collect(r)
  \/ \E w \in Workers : Progress(w) \/ Failure(w)
  \/ Timers
  \/ RequeueDeadLetter

Spec == Init /\ [][Next]_vars

\* Each process runs on, its timers fire, backoffs and lock leases run out.
\* Nothing is asked of the clock, the operators or the failures.
FairSpec ==
  /\ Spec
  /\ \A w \in Workers : WF_vars(Progress(w)) /\ WF_vars(LockExpires(w))
  /\ \A w \in Workers : WF_vars(ResetTimeout(w))
  /\ \A w \in Workers, d \in Devices : WF_vars(Reconcile(w, d))
  /\ \A j \in JobIds : WF_vars(BackoffElapsed(j))
  /\ WF_vars(PurgeDone)

(***************************************************************************)
(* Safety                                                                  *)
(***************************************************************************)

\* A punch the site counts as delivered is in the cloud: no crash, lost
\* answer, stale job or second worker makes synced = 1 run ahead of the upsert.
NoLostPunch ==
  \A r \in Records : timeRecords[r] = "synced" => cloud[Hash[r]] > 0

\* However often a punch is enqueued and sent, the cloud holds it once.
AtMostOnce == \A h \in Hashes : cloud[h] <= 1

\* A job is only ever closed over punches that are all marked synced, so
\* purging done jobs cannot drop work.
DoneMeansSynced ==
  \A j \in JobsWith("done") : \A r \in syncJobs[j].rows : timeRecords[r] = "synced"

\* What makes the above inductive: an item in hand is the payload of a job
\* that exists, "mark" is reached with its punches in the cloud and "ack" with
\* its punches marked, whoever else touches the job in between.
ItemsAreJobs ==
  \A w \in Workers : \A i \in inHand[w] \cup current[w] :
    syncJobs[i.id].status # "none" /\ i.rows = syncJobs[i.id].rows

OneCurrentJob == \A w \in Workers : \A i, k \in current[w] : i = k

MarkAfterUpsert ==
  \A w \in Workers : pc[w] = "mark" =>
    \A i \in current[w] : \A r \in i.rows : cloud[Hash[r]] > 0

AckAfterMark ==
  \A w \in Workers : pc[w] = "ack" =>
    \A i \in current[w] : \A r \in i.rows : timeRecords[r] = "synced"

\* Only punches the site holds are queued.
JobsHoldPunches ==
  \A j \in JobIds : \A r \in syncJobs[j].rows : timeRecords[r] # "absent"

SelectedArePunches ==
  \A w \in Workers : \A r \in selected[w] : timeRecords[r] # "absent"

DeliveryInv ==
  /\ NoLostPunch
  /\ AtMostOnce
  /\ DoneMeansSynced
  /\ ItemsAreJobs
  /\ OneCurrentJob
  /\ MarkAfterUpsert
  /\ AckAfterMark
  /\ JobsHoldPunches
  /\ SelectedArePunches

\* A job has tries left while it is queued, and reaches the dead letter after
\* at least one of them.
AttemptsBounded ==
  \A j \in JobIds :
    /\ syncJobs[j].status = "pending" => syncJobs[j].attempts < MaxAttempts
    /\ syncJobs[j].status = "failed" => syncJobs[j].attempts \in 1..MaxAttempts

\* Under an exclusive lock no two workers hold the same job.
OneHandPerJob ==
  \A v, w \in Workers :
    v # w => Ids(inHand[v] \cup current[v]) \cap Ids(inHand[w] \cup current[w]) = {}

\* Under an exclusive lock a finished job is never taken up again.
DoneIsFinal ==
  [][\A j \in JobIds :
       syncJobs[j].status = "done" => syncJobs'[j].status \in {"done", "none"}]_vars

\* The pipeline delivers punches exactly once, whatever its queue does.
Delivery == INSTANCE PunchDelivery WITH
  punched <- {r \in Records : timeRecords[r] # "absent"},
  confirmed <- {r \in Records : timeRecords[r] = "synced"},
  delivered <- cloud

DeliversPunches == Delivery!Spec

\* Under an exclusive lock the workers see of it what its contract says, which
\* is what DistributedLock provides.
Lock == INSTANCE LockContract WITH
  row <- locks # {},
  inside <- {w \in Workers : InProcessQueue(w)}

KeepsLockContract == Lock!Spec

(***************************************************************************)
(* Liveness                                                                *)
(***************************************************************************)

\* Every well-formed punch that reaches the site is eventually confirmed.
EventuallySynced ==
  \A r \in Records \ Malformed :
    timeRecords[r] = "unsynced" ~> timeRecords[r] = "synced"

\* What is in the cloud eventually reaches the timesheet.
EventuallyPromoted == \A h \in Hashes : cloud[h] > 0 ~> h \in espelho

\* Whoever leaves the lock behind, it comes free again.
LockComesBack == \A w \in Workers : []<>(w \notin locks)

(***************************************************************************)
(* What the documentation says, and the code does not do                   *)
(***************************************************************************)

\* The outage runbook: the circuit breaker resets by itself after 30 seconds.
BreakerRecovers ==
  \A w \in Workers : breaker[w].state = "OPEN" ~> breaker[w].state # "OPEN"
===============================================================================
