# SmartPonto in TLA+: the punch pipeline, updates, provisioning

SmartPonto collects punches from time clocks, keeps them in a SQLite database on
the customer's site and carries them to Supabase, where they become timesheet
("espelho") entries. The repository also holds the web application, a backend, a
tenant control plane and an update agent. These modules model the parts whose
failure costs someone's working time or a customer's data: the **on-site agent and
its worker**, the **updater** of such an installation with the control plane
that directs it, and the **provisioning** of customers by the Master panel. The
other subsystems are listed below with what keeps them out.

## 1. Inventory

### The pipeline

```
 clock --fetch--> agent tick --INSERT OR IGNORE--> time_records (SQLite)
                                                        |
                                  tick: enqueueFromTimeRecords (validator, limits)
                                                        v
                                                   sync_jobs (SQLite)
                                                        |
             processQueue (lock) -> processOneJob (breaker) -> upsert
                                                        v
                             clock_event_logs (cloud) --promote--> espelho
```

| Component | State | Operations | Hard behaviours | Correct when |
|---|---|---|---|---|
| Agent tick (`agent/index.ts`, `src/services/sync.service.ts`) | `devices.last_sync` in the cloud; locals of a tick | fetch what is stamped after the cursor, stage, PATCH the cursor | `setInterval` overlaps ticks; calls fail, are repeated by `withRetry`, or answer late; crash between staging and PATCH | the cursor never passes a punch that is not stored |
| Offline queue (`agent/queue/offlineQueue.ts`) | `time_records`, unique on (rep_id, nsr); `pending_punches` (direct mode) | INSERT OR IGNORE in a transaction | repeated staging; colliding nsr | each punch once |
| Sync worker (`services/syncService.js`) | `time_records.synced`, `sync_jobs`, the jobs in memory | `tick` = `enqueueFromTimeRecords` then `processQueue`; `processOneJob`; `promoteEspelho`; maintenance mode; backpressure | upsert, mark and ack are three commits; lost answers; crash between any two; a second process on the file; stale jobs | exactly once in the cloud, `synced = 1` never ahead of it, nothing lost, everything well formed confirmed in the end |
| Queue (`services/syncQueue.js`) | `sync_jobs`, `sync_locks` | `enqueueAtomic`, `dequeue`, `ack`, requeue of dead letters, `purgeDoneJobs`, local lock | SELECT and UPDATE of `dequeue` are apart; updates by id whatever the status is | one hand per job; attempts bounded; a done job stays done |
| Circuit breaker (`services/circuitBreaker.js`) | state, sliding window of calls, opening time | `call`, `isOpen`, window pruning | probe in HALF; late settling; lazily pruned window | trips on recent calls only, probes, closes or reopens |
| Distributed lock (`services/distributedLock.js`) | `distributed_locks` row, each host's `sync_locks` row, `_heldLocks` | acquire (with fallback), renew, release | cloud answers one host and not another; crash with the lock; lost release | one worker at a time; a lease in force is respected; always comes free |
| Punch validator (`services/punchValidator.js`) | windows of checks per device and employee | `validatePunch` | every tick validates the same waiting punches again | limits hold in any window; well-formed punches get through |
| Error classifier, tenant limits, reconciler, admin requeue | - | verdict of an error; a daily quota; repeated promotion; dead letters back to pending | interleave with the worker | as above |

Interactions: agent and worker run in one Node process (or several, on one
database file) and share only SQLite; worker, reconciler and maintenance are
timers of one event loop, so that they interleave at awaits; processes interleave
at SQLite statements and cloud calls.

### Updates

```
 Master panel --request, approve, cancel--> update requests (PostgreSQL)
                                                  ^
   updater service --heartbeat, claim, report-----+      installation directory
   fetch > backup > install > restart > health check     (entries, version file)
```

| Component | State | Operations | Hard behaviours | Correct when |
|---|---|---|---|---|
| Control plane (`backend/src/master/updates`, `updateAgent`) | `master_update_requests`, `_executions`, `reported_version`; handlers under way | create, approve, cancel; heartbeat, claim, report | handlers are statements without a transaction; they go on when their client has given up; updates rely on what was read before | one unfinished execution per request; only what an administrator approved is offered; what was left unfinished is taken up again |
| Updater (`updater-agent/`) | the installation directory, the running services; everything else dies with the process | `runOnce`, `runLoop` | copies that break off between two entries; a rollback that fails; a lost answer to the last report; crashes | confirms only what is installed and running; leaves the whole release its version file names; always reports in the end |

### Provisioning

| Component | State | Operations | Hard behaviours | Correct when |
|---|---|---|---|---|
| Provisioning (`backend/src/master/provisioning`) | `companies`, `users`, tenants with onboarding, subscription and licence; the in-process lock map | create, purge, repair | one document's requests race; the company is looked up before the locks; lock waits time out; a failed statement, a lost COMMIT answer, a compensation cut off by a restart | one tenant per document; a tenant is whole; nothing of another customer is deleted; every request is answered |

The Master panel is the only client of both. They share the database with the
pipeline's cloud, but no table.

### The rest of the repository

Clock event promotion, retention, audit trail, snapshots/DR/KMS/SLO, the
operational unit of work with its recovery and dead letters,
subscriptions and licences, hybrid sync, authentication, REP
ingestion, the time engine with the bank-hours ledger, SQL functions, the web
application. Each is listed in `PROJECT.json` ("components") with its state of
modelling; section 7 says why they stay out.

## 2. Modules

| Module | Models | Correspondence |
|---|---|---|
| `PunchDelivery` | the promise of the pipeline | punches are recorded, delivered once per `dedupe_hash`, confirmed only after that |
| `SyncWorker` | worker, queue, lock use, breaker use, reconciler, admin requeue | one action per SQLite statement/transaction or cloud call; `pc` names the place in `tick`; `inHand` are the jobs `dequeue` returned, `current` the one `processOneJob` is at |
| `BreakerOps` | the breaker as `SyncWorker` uses it | operators on one breaker record; how many calls have left the window is a choice (`Expired`) |
| `BreakerContract`, `CircuitBreaker` | the same operators as a specification; the real breaker with a clock | `CircuitBreaker` implements `BreakerContract` (`ImplementsContract`), so that the clock-free operators allow whatever the timed breaker does |
| `LockContract`, `DistributedLock` | what the lock promises `processQueue` while the cloud answers; the lock with leases, fallback and crashes | `DistributedLock` implements `LockContract` (`ImplementsLockContract`); `SyncWorker` has the lock as `ExclusiveLock`, TRUE for that contract (`KeepsLockContract`) and FALSE for two workers under different locks |
| `PunchValidator` | the two windows under the worker's repeated validation | `SyncWorker` leaves the outcome open (`Throttled`); here the worker is what the windows see of it: `Deliver`, or an outage that buries jobs and may trip the breaker for good (`SendFails`) |
| `ClockCollection` | the agent's tick in its default mode | one action per await of `syncOneDevice`; `SyncWorker!Collect` stands for what it leaves in `time_records` |
| `UpdateControl` | the panel's and the agent's handlers on one installation's tables | one action per SQL statement that another handler may come between; `session`, `beats`, `claims` and `reports` are the handlers under way and what they have read |
| `UpdaterAgent` | the updater on top of `UpdateControl` | one action per step of `runOnce`; `pc` names it; `disk` has a version per top-level entry, `running` the one the services were started from; `Ships` says which entries each release's archive has |
| `Provisioning` | create, purge, repair | one action per lock wait, look-up, transaction and compensating statement; `entry` and `ahead` are the promises chained on a key |
| `SyncWorkerProofs`, `DeliveryProofs`, `BreakerProofs`, `LockProofs`, `ValidatorProofs`, `CollectionProofs`, `UpdateProofs`, `ProvisioningProofs` | theorems | section 5 |
| `MC*` | instances for TLC | section 3 |

Abstractions worth knowing when reading `SyncWorker`:

* A record is a number, in the order of `p_data_hora`; `Hash` gives its
  `dedupe_hash` (two records may share one) and `Device` its company and device.
* `Malformed` records never pass the validator, `Poison` ones are refused by a
  constraint or trigger of the cloud. An error is permanent or transient by
  choice, which covers whatever `errorClassifier.js` makes of its text.
* Time is not counted: a backoff, the breaker's timeout, a lease or the three
  days of the purge just end (`BackoffElapsed`, `ResetTimeout`, `LockExpires`,
  `Purgeable`). The purge never meets a job still in a worker's hands.
* Logs, metrics, SLO, audit and alerts only write, and swallow their own
  errors; they are left out.

And when reading `CircuitBreaker` and `PunchValidator`:

* Instants are ages in ticks. The breaker's `_calls` is a sequence in the order of the
  calls, so that the filter of `_addCall` drops its first `Stale` entries.
* A window of the validator is kept as counts: `window[a]` is how many of its times are at
  most `a` ticks old. A push adds one at every age, a tick shifts them, and what the code
  calls `times.length` is the count at the oldest age.

And when reading `UpdaterAgent` and `Provisioning`:

* The stages an execution passes through before its end are one ("open"): no
  code branches on them. Reports of these stages are steps that may fail.
* A backup, a copy of one entry or a restart is one step; a failure or crash
  between the removal of an entry and its copy leaves it missing. Downloads and
  their checks succeed or fail. Services restart as on Windows, the platform of
  the installer.
* `reported` is written by heartbeats and by completed reports. Health
  checks may time out at any time, and pass only with the version file of the
  target.
* `install` overwrites or adds the entries of its archive and `restore` those of the
  backup; neither removes any other. What one release ships and another does not
  therefore stays beside it, and is part of `disk`.
* A provisioning transaction is one step: every create, purge or reuse writes
  the row of its tenant, and reads of other rows in it are not acted upon. What a
  handler reads *outside* its transaction is a step of its own.
* `Start` takes the company from the look-up by document or makes a fresh id; the
  `operationalCompanyId` that `createFullyProvisioned` also accepts (line 769) cannot
  come in by HTTP, whose validator drops it.
* With a tenant's row its onboarding, subscription and licence leave the model. When
  statements before it failed, the code keeps orphans of them that belong to no tenant; the
  next create that finds the same company row rebinds the onboarding (lines 963-973) and
  completes what lacks, or answers 409 when that orphan carries the deletion mark.
* The history variables `cutOff`, `broken` and `doubtful` are read by properties
  only; they name the exceptions the code does have.

## 3. Runs

| Run | Question | Shows |
|---|---|---|
| `MCSafety` | What can two workers, crashes and failed calls do to a punch? | Type correctness; attempts stay bounded; `synced = 1` implies the row is in the cloud; a done job has only synced punches; the inductive invariant of section 5; a job is in one hand; done is final; the worker implements `PunchDelivery`. |
| `MCLiveness` | Does everything arrive? | Every well-formed punch is confirmed and promoted, and a lock left behind comes free. |
| `MCBreakerStuck` | Does the breaker reset by itself? | **No** (section 6). |
| `MCBreaker` | Is the breaker right? | Trips only on calls of the window, HALF is a probe, an OPEN breaker whose user calls is probed, the contract is implemented. |
| `MCLock` | What does the remote lock guarantee? | One worker at a time under the remote row; it implements `LockContract`, so that leases in force are neither taken nor freed by others and run out under nobody; both locks always come free. |
| `MCLockSplit` | One worker at a time in all? | **No** (section 6). |
| `MCClock` | What may the cursor skip? | With overlapping ticks, late or lost answers and crashes: only punches made between a fetch and the `last_sync` it led to; all others are collected. |
| `MCClockSkips` | Is every punch kept? | **No** (section 6). |
| `MCThrottle` | Do limits hold and do punches get through? | Admissions stay within the limit in every window; under the limits' load everything well formed is delivered, also through outages that bury jobs, as long as the breaker does not trip. |
| `MCThrottleStarves` | Also above the limit? | **No** (section 6). |
| `MCUpdate` | What can a failure anywhere do to an update? | At most one unfinished execution per request; nothing installed that was not approved; a confirmation means installed *and* running; after a run, unless it was cut off or its rollback failed, the version file names a release that is there as a whole and runs; again and again no execution the agent can see is unfinished; the reported version catches up. |
| `MCProvision` | What can races and failures do to a customer? | One create per key and one tenant per document until a lock wait times out; whole tenants but for a lost COMMIT answer, such a lock or a stray purge; companies deleted by none but their own; "done" means there unless the transaction had been aborted; all requests end. |

### Bounds, and why they suffice

* `MCSafety`: two workers (all races are pairwise: two `dequeue`s, a stale item
  against a fresh one), three punches on two devices of which two share a hash
  and one is refused by the cloud, two jobs (a job and its duplicate), batches of
  2, two attempts, one fault. One fault already gives a crash or lost answer at
  every step; that faults do not add up to more is what the theorems say, which
  hold for any number. Jobs and workers are symmetric, and the run has no
  liveness property.
* `MCLiveness`: one worker, three punches of which the oldest is malformed,
  two jobs, one fault, a breaker that cannot trip on one fault
  (`MCBreakerStuck` shows what happens when it does). `ENQUEUE_BATCH_SIZE` is
  above the number of malformed punches: as many refused punches as the batch
  holds do block the head of the line (section 6).
* `MCBreaker`: three ticks of window, two of timeout, four calls at most; the
  threshold is the code's 50 %, `minRequests` 3 instead of 5.
* `MCLock`: three instances, two on one host; a lease of three ticks and jobs
  of up to two, the smallest in which a renewal matters.
* `MCClock`: two overlapping ticks, three punches of which two carry one nsr,
  three moments, one fault. A moment can hold a fetch, a punch and a
  `last_sync`, as a second on the clock can.
* `MCThrottle`: a window of three ticks, limits reduced to 7 and 5 and four
  punches of two employees. A tick checks at most three punches, two of them of one employee.
  What the two earlier ticks of a window have checked must leave room for one more:
  2 x 3 < 7 and 2 x 2 < 5. This is tight: with 6 or with 4 a backlog starves.
* `MCUpdate`: two versions (an update and a rollback), two requests and two
  approvals, so that a late handler of the first meets the second; one fault
  (crash, failed statement or step, lost answer) at any point; an installation of
  four entries: one that is replaced and backed up, one that no backup holds, one that only
  the second release ships (added by an update, dropped by the way back), and the version file. One administrator: his two statements already interleave with
  the agent's.
* `MCProvision`: three creates of one document whose company exists before
  (holder, waiter, and the one that comes when the map entry is gone), one
  purge, two faults (a failure, and a failing compensation of it), one lock
  timeout, one restart. Documents that differ share no key, no company and no row,
  so that one is enough; so is one administrator's address.

`MCBreakerStuck`, `MCLockSplit`, `MCClockSkips` and `MCThrottleStarves` use the
smallest instance that has the behaviour.

### Fairness

`SyncWorker!FairSpec`: each process runs on (`WF` of its own steps: the timer
fires again whenever a tick ends, and awaits return), the timers of backoff,
breaker, reconciler and purge fire, leases run out. No fairness for clocks,
operators or failures. `CircuitBreaker`: the clock runs, calls settle, the user
goes on calling. `DistributedLock`: the clock runs and a worker's queue of at most
`WORKER_BATCH_SIZE` jobs ends. `PunchValidator`: ticks go on, a batch is validated
to its end, and delivery is *strongly* fair: it is *assumed* that the cloud does not refuse
every call while the breaker lets calls pass. The code does not make it so; a breaker that
trips never lets a call pass again (`MCBreakerStuck`), and `EventuallyDelivered` ends there. `ClockCollection`: `setInterval` keeps starting ticks
and each runs to its end, also through errors. `UpdaterAgent`: the loop of the
service and the server's handlers go on; nobody must create, approve or cancel, and no
fault must happen. `Provisioning`: the event loop carries each request in progress on; no
wait must time out, so that `RequestsEnd` shows the locks to be free of deadlock.

## 4. Hazards

`PROJECT.json` ("hazards") lists, with file and line, what in this code a test
would hardly reach, and the properties that watch it. Those without a property
say why, or which planned module will have it.

## 5. What is proved

TLAPS checks the following for **all** values of the constants that satisfy the
named assumptions: any number of workers, punches, jobs, attempts, ticks and faults.

* `SyncWorkerProofs!TypeCorrect`: the variables of the pipeline stay well
  formed. Assumes `WorkerAssumption`, and for the breaker the assumption of
  `BreakerOps`.
* `DeliveryProofs!DeliveryInvariant`, `NoPunchLost`, `DoneJobsAreSynced`:
  `synced = 1` never runs ahead of the cloud and done jobs have nothing left to
  deliver. **The lock plays no part in them**: they hold with `ExclusiveLock`
  FALSE as well, where two workers really do process the same job.
  `NoLostPunch` alone is not inductive: when `MarkSynced` fires one must know that
  its punches are in the cloud although other workers may since have retried, reopened,
  requeued or completed the same job. The invariant therefore says what a *place in the code* knows:
  an item in hand is the payload of an existing job, whatever its status
  (`ItemsAreJobs`); at "mark" its punches are in the cloud (`MarkAfterUpsert`), at
  "ack" they are marked (`AckAfterMark`). These facts are stable because nothing ever
  leaves `clock_event_logs`, no punch goes back to `synced = 0`, and a job's
  payload never changes. `ItemsAreJobs` needs that the purge spares jobs in hand.
* `DeliveryProofs!ImplementsDelivery`: `Spec => PunchDelivery!Spec` under the
  mapping that forgets everything but the punches' states and the cloud. Each
  upsert is a `Deliver`, each marking a `Confirm`, and all else stutters; the
  proof uses the invariant at `Confirm`.
* `CollectionProofs!OnlyGaps`: `last_sync` passes an unstored punch only in
  the gap between a fetch and the time taken after it. The invariant extends the
  claim to the cursors that running ticks have read and to what each
  place in `syncOneDevice` knows: what was fetched covers everything from its
  cursor to its fetch, and from then on it is stored. A cursor is null or the end of a
  gap, which is what a punch made in the same moment needs.

* `CollectionProofs!CollectionTypes` is the type correctness it rests on.
* `SyncWorkerProofs!OneHandOnly`, `AttemptsStayBounded`, `DoneStaysDone`: **these are
  what the lock is for**, and all assume `ExclusiveLock`. None is inductive: two
  `dequeue`s that interleave put one job in two hands, and a stale item then writes over
  what another worker did. `HandInv` says that whoever is in `processQueue` holds the only
  lock row, that its hands hold each job once with a try left, and that a job in
  hand is pending or processing, so that nothing but its worker writes it.
  `MCLockSplit` shows that the assumption is not always true of the code;
  `LockProofs!ExclusiveWhileCloudAnswers` says when it is.
* `BreakerProofs!BreakerTypes`, `HalfIsAlwaysAProbe`, `TripsAreRecent`,
  `TimedBreakerImplementsContract`: the breaker for any threshold, window and timeout under
  `TimingAssumption`. HALF exists only while the call that probes is out; a trip out of CLOSED
  counts no call older than the window; and the breaker with its clock implements the
  clock-free `BreakerContract`, so that the operators `SyncWorker` has in its place allow
  whatever the timed breaker does. All rest on the window's order (`OldestFirst`,
  part of `TypeOK`): `_addCall` filters by time, and because older calls come first, what it
  drops is a prefix. The contract forgets when calls were made and may drop any
  number of the first; the refinement names that number (`Stale`).
* `ValidatorProofs!ValidatorTypes`, `AdmissionsStayBounded`: in no sliding window are
  more punches admitted than the limits of device and employee. The windows count
  *checks* and forget by age, so the invariant (`AdmissionInv`) compares them with the admissions
  age by age: at every age they hold at least what was admitted, and
  what was admitted since then is within the limit.
* `LockProofs!LockTypes`, `RemoteLockIsExclusive`, `RemoteRowKeepsContract`,
  `LeasesAreRespected`: the remote lock, for any number of hosts and instances. Exclusion
  and the contract assume `JobTicks < TTL`: the worker renews before each job
  (`syncService.js:443`), so that no job may take the 60 s of a lease, which nothing in the
  code enforces. Both rest on `LeaseHolds`: whoever runs owns the row, *knows* it (so that it
  renews), and has as much of the lease left as the time since its last renewal
  leaves. In the refinement a renewal or a lost answer of somebody outside can bring a row
  to life (`TakeUnheard`), and a late release of the local lock can clear a row of its own that
  nobody works under (`RunOut`); all else that happens to the row is done by the one inside.
  `LeasesAreRespected` needs no assumption: no other instance takes or frees the row of a
  worker whose lease is in force, even if that worker renews too late.
* `LockProofs!ContractExcludes`, `ExclusiveWhileCloudAnswers` and
  `SyncWorkerProofs!WorkersKeepLockContract` **join the two models of the lock**. The contract is enough
  for one worker at a time, and never without a lease. If every `acquire` is answered
  (`"acquire" \notin Outages`), nobody falls back and the claim at the head of
  `distributedLock.js` holds, whatever releases are lost; `MCLockSplit` shows that it needs that.
  Under `ExclusiveLock` the lock of `SyncWorker` is the contract's: `AcquireLock` takes,
  `FinishQueue`, `ReleaseFailed`, `TickThrows` and `CrashRestart` leave, `LockExpires` lets run
  out. That `SyncWorker` lets each of these happen whenever the contract does is for the
  reader to compare (it is a statement about ENABLED); only `TakeUnheard` has no counterpart, a row
  taken for nobody, which to the other workers looks like that of a worker that died at once.
* `UpdateProofs!UpdateTypes`, `OnlyApprovedInstalled`, `OneExecutionAtATime`,
  `RunsEndOnWholeRelease`, `CompletedMeansInstalled`: every safety property of
  `MCUpdate`, for any versions, entries, archives (`Ships`), administrators and faults, under
  `UpdateAssumption` and `EntriesAssumption` (the version file is among the entries that a
  backup keeps). Three invariants carry them. `Fits` says what each handler *remembers* of
  the tables (what a claim or report read, who may be offered to whom).
  `OneOpen`: at most one unfinished execution per request, because the unique index refuses the
  second of two racing claims, and no report reopens an execution. `RunFits`: while
  installing, the version file is copied last, so that a tree which shows the target
  version has its whole release; once past the installation every entry the target ships is of
  it; and unless a run was cut off, what is saved names a release and has its kept entries.
* `ProvisioningProofs!ProvisioningTypes`, `OneCreateInside`, `DocumentsStayApart`,
  `DoneIsThere`, `CompaniesStay`: for any number of requests, documents, faults, timeouts and
  restarts, under `ProvisioningAssumption`. That one create is inside a key
  follows from `ChainInv`: of two chained to a key one waits for the other, and the
  last to chain waits for all before it, as long as the map entry was not dropped
  under a holder (`broken`). One tenant per document then needs `NoneYet`: a create that is
  about to insert knows that no tenant of its document exists, which other
  creates cannot change while it is inside. `PathInv` follows a tenant from the look-up
  that found it to the transaction that reuses it, which is what `DoneIsThere` and
  `CompaniesStay` add.
* `ProvisioningProofs!TenantsStayWhole`: a tenant keeps its company, subscription, licence
  and administrator, whatever creates, compensations, purges, repairs and restarts do around
  it. A tenant can lose a row only to somebody else's statement, so that the question is who
  may name its company. `WholeInv` answers it. A company has one document wherever it is named:
  in its row, in a request under way, in a tenant, in what a repair is about to insert
  (`OneDocument`), since a request comes in with a company that has its document or with its own
  fresh id (`UnusedIds`, `FoundByDocument`). A create that compensates therefore shares its company
  with a tenant only if it shares the document, and then it is inside that document's lock
  alone (`UndoneAlone`) or the tenant is its own, from a COMMIT whose answer was lost
  (`UndoneInDoubt`). A purge takes the company of its own tenant, or its tenant has gone and it
  is on record as stray (`PurgesFit`, `OneTenantPerCompany`). The three exceptions of
  `TenantsAreWhole` are these, and section 6 describes each.

Only model-checked:

* Liveness under fairness, in all modules: out of this prover's reach.
  (`EventuallySynced`, `EventuallyPromoted`, `LockComesBack`, `OpenIsProbed`, `LocksComeFree`,
  `EventuallyCollected`, `EventuallyDelivered`, `ExecutionsEnd`, `ReportedCatchesUp`,
  `RequestsEnd`.) Every safety invariant and action property that a run checks is proved.

## 6. Where code and documentation part

Shown by runs:

* **The breaker stays OPEN** (`MCBreakerStuck`). `processOneJob` tests `cb.isOpen`
  and returns the job without calling the breaker; only `cb.call` moves
  OPEN to HALF. The runbook says it resets after 30 seconds. `promoteEspelho` runs
  only after a successful upsert, so that no call is left to probe with; the
  reconciler skips while OPEN. Only a restart helps.
* **Punches between fetch and cursor are lost** (`MCClockSkips`). `last_sync`
  is taken after fetching and staging; adapters filter by it.
* **A backlog starves itself** (`MCThrottleStarves`). Rejected checks count in the
  window and are repeated by every tick.
* **Two workers at once** (`MCLockSplit`). The fallback lock is per host, and the remote
  row may be held meanwhile.

Seen while modelling, without a run of their own:

* Every tick enqueues punches with `synced = 0` again, also those that a live job carries
  (`syncService.js:292`; `syncQueue.js:11` says otherwise), and those of dead letters with a permanent error
  (`fila-travada.md:80` says they are not processed again). The cloud's unique hash makes
  this harmless to delivery: the theorems cover it.
* One refused row makes the upsert of its whole job fail (`syncService.js:475`), and a
  permanent error buries the valid punches with it; they go on in later jobs,
  and are blocked for as long as they share a batch with that row.
* `dequeue` is not atomic as `syncQueue.js:181` says; under the lock this does not show.
* The breaker opens at a rate *equal* to the threshold, after rounding
  (`circuitBreaker.js:116`; line 12 says above).
* `release` deletes the host's local row whoever inserted it, and `renew` never
  extends it (`syncQueue.js:298`, `distributedLock.js:112`): two processes on one host
  can run under the local lock at once.
* Flood detection counts the repeated validations of one punch (`punchValidator.js:117`).
* A hundred or more oldest punches that are refused for ever hide all later ones
  (`syncService.js:294`).
* Punches older than 30 days are refused for ever by the drift check
  (`punchValidator.js:75`), however long the outage was.
* Jobs in 'processing' after a crash are never taken up again; their punches are
  enqueued anew, their rows remain.

In the updates:

* The checks of `createRequest` and `transitionRequest` and their writes are separate
  statements and no constraint backs them: two requests can be active at once, and
  a cancel that read "approved" overwrites a completed request. A failed request is
  approved again without asking whether another is active.
* A crash during the installation resumes with a *backup of the half-installed
  tree*; should that run fail too, it "restores" the mixture (`cutOff`).
* `node_modules` is replaced by the installation but in no backup
  (`backupManager.ts:14`): after a rollback it is of the new version
  (`RestsOnWholeRelease` speaks of the other entries).
* What a release no longer ships is never removed (`installer.ts:62`, under the comment
  "Troca atômica"), and a rollback leaves what the failed release added
  (`backupManager.ts:91`): an installation rests beside leftovers of other releases without any
  fault. `RestsOnWholeRelease` says that the entries of the release on file are all its own.
* If the report of `rolling_back` fails, nothing is restored (`orchestrator.ts:148`).
* If the answer to `completed` is lost, the agent rolls back while the control plane
  says completed; only `reported_version` is put right by the next heartbeat.
* A report that fails between its statements leaves the request in
  `manual_required` with no unfinished execution: visible to nobody, and in the way
  of every new request until it is cancelled.

In the provisioning:

* The stages marked "não derrubam criação obrigatória"
  (`MasterCompanyProvisioningService.ts:1044`) swallow SQL errors inside the
  transaction. PostgreSQL has aborted it by then, COMMIT answers ROLLBACK without an
  error, and the request is answered as done with nothing stored (action `Abort`).
* A lock wait that times out removes the map entry of the *holder* (line 193); the next
  request of that key walks in (`broken`). Creates of one known company still meet at
  the company's key.
* After a lost answer to COMMIT the compensation deletes a committed tenant
  statement by statement. Deleting the licence marks the onboarding
  (`createMasterComposition.ts:225`), so that a compensation cut off after that leaves a tenant
  that is not provisioned again (409) until the wizard makes a licence; once the subscription
  has gone, or the licence without the mark, it cannot be purged either. The mark is an `UPDATE` of
  its own: when it fails or the process stops before it, the next create completes the tenant.
* The journey of a reused tenant commits by itself: an error after it (line 850) answers a
  request as failed whose tenant is whole.
* The compensation of a create that found an existing company deletes that
  company's user with the administrator's address, also if it was there before.
* Purge takes no lock and reads before its transaction: a second purge of a tenant
  deletes company and users of the tenant provisioned since (`stray`). Repair may
  bring back the company row of a tenant purged meanwhile.

Elsewhere, while choosing what to model:

* The replay of operational dead letters cannot run: `claimOperationalDeadLetterRow`
  (`src/services/operationalDeadLetter.service.ts:97`) calls `select` on an update
  builder that has none (`src/services/dbHttp.ts`), and production does not let the
  table be written (`src/services/api.ts:108`).
* `fetchBankHoursLedgerRows` (`src/engine/bankHoursLedger.ts:73`) reads through a cache
  of 15 s that nothing invalidates: a recalculation of a period misses the credits
  just inserted.

## 7. Plan, and what is not modelled

Done: the pipeline (`PunchDelivery`, `SyncWorker`, breaker, lock, validator, default
mode of the collection), updates (`UpdateControl`, `UpdaterAgent`) and
`Provisioning`.

All safety properties and refinements are proved. Left to do: `initializeCommercial`, the rest of
the provisioning.

Not modelled, and why:

* **Operational unit of work and recovery**: what would be worth checking, that a
  replay writes nothing twice, is code that is never reached (section 6).
* **Clock event promotion, retention, audit trail**: single loops without a second
  actor; their hazards are listed with their lines.
* **The agent's direct mode** (`CLOCK_SYNC_DEFER_CLOUD_TO_WORKER=0`): a legacy
  switch; `pending_punches` are delivered at least once and de-duplicated by the
  cloud's hash, as in `SyncWorker`.
* **Bank-hours ledger and time engine**: date arithmetic and sums, without concurrency.
* **Subscriptions, licences, hybrid sync, scheduler, event bus**: state machines of one
  caller, or queues whose transports nothing wires.
* **`initializeCommercial`** of the provisioning: it takes no lock and checks only the
  company's id, but writes what a create writes.
* **Authentication**, presentation, cryptography, snapshots and SLO arithmetic: the
  modelled parts never read their results.
