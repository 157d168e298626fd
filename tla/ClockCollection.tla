---------------------------- MODULE ClockCollection ----------------------------
(***************************************************************************)
(* The head of the pipeline: the agent's tick (agent/index.ts) copies the  *)
(* punches of a time clock into the local time_records with                *)
(* syncOneDevice of src/services/sync.service.ts, in the default mode that *)
(* leaves the cloud to the worker (SyncWorker, where Collect stands for a  *)
(* record that has come through here).  devices.last_sync, in the cloud,   *)
(* is the cursor: a tick asks the clock for the punches stamped after it.  *)
(*                                                                         *)
(* setInterval starts a tick whether or not the previous one has ended.  A *)
(* step is the code between two awaits.  The clock's stamps are taken to   *)
(* be of the same time as the agent's; punches can share a moment.         *)
(***************************************************************************)
EXTENDS Integers

CONSTANTS
  Punches,    \* punches of one clock
  Key,        \* the nsr a punch is stored under; its own or from its hash
  Keys,
  Ticks,      \* bound: ticks running at once
  MaxTime,    \* bound: moments of a behaviour
  MaxFaults   \* bound: failed calls and crashes of a behaviour

ASSUME CollectionAssumption ==
  /\ Key \in [Punches -> Keys]
  /\ MaxTime \in Nat \ {0}
  /\ MaxFaults \in Nat

VARIABLES
  now,
  stamp,        \* moment each punch was made; 0: not yet
  timeRecords,  \* punches in the site's time_records
  lastSync,     \* devices.last_sync; 0: null
  pc,           \* where each tick's syncOneDevice is
  since,        \* the last_sync each tick read
  fetched,      \* the punches each tick's fetch returned
  fetchedAt,    \* when it did
  next,         \* nextLastSync
  gaps,         \* history: moments between a fetch and the last_sync it led to
  faults

tickVars == <<pc, since, fetched, fetchedAt, next>>
vars == <<now, stamp, timeRecords, lastSync, tickVars, gaps, faults>>

Time == 0..MaxTime

Made == {p \in Punches : stamp[p] > 0}

TypeOK ==
  /\ now \in Time \ {0}
  /\ stamp \in [Punches -> Time]
  /\ timeRecords \subseteq Made
  /\ lastSync \in Time
  /\ pc \in [Ticks -> {"idle", "fetch", "stage", "stamp", "patch"}]
  /\ since \in [Ticks -> Time]
  /\ fetched \in [Ticks -> SUBSET Made]
  /\ fetchedAt \in [Ticks -> Time]
  /\ next \in [Ticks -> Time]
  /\ gaps \subseteq Time
  /\ faults \in 0..MaxFaults

Init ==
  /\ now = 1
  /\ stamp = [p \in Punches |-> 0]
  /\ timeRecords = {}
  /\ lastSync = 0
  /\ pc = [t \in Ticks |-> "idle"]
  /\ since = [t \in Ticks |-> 0]
  /\ fetched = [t \in Ticks |-> {}]
  /\ fetchedAt = [t \in Ticks |-> 0]
  /\ next = [t \in Ticks |-> 0]
  /\ gaps = {}
  /\ faults = 0

Goto(t, step) == pc' = [pc EXCEPT ![t] = step]

Fault ==
  /\ faults < MaxFaults
  /\ faults' = faults + 1

TimePasses ==
  /\ now < MaxTime
  /\ now' = now + 1
  /\ UNCHANGED <<stamp, timeRecords, lastSync, tickVars, gaps, faults>>

Punch(p) ==
  /\ stamp[p] = 0
  /\ stamp' = [stamp EXCEPT ![p] = now]
  /\ UNCHANGED <<now, timeRecords, lastSync, tickVars, gaps, faults>>

(***************************************************************************)
(* One tick                                                                *)
(***************************************************************************)

\* runSyncCycle reads the devices, last_sync among them.
ReadDevice(t) ==
  /\ pc[t] = "idle"
  /\ since' = [since EXCEPT ![t] = lastSync]
  /\ Goto(t, "fetch")
  /\ UNCHANGED <<now, stamp, timeRecords, lastSync, fetched, fetchedAt, next,
                 gaps, faults>>

\* Mutant of Since: the comparison is with the agent's time.
SinceNow(t) == {p \in Made : stamp[p] > now}

\* filterSince of the adapters.
Since(t) == {p \in Made : stamp[p] > since[t]}

Fetch(t) ==
  /\ pc[t] = "fetch"
  /\ Since(t) # {}
  /\ fetched' = [fetched EXCEPT ![t] = Since(t)]
  /\ fetchedAt' = [fetchedAt EXCEPT ![t] = now]
  /\ Goto(t, "stage")
  /\ UNCHANGED <<now, stamp, timeRecords, lastSync, since, next, gaps, faults>>

\* (rep_id, nsr) is in time_records.
Taken(p) == \E q \in timeRecords : Key[q] = Key[p]

\* INSERT OR IGNORE of a batch, in one transaction: of the punches of a key
\* that is not taken one goes in.
Stored(batch, rows) ==
  /\ rows \subseteq {p \in batch : ~Taken(p)}
  /\ \A p \in batch : Taken(p) \/ \E q \in rows : Key[q] = Key[p]
  /\ \A p, q \in rows : Key[p] = Key[q] => p = q

Stage(t) ==
  /\ pc[t] = "stage"
  /\ \E rows \in SUBSET fetched[t] :
       /\ Stored(fetched[t], rows)
       /\ timeRecords' = timeRecords \cup rows
  /\ Goto(t, "stamp")
  /\ UNCHANGED <<now, stamp, lastSync, since, fetched, fetchedAt, next, gaps,
                 faults>>

\* Mutant of Stamp: rounded up to the next moment.
StampRoundedUp(t) ==
  /\ pc[t] = "stamp"
  /\ next' = [next EXCEPT ![t] = now + 1]
  /\ Goto(t, "patch")
  /\ UNCHANGED <<now, stamp, timeRecords, lastSync, since, fetched, fetchedAt,
                 gaps, faults>>

\* nextLastSync is the time by now, not that of the fetch.
Stamp(t) ==
  /\ pc[t] = "stamp"
  /\ next' = [next EXCEPT ![t] = now]
  /\ Goto(t, "patch")
  /\ UNCHANGED <<now, stamp, timeRecords, lastSync, since, fetched, fetchedAt,
                 gaps, faults>>

\* devices.last_sync of the tick is set.
CursorSet(t) ==
  /\ pc[t] = "patch"
  /\ lastSync' = next[t]
  /\ gaps' = gaps \cup fetchedAt[t]..next[t]

\* syncOneDevice returns, and its variables are gone.
Returns(t) ==
  /\ Goto(t, "idle")
  /\ since' = [since EXCEPT ![t] = 0]
  /\ fetched' = [fetched EXCEPT ![t] = {}]
  /\ fetchedAt' = [fetchedAt EXCEPT ![t] = 0]
  /\ next' = [next EXCEPT ![t] = 0]

\* Without punches nothing is stored and last_sync stays.
FetchNothing(t) ==
  /\ pc[t] = "fetch"
  /\ Since(t) = {}
  /\ Returns(t)
  /\ UNCHANGED <<now, stamp, timeRecords, lastSync, gaps, faults>>

Patch(t) ==
  /\ CursorSet(t)
  /\ Returns(t)
  /\ UNCHANGED <<now, stamp, timeRecords, faults>>

(***************************************************************************)
(* Failures                                                                *)
(***************************************************************************)

\* Mutant of TickFails: a failed INSERT is logged and the tick goes on.
TickGoesOn(t) ==
  /\ Fault
  /\ pc[t] = "stage"
  /\ Goto(t, "stamp")
  /\ UNCHANGED <<now, stamp, timeRecords, lastSync, since, fetched, fetchedAt,
                 next, gaps>>

\* An await of syncOneDevice throws: the clock or the cloud does not answer,
\* or SQLite refuses the transaction.  The device's sync ends.
TickFails(t) ==
  /\ Fault
  /\ pc[t] \in {"fetch", "stage", "patch"}
  /\ Returns(t)
  /\ UNCHANGED <<now, stamp, timeRecords, lastSync, gaps>>

\* The PATCH is applied, its answer is lost, and withRetry will send it again.
PatchUnanswered(t) ==
  /\ Fault
  /\ CursorSet(t)
  /\ UNCHANGED <<now, stamp, timeRecords, tickVars>>

\* The agent dies, and all its ticks with it.
Crash ==
  /\ Fault
  /\ pc' = [t \in Ticks |-> "idle"]
  /\ since' = [t \in Ticks |-> 0]
  /\ fetched' = [t \in Ticks |-> {}]
  /\ fetchedAt' = [t \in Ticks |-> 0]
  /\ next' = [t \in Ticks |-> 0]
  /\ UNCHANGED <<now, stamp, timeRecords, lastSync, gaps>>

SyncOneDevice(t) ==
  \/ ReadDevice(t)
  \/ Fetch(t)
  \/ FetchNothing(t)
  \/ Stage(t)
  \/ Stamp(t)
  \/ Patch(t)

Next ==
  \/ TimePasses
  \/ \E p \in Punches : Punch(p)
  \/ \E t \in Ticks : SyncOneDevice(t) \/ TickFails(t) \/ PatchUnanswered(t)
  \/ Crash

Spec == Init /\ [][Next]_vars

\* The interval keeps starting ticks, and each runs to its end.
FairSpec == Spec /\ \A t \in Ticks : WF_vars(SyncOneDevice(t))

(***************************************************************************)
(* Properties                                                              *)
(***************************************************************************)

\* Whatever fails, dies, overlaps or is answered late, the cursor passes a
\* punch that is not in time_records only if it was made between some tick's
\* fetch and the time that tick then took for last_sync.
OnlyGapsSkip ==
  \A p \in Made : stamp[p] <= lastSync => Taken(p) \/ stamp[p] \in gaps

\* What makes it inductive: the same holds of the cursors the running ticks
\* have read, a tick has in hand every punch between its cursor and its fetch,
\* and from "stamp" on these are in time_records.
PassedRightly(cursor) ==
  /\ cursor <= now
  /\ cursor = 0 \/ cursor \in gaps
  /\ \A p \in Made : stamp[p] <= cursor => Taken(p) \/ stamp[p] \in gaps

InHand(t) ==
  /\ fetchedAt[t] <= now
  /\ \A p \in Made : since[t] < stamp[p] /\ stamp[p] < fetchedAt[t] => p \in fetched[t]

AllTaken(t) == \A p \in fetched[t] : Taken(p)

TickInv(t) ==
  /\ PassedRightly(since[t])
  /\ pc[t] \in {"stage", "stamp", "patch"} => InHand(t)
  /\ pc[t] \in {"stamp", "patch"} => AllTaken(t)
  /\ pc[t] = "patch" => fetchedAt[t] <= next[t] /\ next[t] <= now

CollectionInv ==
  /\ \A p \in Punches : stamp[p] <= now
  /\ PassedRightly(lastSync)
  /\ \A t \in Ticks : TickInv(t)

\* A punch ahead of the cursor is not left on the clock.
EventuallyCollected ==
  \A p \in Punches : stamp[p] > lastSync ~> Taken(p) \/ stamp[p] <= lastSync

(***************************************************************************)
(* What the documentation says, and the code does not do                   *)
(***************************************************************************)

\* The outage runbook: everything is kept in the local SQLite, nothing is
\* lost.  A punch is stored, or a tick has it, or a later one will ask for it.
NoPunchSkipped ==
  \A p \in Made :
    \/ Taken(p)
    \/ stamp[p] > lastSync
    \/ \E t \in Ticks : pc[t] # "idle" /\ (stamp[p] > since[t] \/ p \in fetched[t])
===============================================================================
