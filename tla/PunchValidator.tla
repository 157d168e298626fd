---------------------------- MODULE PunchValidator ----------------------------
(***************************************************************************)
(* services/punchValidator.js as the worker drives it: every tick of       *)
(* services/syncService.js reads the oldest unsynced punches of a device   *)
(* and validates them one by one against two sliding windows, of the       *)
(* device and of the employee.  A check is recorded in the window whether  *)
(* or not it passes, and a punch is checked again by every tick until the  *)
(* cloud has it.  Time is counted in worker ticks; a process starts with   *)
(* empty windows.  A window is kept as counts: window[a] is how many of its    *)
(* times are at most a ticks old.  SyncWorker leaves the outcome of these  *)
(* checks open; of the sending, which it models, this keeps what feeds     *)
(* back: sent, refused, buried, or held by a breaker that has tripped.     *)
(***************************************************************************)
EXTENDS Integers, FiniteSets

CONSTANTS
  Punches,       \* punches of one device, numbered by p_data_hora
  Employees,
  Employee,      \* employee_id of a punch
  Malformed,     \* punches that fail the schema, drift or employee_id checks
  EnqueueBatch,  \* ENQUEUE_BATCH_SIZE
  WindowTicks,   \* ticks in FLOOD_WINDOW_MS and DEVICE_RATE_WIN
  DeviceMax,     \* DEVICE_RATE_MAX
  FloodMax,      \* FLOOD_MAX
  Outages        \* whether the cloud may be out when a tick sends

ASSUME ValidatorAssumption ==
  /\ Punches \subseteq Nat
  /\ Employee \in [Punches -> Employees]
  /\ Malformed \subseteq Punches
  /\ {EnqueueBatch, WindowTicks, DeviceMax, FloodMax} \subseteq Nat \ {0}
  /\ Outages \in BOOLEAN

VARIABLES
  punch,           \* each punch absent, unsynced or synced in time_records
  queued,          \* punches some live job carries
  tripped,         \* the worker's breaker is OPEN, and stays so (see SyncWorker)
  batch,           \* punches of this tick's read not validated yet
  deviceWindow,    \* deviceWindow's times of the device
  employeeWindow,  \* employeeWindow's times of each employee on it
  admitted,        \* history: when punches were accepted, as a window
  admittedOf       \* history: the same for each employee

history == <<admitted, admittedOf>>

vars == <<punch, queued, tripped, batch, deviceWindow, employeeWindow, history>>

Ages == 0..(WindowTicks - 1)

Empty == [a \in Ages |-> 0]

Total(window) == window[WindowTicks - 1]

Pushed(window) == [a \in Ages |-> window[a] + 1]

\* A tick later: what was WindowTicks - 1 old has left the window.
Aged(window) == [a \in Ages |-> IF a = 0 THEN 0 ELSE window[a - 1]]

Unsynced == {p \in Punches : punch[p] = "unsynced"}

TypeOK ==
  /\ punch \in [Punches -> {"absent", "unsynced", "synced"}]
  /\ queued \subseteq Unsynced
  /\ tripped \in BOOLEAN
  /\ batch \subseteq Unsynced
  /\ deviceWindow \in [Ages -> Nat]
  /\ employeeWindow \in [Employees -> [Ages -> Nat]]
  /\ admitted \in [Ages -> Nat]
  /\ admittedOf \in [Employees -> [Ages -> Nat]]

Init ==
  /\ punch = [p \in Punches |-> "absent"]
  /\ queued = {}
  /\ tripped = FALSE
  /\ batch = {}
  /\ deviceWindow = Empty
  /\ employeeWindow = [e \in Employees |-> Empty]
  /\ admitted = Empty
  /\ admittedOf = [e \in Employees |-> Empty]

Collect(p) ==
  /\ batch = {}
  /\ punch[p] = "absent"
  /\ punch' = [punch EXCEPT ![p] = "unsynced"]
  /\ UNCHANGED <<queued, tripped, batch, deviceWindow, employeeWindow, history>>

\* ORDER BY p_data_hora ASC LIMIT n.
Oldest(n, ps) == {p \in ps : Cardinality({q \in ps : q < p}) < n}

\* The next tick: the windows have moved on, and the read is repeated.
Tick ==
  /\ batch = {}
  /\ Outages \/ queued = {}
  /\ batch' = Oldest(EnqueueBatch, Unsynced)
  /\ deviceWindow' = Aged(deviceWindow)
  /\ employeeWindow' = [e \in Employees |-> Aged(employeeWindow[e])]
  /\ admitted' = Aged(admitted)
  /\ admittedOf' = [e \in Employees |-> Aged(admittedOf[e])]
  /\ UNCHANGED <<punch, queued, tripped>>

(***************************************************************************)
(* validatePunch                                                           *)
(***************************************************************************)

Rejected(p) ==
  /\ batch' = batch \ {p}
  /\ UNCHANGED <<punch, queued, tripped, history>>

RejectInvalid(p) ==
  /\ p \in Malformed
  /\ Rejected(p)
  /\ UNCHANGED <<deviceWindow, employeeWindow>>

\* Mutant of OverRate: compared before this check is counted.
OverRateBeforePush == Total(deviceWindow) > DeviceMax

OverRate == Total(Pushed(deviceWindow)) > DeviceMax

OverFlood(e) == Total(Pushed(employeeWindow[e])) > FloodMax

\* checkDeviceRateLimit fails: the flood check is not reached.
RejectRate(p) ==
  /\ p \notin Malformed
  /\ OverRate
  /\ deviceWindow' = Pushed(deviceWindow)
  /\ Rejected(p)
  /\ UNCHANGED employeeWindow

RejectFlood(p) ==
  /\ p \notin Malformed
  /\ ~OverRate
  /\ OverFlood(Employee[p])
  /\ deviceWindow' = Pushed(deviceWindow)
  /\ employeeWindow' = [employeeWindow EXCEPT ![Employee[p]] = Pushed(@)]
  /\ Rejected(p)

Accept(p) ==
  /\ p \notin Malformed
  /\ ~OverRate
  /\ ~OverFlood(Employee[p])
  /\ deviceWindow' = Pushed(deviceWindow)
  /\ employeeWindow' = [employeeWindow EXCEPT ![Employee[p]] = Pushed(@)]
  /\ batch' = batch \ {p}
  /\ queued' = queued \cup {p}
  /\ admitted' = Pushed(admitted)
  /\ admittedOf' = [admittedOf EXCEPT ![Employee[p]] = Pushed(@)]
  /\ UNCHANGED <<punch, tripped>>

\* filterValidPunches: the batch is validated in the order of the read.
Validate ==
  \E p \in batch :
    /\ \A q \in batch : p <= q
    /\ RejectInvalid(p) \/ RejectRate(p) \/ RejectFlood(p) \/ Accept(p)

\* processOneJob calls the cloud: between two validations, with a live job, and
\* while the breaker is not OPEN.
Sending ==
  /\ batch = {}
  /\ queued # {}
  /\ ~tripped

Confirmed == [p \in Punches |-> IF p \in queued THEN "synced" ELSE punch[p]]

\* Mutant of Deliver: the jobs are not acknowledged.
DeliverWithoutAck ==
  /\ Sending
  /\ punch' = Confirmed
  /\ UNCHANGED <<queued, tripped, batch, deviceWindow, employeeWindow, history>>

\* Mutant of Deliver: synced = 1 is not written.
DeliverWithoutMark ==
  /\ Sending
  /\ queued' = {}
  /\ UNCHANGED <<punch, tripped, batch, deviceWindow, employeeWindow, history>>

\* The queued punches reach the cloud and are marked synced.
Deliver ==
  /\ Sending
  /\ punch' = Confirmed
  /\ queued' = {}
  /\ UNCHANGED <<tripped, batch, deviceWindow, employeeWindow, history>>

\* The cloud is out.  Jobs that used up their attempts are buried, and their
\* punches, still unsynced, are left to the next ticks' reads; the breaker may
\* trip, and then no job calls the cloud again.
SendFails ==
  /\ Outages
  /\ Sending
  /\ queued' \in SUBSET queued
  /\ tripped' \in BOOLEAN
  /\ UNCHANGED <<punch, batch, deviceWindow, employeeWindow, history>>

Next ==
  \/ \E p \in Punches : Collect(p)
  \/ Tick
  \/ Validate
  \/ Deliver
  \/ SendFails

Spec == Init /\ [][Next]_vars

\* The ticks go on and a batch is validated to its end.  Of the cloud it is
\* assumed that it does not refuse every call while the breaker lets calls pass.
FairSpec == Spec /\ WF_vars(Tick) /\ WF_vars(Validate) /\ SF_vars(Deliver)

(***************************************************************************)
(* Properties                                                              *)
(***************************************************************************)

\* The limits hold over any sliding minute and not only from one minute's
\* start: the punches let through exceed neither the device's limit nor, for
\* any one employee, that of a flood.
AdmissionsBounded ==
  /\ Total(admitted) <= DeviceMax
  /\ \A e \in Employees : Total(admittedOf[e]) <= FloodMax

\* While the breaker does not trip, each well-formed punch is delivered in the
\* end, through outages in which every tick checks the waiting punches again and
\* jobs are buried.  Holds while the checks of a minute's earlier ticks leave room
\* for one more: WindowTicks - 1 times what one tick checks is below each limit.
EventuallyDelivered ==
  \A p \in Punches \ Malformed :
    punch[p] = "unsynced" ~> (punch[p] = "synced" \/ tripped)

(***************************************************************************)
(* What the documentation says, and the code does not do                   *)
(***************************************************************************)

\* punchValidator.js calls the device limit a throttle: it slows a burst down,
\* and every well-formed punch of it gets through.
ThrottledNotStarved ==
  \A p \in Punches \ Malformed : punch[p] = "unsynced" ~> punch[p] = "synced"
===============================================================================
