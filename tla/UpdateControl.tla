----------------------------- MODULE UpdateControl -----------------------------
(***************************************************************************)
(* The update control plane of one installation: the Master panel's        *)
(* handlers (backend/src/master/updates/UpdateControlPlaneService.ts) and  *)
(* the agent's API (backend/src/updateAgent/UpdateAgentService.ts) on the  *)
(* same tables.                                                            *)
(*                                                                         *)
(* A handler is a sequence of SQL statements without a transaction, and a  *)
(* step is one statement that reads or writes what another handler may     *)
(* change.  A handler goes on when its client has given up on it.          *)
(***************************************************************************)
EXTENDS Integers, Sequences, FiniteSets

CONSTANTS
  Versions,      \* releases of the component and channel, in SemVer order
  Installed,     \* the version the installation begins with
  Admins,        \* sessions of the Master panel
  MaxRequests,   \* bound: rows of master_update_requests
  MaxApprovals,  \* bound: approvals of a behaviour
  MaxFaults      \* bound: crashes, failed statements and lost answers

ASSUME UpdateAssumption ==
  /\ Versions \subseteq Nat \ {0}
  /\ Installed \in Versions
  /\ {MaxRequests, MaxApprovals, MaxFaults} \subseteq Nat

VARIABLES
  request,     \* master_update_requests, in the order of created_at
  execution,   \* master_update_executions, in the order of claimed_at
  reported,    \* reported_version of the installation (0: 0.0.0)
  session,     \* the panel's handlers: what each has read and not yet written
  beats,       \* heartbeat handlers at work or answered
  claims,      \* claim handlers at work or answered
  reports,     \* report handlers at work or answered, of the terminal stages
  approvals,   \* approvals so far
  faults       \* faults so far

tables     == <<request, execution, reported>>
handlers   == <<beats, claims, reports>>
serverVars == <<tables, session, handlers, approvals, faults>>

RequestStatus == {"requested", "approved", "manual_required", "completed",
                  "failed", "cancelled"}

\* authorized: approved_at is set.
Request == [target : Versions, status : RequestStatus, authorized : BOOLEAN]

\* The stages before the terminal ones are one: "open" is finished_at IS NULL.
Execution == [request : Nat, stage : {"open", "completed", "failed"}]

NoSession == [op |-> "none"]

Session ==
  {NoSession}
  \cup [op : {"check", "insert"}, target : Versions]
  \cup [op : {"transition"}, request : Nat, to : {"approved", "cancelled"}]

\* awaited: the agent still waits for the answer.  offered: a request to claim.
Beat == [step : {"update", "select", "answer", "error"}, version : Versions \cup {0},
         offered : BOOLEAN, awaited : BOOLEAN]

\* execution = 0: none.
Claim == [step : {"select", "resume", "insert", "mark", "answer", "error"}, request : Nat,
          approved : BOOLEAN, execution : Nat, awaited : BOOLEAN]

Report == [step : {"select", "execution", "installation", "request", "answer", "error"},
           execution : Nat, stage : {"completed", "failed"},
           claimed : BOOLEAN, awaited : BOOLEAN]

TypeOK ==
  /\ request \in Seq(Request)
  /\ execution \in Seq(Execution)
  /\ reported \in Versions \cup {0}
  /\ session \in [Admins -> Session]
  /\ beats \subseteq Beat
  /\ claims \subseteq Claim
  /\ reports \subseteq Report
  /\ approvals \in 0..MaxApprovals
  /\ faults \in 0..MaxFaults

Init ==
  /\ request = <<>>
  /\ execution = <<>>
  /\ reported = Installed
  /\ session = [a \in Admins |-> NoSession]
  /\ beats = {}
  /\ claims = {}
  /\ reports = {}
  /\ approvals = 0
  /\ faults = 0

Fault ==
  /\ faults < MaxFaults
  /\ faults' = faults + 1

(***************************************************************************)
(* The Master panel                                                        *)
(***************************************************************************)

Pick(a, s) == session' = [session EXCEPT ![a] = s]

Active == {i \in DOMAIN request :
             request[i].status \in {"requested", "approved", "manual_required"}}

\* createRequest: an update goes to a version above the reported one, a rollback
\* to any.  The release is one that is published now: setReleaseStatus may change
\* that at any time, and nothing after this reads it ...
CreateRead(a, kind, v) ==
  /\ session[a] = NoSession
  /\ kind = "update" => reported < v
  /\ Len(request) < MaxRequests
  /\ Pick(a, [op |-> "check", target |-> v])
  /\ UNCHANGED <<tables, handlers, approvals, faults>>

\* ... then a request already active is refused (409) ...
CreateCheck(a) ==
  /\ session[a].op = "check"
  /\ Pick(a, IF Active = {} THEN [session[a] EXCEPT !.op = "insert"] ELSE NoSession)
  /\ UNCHANGED <<tables, handlers, approvals, faults>>

\* ... and the INSERT relies on what was read.
CreateInsert(a) ==
  /\ session[a].op = "insert"
  /\ Len(request) < MaxRequests
  /\ request' = Append(request, [target |-> session[a].target, status |-> "requested",
                                 authorized |-> FALSE])
  /\ Pick(a, NoSession)
  /\ UNCHANGED <<execution, reported, handlers, approvals, faults>>

MASTER_REQUEST_TRANSITIONS ==
  [s \in RequestStatus |->
     CASE s = "requested"                      -> {"approved", "cancelled"}
       [] s \in {"approved", "manual_required"} -> {"cancelled"}
       [] s = "failed"                         -> {"approved", "cancelled"}
       [] OTHER                                -> {}]

\* transitionRequest: the status is read ...
TransitionRead(a, i, to) ==
  /\ session[a] = NoSession
  /\ to \in MASTER_REQUEST_TRANSITIONS[request[i].status]
  /\ to = "approved" => approvals < MaxApprovals
  /\ Pick(a, [op |-> "transition", request |-> i, to |-> to])
  /\ UNCHANGED <<tables, handlers, approvals, faults>>

\* ... and written without being compared with what was read.
TransitionWrite(a) ==
  /\ session[a].op = "transition"
  /\ LET i  == session[a].request
         to == session[a].to
     IN  /\ to = "approved" => approvals < MaxApprovals
         /\ request' = [request EXCEPT ![i].status = to,
                                       ![i].authorized = @ \/ to = "approved"]
         /\ approvals' = approvals + IF to = "approved" THEN 1 ELSE 0
  /\ Pick(a, NoSession)
  /\ UNCHANGED <<execution, reported, handlers, faults>>

Panel ==
  \E a \in Admins :
       \/ \E kind \in {"update", "rollback"}, v \in Versions : CreateRead(a, kind, v)
       \/ CreateCheck(a)
       \/ CreateInsert(a)
       \/ \E i \in DOMAIN request, to \in {"approved", "cancelled"} : TransitionRead(a, i, to)
       \/ TransitionWrite(a)

(***************************************************************************)
(* The agent's API                                                         *)
(***************************************************************************)

Open(e) == execution[e].stage = "open"

OpenExecutions(i) == {e \in DOMAIN execution : execution[e].request = i /\ Open(e)}

\* Mutant of Visible: a request is offered before it is approved.
VisibleTooSoon(i) ==
  \/ request[i].status \in {"requested", "approved"}
  \/ request[i].status = "manual_required" /\ OpenExecutions(i) # {}

\* AGENT_VISIBLE_SQL.
Visible(i) ==
  \/ request[i].status = "approved"
  \/ request[i].status = "manual_required" /\ OpenExecutions(i) # {}

\* order by created_at desc limit 1; 0: none.
NewestVisible ==
  LET seen == {i \in DOMAIN request : Visible(i)}
  IN  IF seen = {} THEN 0 ELSE CHOOSE i \in seen : \A j \in seen : j <= i

NewBeat(v) == [step |-> "update", version |-> v, offered |-> FALSE, awaited |-> TRUE]

Beaten(b, d) == beats' = (beats \ {b}) \cup {d}

\* heartbeat: the version the agent sent, however long it took to get here ...
BeatUpdate(b) ==
  /\ b.step = "update"
  /\ reported' = b.version
  /\ Beaten(b, [b EXCEPT !.step = "select"])
  /\ UNCHANGED <<request, execution, session, claims, reports, approvals, faults>>

\* ... and whether there is a request to claim.
BeatSelect(b) ==
  /\ b.step = "select"
  /\ Beaten(b, [b EXCEPT !.step = "answer", !.offered = NewestVisible # 0])
  /\ UNCHANGED <<tables, session, claims, reports, approvals, faults>>

NewClaim == [step |-> "select", request |-> 0, approved |-> FALSE,
             execution |-> 0, awaited |-> TRUE]

Advance(c, d) == claims' = (claims \ {c}) \cup {d}

ClaimAnswers(c, e) == Advance(c, [c EXCEPT !.step = "answer", !.execution = e])

\* claim: the newest visible request and its status ...
ClaimSelect(c) ==
  /\ c.step = "select"
  /\ LET i == NewestVisible
     IN  IF i = 0 THEN ClaimAnswers(c, 0)
         ELSE Advance(c, [c EXCEPT !.step = "resume", !.request = i,
                                   !.approved = request[i].status = "approved"])
  /\ UNCHANGED <<tables, session, beats, reports, approvals, faults>>

\* Mutant of ClaimResume: an unfinished execution is not taken up again.
ClaimOnce(c) ==
  /\ c.step = "resume"
  /\ IF OpenExecutions(c.request) # {} THEN ClaimAnswers(c, 0)
     ELSE Advance(c, [c EXCEPT !.step = "insert"])
  /\ UNCHANGED <<tables, session, beats, reports, approvals, faults>>

\* ... then its unfinished execution, which is taken up again.  The request may
\* have been finished or cancelled in between.
ClaimResume(c) ==
  /\ c.step = "resume"
  /\ IF OpenExecutions(c.request) # {}
     THEN ClaimAnswers(c, CHOOSE e \in OpenExecutions(c.request) : TRUE)
     ELSE Advance(c, [c EXCEPT !.step = "insert"])
  /\ UNCHANGED <<tables, session, beats, reports, approvals, faults>>

NewExecution(i) == [request |-> i, stage |-> "open"]

AfterInsert(c) ==
  [c EXCEPT !.step = IF c.approved THEN "mark" ELSE "answer",
            !.execution = Len(execution) + 1]

\* Mutant of ClaimInsert: without the partial unique index.
ClaimInsertAnyway(c) ==
  /\ c.step = "insert"
  /\ execution' = Append(execution, NewExecution(c.request))
  /\ Advance(c, AfterInsert(c))
  /\ UNCHANGED <<request, reported, session, beats, reports, approvals, faults>>

\* claim: the INSERT, which the unique index on the unfinished executions of a
\* request refuses (23505) when another claim was faster: then claim again.
ClaimInsert(c) ==
  /\ c.step = "insert"
  /\ IF OpenExecutions(c.request) # {}
     THEN /\ Advance(c, [NewClaim EXCEPT !.awaited = c.awaited])
          /\ UNCHANGED execution
     ELSE /\ execution' = Append(execution, NewExecution(c.request))
          /\ Advance(c, AfterInsert(c))
  /\ UNCHANGED <<request, reported, session, beats, reports, approvals, faults>>

\* claim: approved -> manual_required, if it still is approved.
ClaimMark(c) ==
  /\ c.step = "mark"
  /\ request' = [request EXCEPT ![c.request].status =
                   IF @ = "approved" THEN "manual_required" ELSE @]
  /\ ClaimAnswers(c, c.execution)
  /\ UNCHANGED <<execution, reported, session, beats, reports, approvals, faults>>

NewReport(e, stage) == [step |-> "select", execution |-> e, stage |-> stage,
                        claimed |-> FALSE, awaited |-> TRUE]

Proceed(r, s) == reports' = (reports \ {r}) \cup {s}

RequestOf(e) == execution[e].request

\* report: a finished execution is confirmed and nothing is done.
ReportSelect(r) ==
  /\ r.step = "select"
  /\ Proceed(r, [r EXCEPT
       !.step = IF Open(r.execution) THEN "execution" ELSE "answer",
       !.claimed = Open(r.execution)
                   /\ request[RequestOf(r.execution)].status = "manual_required"])
  /\ UNCHANGED <<tables, session, beats, claims, approvals, faults>>

\* Mutant of ReportExecution: the result of a rollback goes into the stage.
ReportResult(r) ==
  /\ r.step = "execution"
  /\ execution' = [execution EXCEPT ![r.execution].stage =
                     IF r.stage = "completed" THEN "rolled_back" ELSE r.stage]
  /\ Proceed(r, [r EXCEPT !.step = "answer"])
  /\ UNCHANGED <<request, reported, session, beats, claims, approvals, faults>>

\* report: stage, result and finished_at, whatever they have become meanwhile.
ReportExecution(r) ==
  /\ r.step = "execution"
  /\ execution' = [execution EXCEPT ![r.execution].stage = r.stage]
  /\ Proceed(r, [r EXCEPT !.step = IF r.stage = "completed" THEN "installation"
                                   ELSE IF r.claimed THEN "request" ELSE "answer"])
  /\ UNCHANGED <<request, reported, session, beats, claims, approvals, faults>>

\* report completed: the installation takes the target version.
ReportInstallation(r) ==
  /\ r.step = "installation"
  /\ reported' = request[RequestOf(r.execution)].target
  /\ Proceed(r, [r EXCEPT !.step = IF r.claimed THEN "request" ELSE "answer"])
  /\ UNCHANGED <<request, execution, session, beats, claims, approvals, faults>>

\* report: the request too, if it was and still is manual_required.
ReportRequest(r) ==
  /\ r.step = "request"
  /\ request' = [request EXCEPT ![RequestOf(r.execution)].status =
                   IF @ = "manual_required" THEN r.stage ELSE @]
  /\ Proceed(r, [r EXCEPT !.step = "answer"])
  /\ UNCHANGED <<execution, reported, session, beats, claims, approvals, faults>>

AtWork(h) == h.step \notin {"answer", "error"}

Over(h) == ~h.awaited /\ ~AtWork(h)

\* A handler whose client has given up is over when it has answered.
Forget ==
  /\ \/ \E b \in beats : /\ Over(b)
                         /\ beats' = beats \ {b}
                         /\ UNCHANGED <<claims, reports>>
     \/ \E c \in claims : /\ Over(c)
                          /\ claims' = claims \ {c}
                          /\ UNCHANGED <<beats, reports>>
     \/ \E r \in reports : /\ Over(r)
                           /\ reports' = reports \ {r}
                           /\ UNCHANGED <<beats, claims>>
  /\ UNCHANGED <<tables, session, approvals, faults>>

\* A statement fails, or the call never arrives: what was written stays.
HandlerFails ==
  /\ Fault
  /\ \/ \E b \in beats : /\ AtWork(b)
                         /\ Beaten(b, [b EXCEPT !.step = "error"])
                         /\ UNCHANGED <<claims, reports>>
     \/ \E c \in claims : /\ AtWork(c)
                          /\ Advance(c, [c EXCEPT !.step = "error"])
                          /\ UNCHANGED <<beats, reports>>
     \/ \E r \in reports : /\ AtWork(r)
                           /\ Proceed(r, [r EXCEPT !.step = "error"])
                           /\ UNCHANGED <<beats, claims>>
  /\ UNCHANGED <<tables, session, approvals>>

BeatStep(b) == BeatUpdate(b) \/ BeatSelect(b)

ClaimStep(c) == ClaimSelect(c) \/ ClaimResume(c) \/ ClaimInsert(c) \/ ClaimMark(c)

ReportStep(r) == \/ ReportSelect(r) \/ ReportExecution(r)
                 \/ ReportInstallation(r) \/ ReportRequest(r)

Serve == \/ \E b \in beats : BeatStep(b)
         \/ \E c \in claims : ClaimStep(c)
         \/ \E r \in reports : ReportStep(r)
         \/ Forget

ServerNext == Panel \/ Serve \/ HandlerFails
================================================================================
