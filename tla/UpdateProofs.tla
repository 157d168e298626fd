----------------------------- MODULE UpdateProofs -----------------------------
(***************************************************************************)
(* Proofs about UpdaterAgent, for any releases, entries, administrators    *)
(* and faults: what the agent installs was approved, and a request has at  *)
(* most one unfinished execution.                                          *)
(***************************************************************************)
EXTENDS UpdaterAgent, FiniteSetTheorems, WellFoundedInduction, TLAPS

(***************************************************************************)
(* The inductive invariant                                                 *)
(***************************************************************************)

\* The requests that were approved, and the versions an installation may have.
Authorized == {i \in DOMAIN request : request[i].authorized = TRUE}

Known == {Missing, Installed} \cup {request[i].target : i \in Authorized}

\* What a handler may act on was approved; every execution is of such a request.
TablesFit ==
  /\ request \in Seq(Request)
  /\ execution \in Seq(Execution)
  /\ \A i \in DOMAIN request :
       request[i].status \in {"approved", "manual_required"} => i \in Authorized
  /\ \A e \in DOMAIN execution : RequestOf(e) \in Authorized

ClaimFits(c) ==
  /\ c \in Claim
  /\ c.step \in {"resume", "insert", "mark"} => c.request \in Authorized
  /\ c.step \in {"mark", "answer"} => c.execution \in {0} \cup DOMAIN execution

ReportFits(r) == r \in Report /\ r.execution \in DOMAIN execution

SessionFits(s) ==
  /\ s \in Session
  /\ s.op = "transition" => s.request \in DOMAIN request

SessionsFit ==
  /\ session \in [Admins -> Session]
  /\ \A a \in Admins : SessionFits(session[a])

ClaimsFit == \A c \in claims : ClaimFits(c)

ReportsFit == \A r \in reports : ReportFits(r)

HandlersFit == SessionsFit /\ ClaimsFit /\ ReportsFit

\* The agent holds an execution that exists, saves before it installs, and
\* has nothing on disk or in the backup that was not approved.
AgentFits ==
  /\ job \in {0} \cup DOMAIN execution
  /\ pc \notin {"idle", "beating", "claiming"} => job # 0
  /\ pc \in {"installing", "restarting", "checking", "confirming",
             "rolling_back", "restoring"} => backup # {}
  /\ todo \subseteq Entries
  /\ disk \in [Entries -> Known]
  /\ backup \subseteq [Entries -> Known]

Fits == TablesFit /\ HandlersFit /\ AgentFits

\* No two unfinished executions of one request.
OneOpen == \A e, f \in DOMAIN execution :
             Open(e) /\ Open(f) /\ RequestOf(e) = RequestOf(f) => e = f

\* Rows are only added; what an execution belongs to, the target of a request
\* and its approval stay.
Grows ==
  /\ DOMAIN request \subseteq DOMAIN request'
  /\ DOMAIN execution \subseteq DOMAIN execution'
  /\ \A i \in DOMAIN request : request'[i].target = request[i].target
  /\ Authorized \subseteq Authorized'
  /\ \A e \in DOMAIN execution : execution'[e].request = execution[e].request

LEMMA InitFits == AgentInit => Fits /\ OneOpen
<1> SUFFICES ASSUME AgentInit PROVE Fits /\ OneOpen
  OBVIOUS
<1> USE UpdateAssumption DEF AgentInit, Init
<1>1. TablesFit
  BY DEF TablesFit
<1>2. HandlersFit
  BY DEF HandlersFit, SessionsFit, ClaimsFit, ReportsFit, SessionFits, Session, NoSession
<1>3. AgentFits
  BY DEF AgentFits, Known, Fresh
<1>4. OneOpen
  BY DEF OneOpen
<1> QED BY <1>1, <1>2, <1>3, <1>4 DEF Fits

(***************************************************************************)
(* The tables: which statements write them, and what they leave            *)
(***************************************************************************)

\* The statements that write a request or an execution; every other step of
\* the panel, of the API and of the agent leaves both tables alone.
Writes ==
  \/ \E a \in Admins : CreateInsert(a) \/ TransitionWrite(a)
  \/ \E c \in claims : ClaimInsert(c) \/ ClaimMark(c)
  \/ \E r \in reports : ReportExecution(r) \/ ReportRequest(r)

LEMMA OnlyWrites ==
  ASSUME [Next]_vars
  PROVE  Writes \/ UNCHANGED <<request, execution>>
<1>1. ASSUME Panel PROVE Writes \/ UNCHANGED <<request, execution>>
  BY <1>1 DEF Panel, Writes, CreateRead, CreateCheck, TransitionRead, tables
<1>2. ASSUME Serve PROVE Writes \/ UNCHANGED <<request, execution>>
  <2>1. ASSUME NEW c \in claims, ClaimStep(c)
        PROVE  Writes \/ UNCHANGED <<request, execution>>
    BY <2>1 DEF ClaimStep, Writes, ClaimSelect, ClaimResume, tables
  <2>2. ASSUME NEW r \in reports, ReportStep(r)
        PROVE  Writes \/ UNCHANGED <<request, execution>>
    BY <2>2 DEF ReportStep, Writes, ReportSelect, ReportInstallation, tables
  <2>3. ASSUME Forget PROVE UNCHANGED <<request, execution>>
    BY <2>3 DEF Forget, tables
  <2>4. ASSUME NEW b \in beats, BeatStep(b) PROVE UNCHANGED <<request, execution>>
    BY <2>4 DEF BeatStep, BeatUpdate, BeatSelect, tables
  <2> QED BY <1>2, <2>1, <2>2, <2>3, <2>4 DEF Serve
<1>3. ASSUME HandlerFails PROVE UNCHANGED <<request, execution>>
  BY <1>3 DEF HandlerFails, tables
<1>4. ASSUME Run PROVE UNCHANGED <<request, execution>>
  <2>1. ASSUME Heartbeat \/ Offered \/ Claimed \/ Fetch \/ FetchFails \/ Backup
        PROVE  UNCHANGED <<request, execution>>
    BY <2>1 DEF Heartbeat, Offered, Claimed, Fetch, FetchFails, Backup, serverVars, tables
  <2>2. ASSUME NEW x \in Entries, Install(x) \/ Restore(x)
        PROVE  UNCHANGED <<request, execution>>
    BY <2>2 DEF Install, Restore, serverVars, tables
  <2>3. ASSUME Restart \/ Healthy \/ Unhealthy \/ Confirmed
        PROVE  UNCHANGED <<request, execution>>
    BY <2>3 DEF Restart, Healthy, Unhealthy, Confirmed, serverVars, tables
  <2>4. ASSUME RollBack \/ Revive \/ RolledBack \/ GivenUp
        PROVE  UNCHANGED <<request, execution>>
    BY <2>4 DEF RollBack, Revive, RolledBack, GivenUp, serverVars, tables
  <2> QED BY <1>4, <2>1, <2>2, <2>3, <2>4 DEF Run
<1>5. ASSUME StepFails \/ LoseAnswer \/ Crash PROVE UNCHANGED <<request, execution>>
  BY <1>5 DEF StepFails, LoseAnswer, Crash, tables
<1>6. ASSUME UNCHANGED vars PROVE UNCHANGED <<request, execution>>
  BY <1>6 DEF vars, serverVars, tables
<1> QED BY <1>1, <1>2, <1>3, <1>4, <1>5, <1>6 DEF Next, ServerNext

\* The rows of well-formed tables, one by one.
LEMMA Rows ==
  ASSUME TablesFit
  PROVE  /\ \A i \in DOMAIN request : request[i] \in Request
         /\ \A e \in DOMAIN execution : execution[e] \in Execution
         /\ DOMAIN request \subseteq Nat /\ DOMAIN execution \subseteq Nat
BY DEF TablesFit

\* An authorized request may get any status; nothing else changes with it.
LEMMA StatusWritten ==
  ASSUME TablesFit, NEW i \in Authorized, NEW status \in RequestStatus,
         request' = [request EXCEPT ![i].status = status], execution' = execution
  PROVE  TablesFit' /\ Grows
<1> DEFINE row == [request[i] EXCEPT !.status = status]
<1> USE DEF TablesFit, Grows, Authorized, RequestOf
<1>1. row \in Request /\ row.target = request[i].target
      /\ row.authorized = request[i].authorized
  BY Rows DEF Request
<1>2. request' = [request EXCEPT ![i] = row]
  OBVIOUS
<1> HIDE DEF row
<1>3. request' \in Seq(Request) /\ DOMAIN request' = DOMAIN request
      /\ \A k \in DOMAIN request : /\ request'[k].target = request[k].target
                                   /\ request'[k].authorized = request[k].authorized
                                   /\ k # i => request'[k] = request[k]
  BY <1>1, <1>2
<1>4. Authorized' = Authorized
  BY <1>3
<1> QED BY <1>3, <1>4

\* A step keeps the tables well formed and only adds to them.
LEMMA TablesStep ==
  ASSUME TablesFit, HandlersFit, [Next]_vars
  PROVE  TablesFit' /\ Grows
<1> USE DEF TablesFit, Grows, Authorized, RequestOf
<1>1. ASSUME NEW a \in Admins, CreateInsert(a) PROVE TablesFit' /\ Grows
  <2> DEFINE row == [target |-> session[a].target, status |-> "requested",
                     authorized |-> FALSE]
  <2>1. session[a].target \in Versions
    BY <1>1 DEF CreateInsert, HandlersFit, SessionsFit, SessionFits, Session, NoSession
  <2>2. row \in Request
    BY <2>1 DEF Request, RequestStatus
  <2>3. request' = Append(request, row) /\ execution' = execution
    BY <1>1 DEF CreateInsert
  <2> QED BY <2>2, <2>3
<1>2. ASSUME NEW a \in Admins, TransitionWrite(a) PROVE TablesFit' /\ Grows
  <2> DEFINE i == session[a].request
             to == session[a].to
             row == [request[i] EXCEPT !.status = to, !.authorized = @ \/ to = "approved"]
  <2>1. i \in DOMAIN request /\ to \in {"approved", "cancelled"}
    BY <1>2 DEF TransitionWrite, HandlersFit, SessionsFit, SessionFits, Session, NoSession
  <2>2. request' = [request EXCEPT ![i] = row] /\ execution' = execution
    BY <1>2, <2>1 DEF TransitionWrite
  <2>3. row.target = request[i].target /\ row.status = to
        /\ row.authorized = (request[i].authorized \/ to = "approved")
    BY <2>1, Rows DEF Request
  <2>4. row \in Request
    <3>1. request[i] \in Request /\ to \in RequestStatus
      BY <2>1, Rows DEF RequestStatus
    <3> HIDE DEF i, to
    <3> QED BY <3>1 DEF Request
  <2>5. i \in Authorized \/ to = "approved" => row.authorized = TRUE
    <3>1. i \in Authorized => request[i].authorized
      OBVIOUS
    <3> HIDE DEF row, i, to
    <3> QED BY <2>3, <3>1
  <2> HIDE DEF row, i, to
  <2>6. request' \in Seq(Request) /\ DOMAIN request' = DOMAIN request
        /\ \A k \in DOMAIN request : request'[k] = IF k = i THEN row ELSE request[k]
    BY <2>1, <2>2, <2>4
  <2> QED BY <2>1, <2>2, <2>3, <2>5, <2>6
<1>3. ASSUME NEW c \in claims, ClaimInsert(c) PROVE TablesFit' /\ Grows
  <2>1. CASE UNCHANGED execution
    BY <1>3, <2>1 DEF ClaimInsert
  <2>2. CASE execution' = Append(execution, NewExecution(c.request)) /\ c.step = "insert"
    <3>1. NewExecution(c.request) \in Execution /\ c.request \in Authorized
      BY <2>2 DEF HandlersFit, ClaimsFit, ClaimFits, Claim, NewExecution, Execution
    <3>2. NewExecution(c.request).request = c.request
      BY DEF NewExecution
    <3> HIDE DEF Authorized
    <3>3. Authorized' = Authorized /\ request' = request
      BY <1>3 DEF ClaimInsert, Authorized
    <3> DEFINE new == Len(execution) + 1
    <3>4. /\ execution' \in Seq(Execution)
          /\ DOMAIN execution = 1..Len(execution) /\ DOMAIN execution' = 1..new
          /\ \A e \in 1..Len(execution) : execution'[e] = execution[e]
          /\ execution'[new] = NewExecution(c.request)
          /\ Len(execution) \in Nat
      BY <2>2, <3>1
    <3>5. \A e \in 1..new : execution'[e].request \in Authorized
      <4>1. \A e \in 1..Len(execution) : execution'[e].request \in Authorized
        BY <3>4
      <4>2. execution'[new].request \in Authorized
        BY <3>1, <3>2, <3>4
      <4>3. \A e \in 1..new : e \in 1..Len(execution) \/ e = new
        BY <3>4
      <4> HIDE DEF TablesFit, Grows, new
      <4> QED BY <4>1, <4>2, <4>3
    <3>6. \A i \in DOMAIN request' :
            request'[i].status \in {"approved", "manual_required"} => i \in Authorized'
      BY <3>3
    <3> QED BY <3>3, <3>4, <3>5, <3>6
  <2> QED BY <1>3, <2>1, <2>2 DEF ClaimInsert
<1>4. ASSUME NEW c \in claims, ClaimMark(c) PROVE TablesFit' /\ Grows
  <2> DEFINE i == c.request
             status == IF request[i].status = "approved" THEN "manual_required"
                       ELSE request[i].status
  <2>1. i \in Authorized
    BY <1>4 DEF ClaimMark, HandlersFit, ClaimsFit, ClaimFits
  <2>2. request' = [request EXCEPT ![i].status = status] /\ execution' = execution
    BY <1>4, <2>1 DEF ClaimMark
  <2>3. status \in RequestStatus
    BY <2>1, Rows DEF Request, RequestStatus
  <2> QED BY <2>1, <2>2, <2>3, StatusWritten
<1>5. ASSUME NEW r \in reports, ReportExecution(r) PROVE TablesFit' /\ Grows
  <2> DEFINE e == r.execution
             row == [execution[e] EXCEPT !.stage = r.stage]
  <2>1. e \in DOMAIN execution /\ r.stage \in {"completed", "failed"}
    BY <1>5 DEF HandlersFit, ReportsFit, ReportFits, Report
  <2>2. row \in Execution /\ row.request = execution[e].request
    BY <2>1, Rows DEF Execution
  <2>3. execution' = [execution EXCEPT ![e] = row] /\ request' = request
    BY <1>5, <2>1 DEF ReportExecution
  <2> HIDE DEF row, e
  <2>4. execution' \in Seq(Execution) /\ DOMAIN execution' = DOMAIN execution
        /\ \A f \in DOMAIN execution : execution'[f].request = execution[f].request
    BY <2>1, <2>2, <2>3
  <2> QED BY <2>3, <2>4
<1>6. ASSUME NEW r \in reports, ReportRequest(r) PROVE TablesFit' /\ Grows
  <2> DEFINE i == RequestOf(r.execution)
             status == IF request[i].status = "manual_required" THEN r.stage
                       ELSE request[i].status
  <2>1. i \in Authorized /\ r.stage \in {"completed", "failed"}
    BY <1>6 DEF HandlersFit, ReportsFit, ReportFits, Report
  <2>2. request' = [request EXCEPT ![i].status = status] /\ execution' = execution
    BY <1>6, <2>1 DEF ReportRequest
  <2>3. status \in RequestStatus
    BY <2>1, Rows DEF Request, RequestStatus
  <2> QED BY <2>1, <2>2, <2>3, StatusWritten
<1>7. CASE UNCHANGED <<request, execution>>
  BY <1>7
<1> QED BY <1>1, <1>2, <1>3, <1>4, <1>5, <1>6, <1>7, OnlyWrites DEF Writes

(***************************************************************************)
(* The handlers                                                            *)
(***************************************************************************)

\* What fits the tables still fits them when they have grown.
LEMMA StillFits ==
  ASSUME Grows
  PROVE  /\ \A c : ClaimFits(c) => ClaimFits(c)'
         /\ \A r : ReportFits(r) => ReportFits(r)'
         /\ \A s : SessionFits(s) => SessionFits(s)'
         /\ Known \subseteq Known'
<1> USE DEF Grows
<1>1. \A c : ClaimFits(c) => ClaimFits(c)'
  BY DEF ClaimFits
<1>2. \A r : ReportFits(r) => ReportFits(r)'
  BY DEF ReportFits
<1>3. \A s : SessionFits(s) => SessionFits(s)'
  BY DEF SessionFits
<1>4. Known \subseteq Known'
  BY DEF Known, Authorized
<1> QED BY <1>1, <1>2, <1>3, <1>4

\* Only the panel touches its sessions, and one at a time.
LEMMA SessionsStep ==
  ASSUME TablesFit, SessionsFit, [Next]_vars, Grows
  PROVE  SessionsFit'
<1>1. ASSUME NEW a \in Admins, NEW s, SessionFits(s), session' = [session EXCEPT ![a] = s]
      PROVE  SessionsFit'
  <2>1. s \in Session /\ SessionFits(s)'
    BY <1>1, StillFits DEF SessionFits
  <2>2. \A b \in Admins : SessionFits(session[b])'
    BY <1>1, <2>1, StillFits DEF SessionsFit
  <2> QED BY <1>1, <2>1, <2>2 DEF SessionsFit
<1>2. ASSUME UNCHANGED session PROVE SessionsFit'
  BY <1>2, StillFits DEF SessionsFit
<1>3. ASSUME NEW a \in Admins, NEW kind, NEW v \in Versions, CreateRead(a, kind, v)
      PROVE  SessionsFit'
  <2>1. SessionFits([op |-> "check", target |-> v])
    BY DEF SessionFits, Session
  <2> QED BY <1>1, <1>3, <2>1 DEF CreateRead, Pick
<1>10. ASSUME NEW a \in Admins, CreateCheck(a) PROVE SessionsFit'
  <2>1. PICK v \in Versions : session[a] = [op |-> "check", target |-> v]
    BY <1>10 DEF CreateCheck, SessionsFit, Session, NoSession
  <2> DEFINE next == [op |-> "insert", target |-> v]
  <2>2. SessionFits(next) /\ SessionFits(NoSession)
    BY DEF SessionFits, Session, NoSession
  <2>3. [session[a] EXCEPT !.op = "insert"] = next
    BY <2>1
  <2>4. session' = [session EXCEPT ![a] = next] \/ session' = [session EXCEPT ![a] = NoSession]
    BY <1>10, <2>3 DEF CreateCheck, Pick
  <2> QED BY <1>1, <2>2, <2>4
<1>4. ASSUME NEW a \in Admins, CreateInsert(a) \/ TransitionWrite(a) PROVE SessionsFit'
  <2>1. SessionFits(NoSession)
    BY DEF SessionFits, Session, NoSession
  <2> QED BY <1>1, <1>4, <2>1 DEF CreateInsert, TransitionWrite, Pick
<1>5. ASSUME NEW a \in Admins, NEW i \in DOMAIN request, NEW to \in {"approved", "cancelled"},
             TransitionRead(a, i, to)
      PROVE  SessionsFit'
  <2>1. SessionFits([op |-> "transition", request |-> i, to |-> to])
    BY Rows DEF SessionFits, Session
  <2> QED BY <1>1, <1>5, <2>1 DEF TransitionRead, Pick
<1>6. ASSUME Panel PROVE SessionsFit'
  BY <1>3, <1>4, <1>5, <1>6, <1>10 DEF Panel
<1>7. ASSUME Serve \/ HandlerFails PROVE UNCHANGED session
  <2>1. ASSUME NEW c \in claims, ClaimStep(c) PROVE UNCHANGED session
    BY <2>1 DEF ClaimStep, ClaimSelect, ClaimResume, ClaimInsert, ClaimMark
  <2>2. ASSUME NEW r \in reports, ReportStep(r) PROVE UNCHANGED session
    BY <2>2 DEF ReportStep, ReportSelect, ReportExecution, ReportInstallation, ReportRequest
  <2>3. ASSUME NEW b \in beats, BeatStep(b) PROVE UNCHANGED session
    BY <2>3 DEF BeatStep, BeatUpdate, BeatSelect
  <2> QED BY <1>7, <2>1, <2>2, <2>3 DEF Serve, Forget, HandlerFails
<1>8. ASSUME Run PROVE UNCHANGED session
  <2>1. ASSUME Heartbeat \/ Offered \/ Claimed \/ Fetch \/ FetchFails \/ Backup
        PROVE  UNCHANGED session
    BY <2>1 DEF Heartbeat, Offered, Claimed, Fetch, FetchFails, Backup, serverVars
  <2>2. ASSUME NEW x \in Entries, Install(x) \/ Restore(x) PROVE UNCHANGED session
    BY <2>2 DEF Install, Restore, serverVars
  <2>3. ASSUME Restart \/ Healthy \/ Unhealthy \/ Confirmed PROVE UNCHANGED session
    BY <2>3 DEF Restart, Healthy, Unhealthy, Confirmed, serverVars
  <2>4. ASSUME RollBack \/ Revive \/ RolledBack \/ GivenUp PROVE UNCHANGED session
    BY <2>4 DEF RollBack, Revive, RolledBack, GivenUp, serverVars
  <2> QED BY <1>8, <2>1, <2>2, <2>3, <2>4 DEF Run
<1>9. ASSUME StepFails \/ LoseAnswer \/ Crash \/ UNCHANGED vars PROVE UNCHANGED session
  BY <1>9 DEF StepFails, LoseAnswer, Crash, vars, serverVars
<1> QED BY <1>2, <1>6, <1>7, <1>8, <1>9 DEF Next, ServerNext

\* AGENT_VISIBLE_SQL shows only what was approved.
LEMMA VisibleMeansAuthorized ==
  ASSUME TablesFit, NEW i \in DOMAIN request, Visible(i)
  PROVE  i \in Authorized
BY DEF TablesFit, Visible

\* A finite set of numbers has a greatest one: the sets of the elements above
\* each are well founded, and a least of them is empty.
LEMMA MaxExists ==
  ASSUME NEW S, IsFiniteSet(S), S \subseteq Nat, S # {}
  PROVE  \E i \in S : \A j \in S : j <= i
<1> DEFINE Above(i) == {j \in S : j > i}
           T == {Above(i) : i \in S}
<1>1. IsWellFoundedOn(StrictSubsetOrdering(S), SUBSET S)
  BY FS_StrictSubsetOrderingWellFounded, FS_FiniteSubsetsOfFinite
<1>2. T \subseteq SUBSET S /\ T # {}
  OBVIOUS
<1>3. PICK x \in T : \A y \in T : ~ (<<y, x>> \in StrictSubsetOrdering(S))
  <2> HIDE DEF T
  <2> QED BY <1>1, <1>2, WFMin
<1>4. PICK i \in S : x = Above(i)
  BY <1>3
<1>5. ASSUME NEW j \in S, j > i PROVE FALSE
  <2>1. \A k \in S : k > j => k > i
    BY <1>5
  <2>2. Above(j) \subseteq Above(i)
    BY <2>1
  <2>3. j \in Above(i) /\ j \notin Above(j)
    BY <1>5
  <2>4. <<Above(j), Above(i)>> \in StrictSubsetOrdering(S)
    BY <2>2, <2>3 DEF StrictSubsetOrdering
  <2> QED BY <1>3, <1>4, <2>4
<1>6. \A j \in S : j <= i
  BY <1>5
<1> QED BY <1>6

LEMMA NewestIsVisible ==
  ASSUME TablesFit, NewestVisible # 0
  PROVE  NewestVisible \in DOMAIN request /\ Visible(NewestVisible)
<1> DEFINE seen == {i \in DOMAIN request : Visible(i)}
<1>1. seen # {} /\ NewestVisible = CHOOSE i \in seen : \A j \in seen : j <= i
  BY DEF NewestVisible
<1>2. seen \subseteq Nat /\ IsFiniteSet(seen)
  <2>1. DOMAIN request = 1..Len(request) /\ Len(request) \in Nat
    BY DEF TablesFit
  <2>2. IsFiniteSet(DOMAIN request)
    BY <2>1, FS_Interval
  <2> QED BY <2>1, <2>2, FS_Subset
<1>3. \E i \in seen : \A j \in seen : j <= i
  BY <1>1, <1>2, MaxExists
<1>4. NewestVisible \in seen
  BY <1>1, <1>3
<1> QED BY <1>4

\* What the agent's calls become in the API.
LEMMA ClaimsStep ==
  ASSUME TablesFit, TablesFit', ClaimsFit, [Next]_vars, Grows
  PROVE  ClaimsFit'
<1>1. ASSUME NEW c \in claims, NEW d, ClaimFits(d)', claims' = (claims \ {c}) \cup {d}
      PROVE  ClaimsFit'
  BY <1>1, StillFits DEF ClaimsFit
<1>2. ASSUME claims' \subseteq claims PROVE ClaimsFit'
  BY <1>2, StillFits DEF ClaimsFit
<1>3. ASSUME NEW c \in claims PROVE ClaimFits(c) /\ ClaimFits(c)'
  BY StillFits DEF ClaimsFit
<1>4. ASSUME NEW c \in claims, ClaimSelect(c) PROVE ClaimsFit'
  <2>1. CASE NewestVisible = 0
    <3> DEFINE d == [c EXCEPT !.step = "answer", !.execution = 0]
    <3>1. ClaimFits(d)'
      BY <1>3 DEF ClaimFits, Claim
    <3> QED BY <1>1, <1>4, <2>1, <3>1 DEF ClaimSelect, ClaimAnswers, Advance
  <2>2. CASE NewestVisible # 0
    <3>1. NewestVisible \in DOMAIN request /\ Visible(NewestVisible)
      BY <2>2, NewestIsVisible
    <3>2. PICK i \in Authorized : i = NewestVisible
      BY <3>1, VisibleMeansAuthorized
    <3>3. PICK b \in BOOLEAN : b = (request[i].status = "approved")
      OBVIOUS
    <3> DEFINE d == [c EXCEPT !.step = "resume", !.request = i, !.approved = b]
    <3>4. i \in Authorized' /\ i \in Nat
      BY <3>1, <3>2, Rows DEF Grows
    <3>5. ClaimFits(d)'
      BY <1>3, <3>4 DEF ClaimFits, Claim
    <3>6. claims' = (claims \ {c}) \cup {d}
      BY <1>4, <2>2, <3>2, <3>3 DEF ClaimSelect, Advance
    <3> QED BY <1>1, <3>5, <3>6
  <2> QED BY <2>1, <2>2
<1>17. ASSUME NEW c \in claims, ClaimResume(c) PROVE ClaimsFit'
  <2>1. CASE OpenExecutions(c.request) # {}
    <3>1. PICK e \in OpenExecutions(c.request) :
            e = CHOOSE f \in OpenExecutions(c.request) : TRUE
      BY <2>1
    <3> DEFINE d == [c EXCEPT !.step = "answer", !.execution = e]
    <3>2. e \in DOMAIN execution' /\ e \in Nat
      BY Rows DEF OpenExecutions, Grows
    <3>3. ClaimFits(d)'
      BY <1>3, <3>2 DEF ClaimFits, Claim
    <3>4. claims' = (claims \ {c}) \cup {d}
      BY <1>17, <2>1, <3>1 DEF ClaimResume, ClaimAnswers, Advance
    <3> QED BY <1>1, <3>3, <3>4
  <2>2. CASE OpenExecutions(c.request) = {}
    <3> DEFINE d == [c EXCEPT !.step = "insert"]
    <3>1. c.request \in Authorized'
      BY <1>3, <1>17 DEF ClaimResume, ClaimFits, Grows
    <3>2. ClaimFits(d)'
      BY <1>3, <3>1 DEF ClaimFits, Claim
    <3> QED BY <1>1, <1>17, <2>2, <3>2 DEF ClaimResume, Advance
  <2> QED BY <2>1, <2>2
<1>5. ASSUME NEW c \in claims, ClaimInsert(c) PROVE ClaimsFit'
  <2>1. CASE OpenExecutions(c.request) # {}
    <3> DEFINE d == [NewClaim EXCEPT !.awaited = c.awaited]
    <3>1. ClaimFits(d)'
      BY <1>3 DEF ClaimFits, Claim, NewClaim
    <3> QED BY <1>1, <1>5, <2>1, <3>1 DEF ClaimInsert, Advance
  <2>2. CASE OpenExecutions(c.request) = {}
    <3>1. PICK n : n = Len(execution) + 1
      OBVIOUS
    <3> DEFINE d == [c EXCEPT !.step = IF c.approved THEN "mark" ELSE "answer",
                              !.execution = n]
    <3>2. execution' = Append(execution, NewExecution(c.request))
          /\ claims' = (claims \ {c}) \cup {d}
      BY <1>5, <2>2, <3>1 DEF ClaimInsert, Advance, AfterInsert
    <3>3. n \in DOMAIN execution' /\ n \in Nat
      BY <3>1, <3>2 DEF TablesFit
    <3>4. c.request \in Authorized'
      BY <1>3, <1>5 DEF ClaimInsert, ClaimFits, Grows
    <3>5. ClaimFits(d)'
      BY <1>3, <3>3, <3>4 DEF ClaimFits, Claim
    <3> QED BY <1>1, <3>2, <3>5
  <2> QED BY <2>1, <2>2
<1>6. ASSUME NEW c \in claims, ClaimMark(c) PROVE ClaimsFit'
  <2> DEFINE d == [c EXCEPT !.step = "answer", !.execution = c.execution]
  <2>1. ClaimFits(d)'
    BY <1>3, <1>6 DEF ClaimFits, Claim, ClaimMark
  <2> QED BY <1>1, <1>6, <2>1 DEF ClaimMark, ClaimAnswers, Advance
<1>7. ASSUME HandlerFails PROVE ClaimsFit'
  <2>1. ASSUME NEW c \in claims, claims' = (claims \ {c}) \cup {[c EXCEPT !.step = "error"]}
        PROVE  ClaimsFit'
    <3> DEFINE d == [c EXCEPT !.step = "error"]
    <3>1. ClaimFits(d)'
      BY <1>3 DEF ClaimFits, Claim
    <3> QED BY <1>1, <2>1, <3>1
  <2> QED BY <1>2, <1>7, <2>1 DEF HandlerFails, Advance
<1>8. ASSUME Offered PROVE ClaimsFit'
  <2>1. ClaimFits(NewClaim)'
    BY DEF ClaimFits, Claim, NewClaim
  <2> QED BY <1>2, <1>3, <1>8, <2>1 DEF Offered, SendClaim, ClaimsFit
<1>9. ASSUME claims' = Orphaned(claims) PROVE ClaimsFit'
  <2>1. ASSUME NEW c \in claims PROVE ClaimFits([c EXCEPT !.awaited = FALSE])'
    BY <1>3 DEF ClaimFits, Claim
  <2> QED BY <1>9, <2>1 DEF Orphaned, ClaimsFit
<1>10. ASSUME Panel PROVE claims' \subseteq claims
  BY <1>10 DEF Panel, CreateRead, CreateCheck, CreateInsert, TransitionRead, TransitionWrite,
               handlers
<1>11. ASSUME NEW r \in reports, ReportStep(r) PROVE claims' \subseteq claims
  BY <1>11 DEF ReportStep, ReportSelect, ReportExecution, ReportInstallation, ReportRequest
<1>12. ASSUME Forget PROVE claims' \subseteq claims
  BY <1>12 DEF Forget
<1>18. ASSUME NEW b \in beats, BeatStep(b) PROVE claims' \subseteq claims
  BY <1>18 DEF BeatStep, BeatUpdate, BeatSelect
<1>13. ASSUME Serve PROVE ClaimsFit'
  BY <1>2, <1>4, <1>5, <1>6, <1>11, <1>12, <1>13, <1>17, <1>18 DEF Serve, ClaimStep
<1>14. ASSUME Run PROVE ClaimsFit'
  <2>1. ASSUME Heartbeat \/ Claimed \/ Fetch \/ FetchFails \/ Backup
        PROVE  claims' \subseteq claims
    BY <2>1 DEF Heartbeat, Claimed, Fetch, FetchFails, Backup, serverVars, handlers
  <2>2. ASSUME NEW x \in Entries, Install(x) \/ Restore(x) PROVE claims' \subseteq claims
    BY <2>2 DEF Install, Restore, serverVars, handlers
  <2>3. ASSUME Restart \/ Healthy \/ Unhealthy \/ Confirmed PROVE claims' \subseteq claims
    BY <2>3 DEF Restart, Healthy, Unhealthy, Confirmed, serverVars, handlers
  <2>4. ASSUME RollBack \/ Revive \/ RolledBack \/ GivenUp PROVE claims' \subseteq claims
    BY <2>4 DEF RollBack, Revive, RolledBack, GivenUp, serverVars, handlers
  <2> QED BY <1>2, <1>8, <1>14, <2>1, <2>2, <2>3, <2>4 DEF Run
<1>15. ASSUME StepFails \/ UNCHANGED vars PROVE claims' \subseteq claims
  BY <1>15 DEF StepFails, vars, serverVars, handlers
<1>16. ASSUME LoseAnswer \/ Crash PROVE ClaimsFit'
  <2>1. claims' \subseteq claims \/ claims' = Orphaned(claims)
    BY <1>16 DEF LoseAnswer, Crash
  <2> QED BY <1>2, <1>9, <2>1
<1> QED BY <1>2, <1>7, <1>10, <1>13, <1>14, <1>15, <1>16 DEF Next, ServerNext

\* A report is always of an execution that exists.
LEMMA ReportsStep ==
  ASSUME TablesFit, ReportsFit, AgentFits, [Next]_vars, Grows
  PROVE  ReportsFit'
<1>1. ASSUME NEW r \in reports PROVE ReportFits(r) /\ ReportFits(r)'
  BY StillFits DEF ReportsFit
<1>2. ASSUME reports' \subseteq reports PROVE ReportsFit'
  BY <1>1, <1>2 DEF ReportsFit
<1>3. ASSUME NEW r \in reports, NEW s, ReportFits(s)', reports' = (reports \ {r}) \cup {s}
      PROVE  ReportsFit'
  BY <1>1, <1>3 DEF ReportsFit
<1>4. ASSUME NEW stage \in {"completed", "failed"}, pc \notin {"idle", "beating", "claiming"},
             reports' \subseteq reports \cup {NewReport(job, stage)}
      PROVE  ReportsFit'
  <2>1. PICK e \in DOMAIN execution : e = job
    BY <1>4 DEF AgentFits
  <2> DEFINE s == [step |-> "select", execution |-> e, stage |-> stage,
                   claimed |-> FALSE, awaited |-> TRUE]
  <2>2. ReportFits(s)'
    BY Rows DEF ReportFits, Report, Grows
  <2>3. reports' \subseteq reports \cup {s}
    BY <1>4, <2>1 DEF NewReport
  <2> HIDE DEF s
  <2> QED BY <1>1, <2>2, <2>3 DEF ReportsFit
<1>5. ASSUME NEW r \in reports, ReportStep(r) PROVE ReportsFit'
  <2>1. PICK step \in {"execution", "installation", "request", "answer"},
             claimed \in BOOLEAN :
          reports' = (reports \ {r}) \cup {[r EXCEPT !.step = step, !.claimed = claimed]}
    <3>1. r \in Report
      BY <1>1 DEF ReportFits
    <3>2. ASSUME NEW step \in {"execution", "installation", "request", "answer"}
          PROVE  [r EXCEPT !.step = step] = [r EXCEPT !.step = step, !.claimed = r.claimed]
                 /\ r.claimed \in BOOLEAN
      BY <3>1 DEF Report
    <3>3. CASE ReportSelect(r)
      <4>1. (Open(r.execution) /\ request[RequestOf(r.execution)].status = "manual_required")
              \in BOOLEAN
        OBVIOUS
      <4> QED BY <3>3, <4>1 DEF ReportSelect, Proceed
    <3>4. CASE ReportExecution(r)
      BY <3>2, <3>4 DEF ReportExecution, Proceed
    <3>5. CASE ReportInstallation(r)
      BY <3>2, <3>5 DEF ReportInstallation, Proceed
    <3>6. CASE ReportRequest(r)
      BY <3>2, <3>6 DEF ReportRequest, Proceed
    <3> QED BY <1>5, <3>3, <3>4, <3>5, <3>6 DEF ReportStep
  <2> DEFINE s == [r EXCEPT !.step = step, !.claimed = claimed]
  <2>2. ReportFits(s)'
    BY <1>1 DEF ReportFits, Report
  <2> QED BY <1>3, <2>1, <2>2
<1>6. ASSUME HandlerFails PROVE ReportsFit'
  <2>1. ASSUME NEW r \in reports, reports' = (reports \ {r}) \cup {[r EXCEPT !.step = "error"]}
        PROVE  ReportsFit'
    <3> DEFINE s == [r EXCEPT !.step = "error"]
    <3>1. ReportFits(s)'
      BY <1>1 DEF ReportFits, Report
    <3> QED BY <1>3, <2>1, <3>1
  <2> QED BY <1>2, <1>6, <2>1 DEF HandlerFails, Proceed
<1>7. ASSUME NEW r \in Orphaned(reports) PROVE ReportFits(r)'
  BY <1>1, <1>7 DEF Orphaned, ReportFits, Report
<1>8. ASSUME Panel PROVE reports' \subseteq reports
  BY <1>8 DEF Panel, CreateRead, CreateCheck, CreateInsert, TransitionRead, TransitionWrite,
              handlers
<1>9. ASSUME Serve PROVE ReportsFit'
  <2>1. ASSUME NEW c \in claims, ClaimStep(c) PROVE reports' \subseteq reports
    BY <2>1 DEF ClaimStep, ClaimSelect, ClaimResume, ClaimInsert, ClaimMark
  <2>2. ASSUME Forget PROVE reports' \subseteq reports
    BY <2>2 DEF Forget
  <2>3. ASSUME NEW b \in beats, BeatStep(b) PROVE reports' \subseteq reports
    BY <2>3 DEF BeatStep, BeatUpdate, BeatSelect
  <2> QED BY <1>2, <1>5, <1>9, <2>1, <2>2, <2>3 DEF Serve
<1>10. ASSUME Run PROVE ReportsFit'
  <2>1. ASSUME Heartbeat \/ Offered \/ Claimed \/ Fetch \/ Backup
        PROVE  reports' \subseteq reports
    BY <2>1 DEF Heartbeat, Offered, Claimed, Fetch, Backup, serverVars, handlers
  <2>2. ASSUME NEW x \in Entries, Install(x) \/ Restore(x) PROVE reports' \subseteq reports
    BY <2>2 DEF Install, Restore, serverVars, handlers
  <2>3. ASSUME Restart \/ Unhealthy \/ Confirmed \/ RollBack \/ GivenUp
        PROVE  reports' \subseteq reports
    BY <2>3 DEF Restart, Unhealthy, Confirmed, RollBack, GivenUp, serverVars, handlers
  <2>4. ASSUME FetchFails \/ Healthy \/ Revive \/ RolledBack PROVE ReportsFit'
    BY <1>2, <1>4, <2>4 DEF FetchFails, Healthy, Revive, RolledBack, Send
  <2> QED BY <1>2, <1>10, <2>1, <2>2, <2>3, <2>4 DEF Run
<1>11. ASSUME StepFails PROVE ReportsFit'
  BY <1>2, <1>4, <1>11 DEF StepFails, Send
<1>12. ASSUME LoseAnswer \/ Crash PROVE ReportsFit'
  <2>1. CASE reports' \subseteq reports \cup Orphaned(reports)
    BY <1>1, <1>7, <2>1 DEF ReportsFit
  <2>2. CASE pc = "reporting" /\ reports' = Orphaned(reports) \cup {NewReport(job, "failed")}
    <3>1. PICK e \in DOMAIN execution : e = job
      BY <2>2 DEF AgentFits
    <3> DEFINE s == [step |-> "select", execution |-> e, stage |-> "failed",
                     claimed |-> FALSE, awaited |-> TRUE]
    <3>2. ReportFits(s)'
      BY Rows DEF ReportFits, Report, Grows
    <3>3. reports' = Orphaned(reports) \cup {s}
      BY <2>2, <3>1 DEF NewReport
    <3> HIDE DEF s
    <3> QED BY <1>7, <3>2, <3>3 DEF ReportsFit
  <2> QED BY <1>12, <2>1, <2>2 DEF LoseAnswer, Crash
<1>13. ASSUME UNCHANGED vars PROVE reports' \subseteq reports
  BY <1>13 DEF vars, serverVars, handlers
<1> QED BY <1>2, <1>6, <1>8, <1>9, <1>10, <1>11, <1>12, <1>13 DEF Next, ServerNext

(***************************************************************************)
(* The agent                                                               *)
(***************************************************************************)

\* What is on disk and in the backup stays approved as the tables grow, and
\* whoever leaves the agent alone keeps what it has.
LEMMA AgentStillFits ==
  ASSUME AgentFits, Grows
  PROVE  /\ job \in {0} \cup DOMAIN execution'
         /\ disk \in [Entries -> Known']
         /\ backup \subseteq [Entries -> Known']
         /\ UNCHANGED agentVars => AgentFits'
<1>1. Known \subseteq Known'
  BY StillFits
<1>2. [Entries -> Known] \subseteq [Entries -> Known']
  BY <1>1
<1>3. /\ job \in {0} \cup DOMAIN execution'
      /\ disk \in [Entries -> Known']
      /\ backup \subseteq [Entries -> Known']
  BY <1>2 DEF AgentFits, Grows
<1>4. UNCHANGED agentVars => AgentFits'
  BY <1>3 DEF AgentFits, agentVars
<1> QED BY <1>3, <1>4

\* A copy writes one entry, of a version that may be there.
LEMMA CopyFits ==
  ASSUME AgentFits, Grows, NEW x \in Entries, NEW v \in Known', Copy(x, v)
  PROVE  disk' \in [Entries -> Known'] /\ todo' \subseteq Entries
BY AgentStillFits DEF Copy, AgentFits

LEMMA BreakFits ==
  ASSUME AgentFits, Grows, CopyBreaksOff
  PROVE  disk' \in [Entries -> Known']
<1>1. Missing \in Known'
  BY DEF Known
<1> QED BY <1>1, AgentStillFits DEF CopyBreaksOff

\* What the release of an execution in hand ships are entries.
LEMMA TargetShips ==
  ASSUME TablesFit, AgentFits, job # 0
  PROVE  Target \in Versions /\ Contents(Target) \subseteq Entries /\ VersionFile \in Contents(Target)
<1>1. RequestOf(job) \in Authorized
  BY DEF AgentFits, TablesFit
<1>2. Target \in Versions
  BY <1>1, Rows DEF Authorized, Request, Target
<1> QED BY <1>2, EntriesAssumption DEF Contents

LEMMA AgentStep ==
  ASSUME TablesFit, ClaimsFit, AgentFits, [Next]_vars, Grows
  PROVE  AgentFits'
<1> USE AgentStillFits
<1>1. ASSUME Heartbeat \/ Offered PROVE AgentFits'
  BY <1>1 DEF Heartbeat, Offered, AgentFits
<1>2. ASSUME Claimed PROVE AgentFits'
  <2>1. PICK c \in claims :
          /\ c.step \in {"answer", "error"}
          /\ IF c.step = "answer" /\ c.execution # 0
             THEN pc' = "fetching" /\ job' = c.execution
             ELSE pc' = "idle" /\ UNCHANGED job
    BY <1>2 DEF Claimed, Awaited, AtWork
  <2>2. c.step = "answer" => c.execution \in {0} \cup DOMAIN execution'
    BY DEF ClaimsFit, ClaimFits, Grows
  <2>3. UNCHANGED <<backup, todo, disk>>
    BY <1>2 DEF Claimed
  <2> QED BY <2>1, <2>2, <2>3 DEF AgentFits
<1>3. ASSUME Fetch \/ FetchFails PROVE AgentFits'
  BY <1>3 DEF Fetch, FetchFails, AgentFits
<1>4. ASSUME Backup PROVE AgentFits'
  <2>1. Contents(Target) \subseteq Entries
    BY <1>4, TargetShips DEF Backup, AgentFits
  <2> QED BY <1>4, <2>1 DEF Backup, AgentFits
<1>5. ASSUME NEW x \in Entries, Install(x) PROVE AgentFits'
  <2>1. RequestOf(job) \in Authorized
    BY <1>5 DEF Install, AgentFits, TablesFit
  <2>2. Target \in Known'
    BY <2>1, StillFits DEF Target, Known
  <2>3. PICK v \in Known' : v = Target
    BY <2>2
  <2>4. disk' \in [Entries -> Known'] /\ todo' \subseteq Entries
    BY <1>5, <2>3, CopyFits DEF Install
  <2> QED BY <1>5, <2>4 DEF Install, AgentFits
<1>6. ASSUME Restart \/ Healthy \/ Unhealthy PROVE AgentFits'
  BY <1>6 DEF Restart, Healthy, Unhealthy, AgentFits
<1>7. ASSUME Confirmed PROVE AgentFits'
  BY <1>7 DEF Confirmed, Rest, AgentFits
<1>8. ASSUME RollBack PROVE AgentFits'
  BY <1>8 DEF RollBack, InBackup, AgentFits
<1>9. ASSUME NEW x \in Entries, Restore(x) PROVE AgentFits'
  <2>1. Saved \in backup
    BY <1>9 DEF Restore, AgentFits, Saved
  <2>2. PICK v \in Known' : v = Saved[x]
    BY <2>1
  <2>3. disk' \in [Entries -> Known'] /\ todo' \subseteq Entries
    BY <1>9, <2>2, CopyFits DEF Restore
  <2> QED BY <1>9, <2>3 DEF Restore, AgentFits
<1>10. ASSUME Revive \/ RolledBack \/ GivenUp PROVE AgentFits'
  BY <1>10 DEF Revive, RolledBack, GivenUp, Rest, AgentFits
<1>11. ASSUME StepFails PROVE AgentFits'
  <2>1. disk' \in [Entries -> Known']
    BY <1>11, BreakFits DEF StepFails
  <2> QED BY <1>11, <2>1 DEF StepFails, AgentFits
<1>12. ASSUME LoseAnswer PROVE AgentFits'
  BY <1>12 DEF LoseAnswer, Rest, AgentFits
<1>13. ASSUME Crash PROVE AgentFits'
  <2>1. disk' \in [Entries -> Known']
    BY <1>13, BreakFits DEF Crash
  <2> QED BY <1>13, <2>1 DEF Crash, Rest, AgentFits
<1>14. ASSUME UNCHANGED agentVars \/ UNCHANGED vars PROVE AgentFits'
  BY <1>14 DEF vars
<1> QED BY <1>1, <1>2, <1>3, <1>4, <1>5, <1>6, <1>7, <1>8, <1>9, <1>10, <1>11,
           <1>12, <1>13, <1>14 DEF Next, Run

\* The invariant holds throughout, and with it that the tables only grow.
LEMMA AlwaysFits == Spec => []Fits
<1>1. Fits /\ [Next]_vars => Fits'
  <2> SUFFICES ASSUME Fits, [Next]_vars PROVE Fits'
    OBVIOUS
  <2>1. TablesFit' /\ Grows
    BY TablesStep DEF Fits
  <2> QED BY <2>1, SessionsStep, ClaimsStep, ReportsStep, AgentStep DEF Fits, HandlersFit
<1> QED BY <1>1, InitFits, PTL DEF Spec

\* Nothing but what an administrator approved is ever on disk: a claim offers
\* only approved requests (AGENT_VISIBLE_SQL), an approval is never taken back,
\* and a backup holds only what was on disk.
THEOREM OnlyApprovedInstalled == Spec => []NothingUnapprovedInstalled
<1>1. Fits => NothingUnapprovedInstalled
  BY DEF Fits, AgentFits, TablesFit, NothingUnapprovedInstalled, Known, Authorized, Request
<1> QED BY <1>1, AlwaysFits, PTL

(***************************************************************************)
(* One execution per request                                               *)
(***************************************************************************)

\* Only a claim opens an execution, and the unique index lets it only when
\* the request has none open; a report only ever closes one.
LEMMA OneOpenStep ==
  ASSUME TablesFit, ClaimsFit, ReportsFit, OneOpen, [Next]_vars
  PROVE  OneOpen'
<1> USE DEF OneOpen, Open, RequestOf
<1>1. ASSUME UNCHANGED execution PROVE OneOpen'
  BY <1>1
<1>2. ASSUME NEW c \in claims, ClaimInsert(c) PROVE OneOpen'
  <2>1. CASE OpenExecutions(c.request) # {}
    BY <1>1, <1>2, <2>1 DEF ClaimInsert
  <2>2. CASE OpenExecutions(c.request) = {}
    <3> DEFINE n == Len(execution) + 1
    <3>1. execution' = Append(execution, NewExecution(c.request))
      BY <1>2, <2>2 DEF ClaimInsert
    <3>2. /\ DOMAIN execution = 1..Len(execution) /\ DOMAIN execution' = 1..n
          /\ \A e \in 1..Len(execution) : execution'[e] = execution[e]
          /\ execution'[n].request = c.request
          /\ Len(execution) \in Nat
      BY <3>1 DEF TablesFit, NewExecution
    <3>3. \A e \in 1..Len(execution) : ~ (execution[e].request = c.request
                                          /\ execution[e].stage = "open")
      BY <2>2, <3>2 DEF OpenExecutions
    <3>4. \A e \in 1..n : e \in 1..Len(execution) \/ e = n
      BY <3>2
    <3> HIDE DEF n
    <3> QED BY <3>2, <3>3, <3>4
  <2> QED BY <2>1, <2>2
<1>3. ASSUME NEW r \in reports, ReportExecution(r) PROVE OneOpen'
  <2>1. r.execution \in DOMAIN execution /\ r.stage # "open"
    BY DEF ReportsFit, ReportFits, Report
  <2>2. /\ DOMAIN execution' = DOMAIN execution
        /\ \A e \in DOMAIN execution :
             /\ execution'[e].request = execution[e].request
             /\ execution'[e].stage = "open" => execution[e].stage = "open"
    BY <1>3, <2>1, Rows DEF ReportExecution, Execution
  <2> QED BY <2>2
<1>4. ASSUME Writes PROVE OneOpen'
  <2>1. ASSUME NEW a \in Admins, CreateInsert(a) \/ TransitionWrite(a) PROVE UNCHANGED execution
    BY <2>1 DEF CreateInsert, TransitionWrite
  <2>2. ASSUME NEW c \in claims, ClaimMark(c) PROVE UNCHANGED execution
    BY <2>2 DEF ClaimMark
  <2>3. ASSUME NEW r \in reports, ReportRequest(r) PROVE UNCHANGED execution
    BY <2>3 DEF ReportRequest
  <2> QED BY <1>1, <1>2, <1>3, <1>4, <2>1, <2>2, <2>3 DEF Writes
<1> QED BY <1>1, <1>4, OnlyWrites

\* However many claims run at once, and however often the agent claims again,
\* a request has at most one unfinished execution (UpdateAgentService.ts, claim).
THEOREM OneExecutionAtATime == Spec => []OneExecutionPerRequest
<1>1. OneOpen => OneExecutionPerRequest
  <2> SUFFICES ASSUME OneOpen, NEW i \in DOMAIN request
               PROVE  Cardinality(OpenExecutions(i)) <= 1
    BY DEF OneExecutionPerRequest
  <2>1. \A e, f \in OpenExecutions(i) : e = f
    BY DEF OneOpen, OpenExecutions, RequestOf
  <2>2. CASE OpenExecutions(i) = {}
    BY <2>2, FS_EmptySet
  <2>3. CASE OpenExecutions(i) # {}
    <3>1. PICK e : OpenExecutions(i) = {e}
      BY <2>1, <2>3
    <3> QED BY <3>1, FS_Singleton
  <2> QED BY <2>2, <2>3
<1>2. Fits /\ OneOpen /\ [Next]_vars => OneOpen'
  BY OneOpenStep DEF Fits, HandlersFit
<1> QED BY <1>1, <1>2, InitFits, AlwaysFits, PTL DEF Spec

(***************************************************************************)
(* What a run leaves in the installation                                   *)
(***************************************************************************)

\* A tree that holds the entries of the release its version file names, but for
\* those no backup holds; Kept are the ones both hold.
Kept(tree) == Contents(tree[VersionFile]) \ Skipped

OneRelease(tree) ==
  /\ tree[VersionFile] \in Versions
  /\ \A x \in Kept(tree) : tree[x] = tree[VersionFile]

Resting == OneRelease(disk) /\ running = disk

\* How far an installation has come: the version file is copied last, and the
\* services are restarted from what was installed.
InstallFits ==
  /\ pc \in Steps
  /\ pc = "installing" =>
       VersionFile \in todo /\ \A x \in Contents(Target) \ todo : disk[x] = Target
  /\ pc \in {"restarting", "checking", "confirming"} => Holds(disk, Target)
  /\ pc \in {"checking", "confirming"} => running = disk

\* As long as no run was cut off, what is installed, or else what is saved, is
\* one release, and a rollback brings it back.
RollbackFits ==
  ~cutOff =>
    /\ pc \in {"idle", "beating", "claiming", "fetching", "saving", "reporting", "giving_up"} =>
         Resting
    /\ pc \in {"installing", "restarting", "checking", "confirming",
               "rolling_back", "restoring", "reviving"} => OneRelease(Saved)
    /\ pc = "restoring" => \A x \in Kept(Saved) \ todo : disk[x] = Saved[x]
    /\ pc = "reviving" => \A x \in Kept(Saved) : disk[x] = Saved[x]

RunFits == InstallFits /\ RollbackFits

\* The target of the execution in hand stays what it is.
LEMMA TargetStays ==
  ASSUME TablesFit, AgentFits, job # 0, Grows, job' = job
  PROVE  Target' = Target
<1>1. job \in DOMAIN execution /\ RequestOf(job) \in Authorized
  BY DEF AgentFits, TablesFit
<1> QED BY <1>1 DEF Grows, Target, RequestOf, Authorized

\* A tree that holds the target's release is one release.
LEMMA TargetIsOne ==
  ASSUME TablesFit, AgentFits, job # 0, Holds(disk, Target)
  PROVE  OneRelease(disk)
<1>1. VersionFile \in Contents(Target) /\ Target \in Versions
  BY TargetShips
<1>2. disk[VersionFile] = Target
  BY <1>1 DEF Holds
<1> QED BY <1>1, <1>2 DEF OneRelease, Kept, Holds

LEMMA InstallStep ==
  ASSUME TablesFit, AgentFits, InstallFits, [Next]_vars, Grows
  PROVE  InstallFits'
<1> USE EntriesAssumption
<1> DEFINE Later == {"idle", "beating", "claiming", "fetching", "saving", "rolling_back",
                     "restoring", "reviving", "reporting", "giving_up"}
<1>1. ASSUME pc' \in Later PROVE InstallFits'
  BY <1>1 DEF InstallFits, Steps
<1>2. ASSUME UNCHANGED agentVars PROVE InstallFits'
  <2>1. CASE pc \in Later
    BY <1>1, <1>2, <2>1 DEF agentVars
  <2>2. CASE pc \in {"installing", "restarting", "checking", "confirming"}
    <3>1. Target' = Target /\ Contents(Target)' = Contents(Target)
      BY <1>2, <2>2, TargetStays DEF AgentFits, agentVars, Contents
    <3> QED BY <1>2, <3>1 DEF InstallFits, agentVars, Holds, Contents
  <2> QED BY <2>1, <2>2 DEF InstallFits, Steps
<1>3. ASSUME Backup PROVE InstallFits'
  <2>1. Target' = Target
    BY <1>3, TargetStays DEF Backup, AgentFits
  <2>2. VersionFile \in Contents(Target)
    BY DEF Contents
  <2>3. pc' = "installing" /\ todo' = Contents(Target)
    BY <1>3 DEF Backup
  <2> QED BY <2>1, <2>2, <2>3 DEF InstallFits, Steps, Contents
<1>4. ASSUME NEW x \in Entries, Install(x) PROVE InstallFits'
  <2>1. Target' = Target /\ Contents(Target) \subseteq Entries
    BY <1>4, TargetStays, TargetShips DEF Install, AgentFits
  <2>2. /\ disk' = [disk EXCEPT ![x] = Target] /\ disk \in [Entries -> Known]
        /\ todo' = todo \ {x} /\ x \in todo
        /\ VersionFile \in todo /\ \A y \in Contents(Target) \ todo : disk[y] = Target
        /\ x = VersionFile => todo = {VersionFile}
        /\ pc' = IF x = VersionFile THEN "restarting" ELSE "installing"
    BY <1>4 DEF Install, Copy, InstallFits, AgentFits
  <2>3. \A y \in Contents(Target) \ todo' : disk'[y] = Target
    BY <2>1, <2>2
  <2> QED BY <2>1, <2>2, <2>3 DEF InstallFits, Steps, Holds, Contents
<1>5. ASSUME Restart PROVE InstallFits'
  <2>1. Target' = Target
    BY <1>5, TargetStays DEF Restart, AgentFits
  <2> QED BY <1>5, <2>1 DEF Restart, InstallFits, Steps, Holds, Contents
<1>6. ASSUME Healthy PROVE InstallFits'
  <2>1. Target' = Target
    BY <1>6, TargetStays DEF Healthy, AgentFits
  <2> QED BY <1>6, <2>1 DEF Healthy, InstallFits, Steps, Holds, Contents
<1>7. ASSUME Heartbeat \/ Offered \/ Claimed \/ Fetch \/ FetchFails \/ Unhealthy \/ Confirmed
               \/ RollBack \/ Revive \/ RolledBack \/ GivenUp \/ StepFails \/ LoseAnswer \/ Crash
               \/ \E x \in Entries : Restore(x)
      PROVE  InstallFits'
  <2>1. pc' \in Later
    BY <1>7 DEF Heartbeat, Offered, Claimed, Fetch, FetchFails, Unhealthy, Confirmed, RollBack,
                Revive, RolledBack, GivenUp, StepFails, LoseAnswer, Crash, Restore, Rest
  <2> QED BY <1>1, <2>1
<1>8. ASSUME UNCHANGED vars PROVE InstallFits'
  BY <1>2, <1>8 DEF vars
<1> QED BY <1>2, <1>3, <1>4, <1>5, <1>6, <1>7, <1>8 DEF Next, Run

\* A step before the installation, or after the rollback.
LEMMA RestGoesOn ==
  ASSUME RollbackFits, UNCHANGED <<disk, running>>,
         ~cutOff' => ~cutOff,
         pc \in {"idle", "beating", "claiming", "fetching", "saving", "reporting", "giving_up"},
         pc' \in {"idle", "beating", "claiming", "fetching", "saving", "reporting", "giving_up"}
  PROVE  RollbackFits'
<1>1. ~cutOff' => Resting'
  BY DEF RollbackFits, Resting, OneRelease, Kept
<1> QED BY <1>1 DEF RollbackFits

\* What a release that was saved needs is in the backup.
LEMMA KeptIsSaved ==
  ASSUME OneRelease(Saved)
  PROVE  Kept(Saved) \subseteq InBackup /\ VersionFile \in Kept(Saved)
<1>1. Saved[VersionFile] \in Versions /\ Saved[VersionFile] # Missing
  BY UpdateAssumption DEF OneRelease, Missing
<1> QED BY <1>1, EntriesAssumption DEF OneRelease, Kept, InBackup, Contents

LEMMA RollbackStep ==
  ASSUME TablesFit, AgentFits, InstallFits, RollbackFits, [Next]_vars
  PROVE  RollbackFits'
<1> USE EntriesAssumption DEF Kept
<1>1. ASSUME Heartbeat \/ Offered \/ Claimed \/ Fetch \/ FetchFails \/ RolledBack \/ GivenUp
      PROVE  RollbackFits'
  <2>1. UNCHANGED <<disk, running, cutOff>>
    BY <1>1 DEF Heartbeat, Offered, Claimed, Fetch, FetchFails, RolledBack, GivenUp
  <2> QED BY <1>1, <2>1, RestGoesOn
         DEF Heartbeat, Offered, Claimed, Fetch, FetchFails, RolledBack, GivenUp, Rest
<1>2. ASSUME UNCHANGED agentVars PROVE RollbackFits'
  <2>1. /\ Saved' = Saved /\ pc' = pc /\ cutOff' = cutOff
        /\ todo' = todo /\ disk' = disk /\ running' = running
    BY <1>2 DEF agentVars, Saved
  <2> QED BY <2>1 DEF RollbackFits, Resting, OneRelease
<1>3. ASSUME Backup PROVE RollbackFits'
  <2>1. Saved' = disk
    BY <1>3 DEF Backup, Saved
  <2> QED BY <1>3, <2>1 DEF Backup, RollbackFits, Resting, OneRelease
<1>4. ASSUME (\E x \in Entries : Install(x)) \/ Restart \/ Healthy \/ Unhealthy
      PROVE  RollbackFits'
  <2>1. /\ Saved' = Saved /\ cutOff' = cutOff
        /\ pc \in {"installing", "restarting", "checking"}
        /\ pc' \in {"installing", "restarting", "checking", "confirming", "rolling_back"}
    BY <1>4 DEF Install, Restart, Healthy, Unhealthy, Saved
  <2> QED BY <2>1 DEF RollbackFits, OneRelease
<1>5. ASSUME Confirmed PROVE RollbackFits'
  <2>1. /\ Saved' = Saved /\ cutOff' = cutOff /\ pc' = "rolling_back"
        \/ pc' = "idle"
    BY <1>5 DEF Confirmed, Rest, Saved
  <2>2. CASE Saved' = Saved /\ cutOff' = cutOff /\ pc' = "rolling_back"
    BY <1>5, <2>2 DEF Confirmed, RollbackFits, OneRelease
  <2>3. CASE pc' = "idle"
    <3>1. OneRelease(disk) /\ running = disk
      BY <1>5, TargetIsOne DEF Confirmed, InstallFits, AgentFits
    <3>2. UNCHANGED <<disk, running>>
      BY <1>5 DEF Confirmed
    <3>3. Resting'
      BY <3>1, <3>2 DEF Resting, OneRelease
    <3> QED BY <2>3, <3>3 DEF RollbackFits
  <2> QED BY <2>1, <2>2, <2>3
<1>6. ASSUME RollBack PROVE RollbackFits'
  <2>1. /\ Saved' = Saved /\ cutOff' = cutOff /\ disk' = disk /\ todo' = InBackup
        /\ pc = "rolling_back"
        /\ pc' = IF todo' = {} THEN "reviving" ELSE "restoring"
    BY <1>6 DEF RollBack, Saved
  <2>2. SUFFICES ASSUME ~cutOff PROVE RollbackFits'
    BY <2>1 DEF RollbackFits
  <2>3. OneRelease(Saved)
    BY <2>1, <2>2 DEF RollbackFits
  <2>4. Kept(Saved) \subseteq InBackup /\ VersionFile \in Kept(Saved)
    BY <2>3, KeptIsSaved
  <2> QED BY <2>1, <2>3, <2>4 DEF RollbackFits, OneRelease
<1>7. ASSUME NEW x \in Entries, Restore(x) PROVE RollbackFits'
  <2>1. /\ Saved' = Saved /\ cutOff' = cutOff /\ pc = "restoring"
        /\ todo' = todo \ {x} /\ disk' = [disk EXCEPT ![x] = Saved[x]]
        /\ disk \in [Entries -> Known]
        /\ pc' = IF todo' = {} THEN "reviving" ELSE "restoring"
    BY <1>7 DEF Restore, Copy, Saved, AgentFits
  <2>2. SUFFICES ASSUME ~cutOff PROVE RollbackFits'
    BY <2>1 DEF RollbackFits
  <2>3. OneRelease(Saved) /\ \A y \in Kept(Saved) \ todo : disk[y] = Saved[y]
    BY <2>1, <2>2 DEF RollbackFits
  <2>4. Kept(Saved) \subseteq Entries
    BY <2>3, KeptIsSaved DEF InBackup
  <2>5. \A y \in Kept(Saved) \ todo' : disk'[y] = Saved[y]
    BY <2>1, <2>3, <2>4
  <2> QED BY <2>1, <2>3, <2>5 DEF RollbackFits, OneRelease
<1>8. ASSUME Revive PROVE RollbackFits'
  <2>1. ASSUME ~cutOff PROVE Resting'
    <3>1. OneRelease(Saved) /\ \A x \in Kept(Saved) : disk[x] = Saved[x]
      BY <1>8, <2>1 DEF Revive, RollbackFits
    <3>2. disk[VersionFile] = Saved[VersionFile]
      BY <3>1, KeptIsSaved
    <3>3. OneRelease(disk)
      BY <3>1, <3>2 DEF OneRelease
    <3> QED BY <1>8, <3>3 DEF Revive, Resting, OneRelease
  <2> QED BY <1>8, <2>1 DEF Revive, RollbackFits
<1>9. ASSUME StepFails PROVE RollbackFits'
  <2>1. CASE pc = "saving"
    <3>1. disk' = disk
      BY <1>9, <2>1 DEF StepFails, CopyBreaksOff
    <3>2. pc' = "giving_up" /\ running' = running /\ (~cutOff' => ~cutOff)
      BY <1>9, <2>1 DEF StepFails
    <3> QED BY <2>1, <3>1, <3>2, RestGoesOn
  <2>2. CASE pc \in {"installing", "restarting", "checking"}
    <3>1. pc' = "rolling_back" /\ Saved' = Saved /\ (~cutOff' => ~cutOff)
      BY <1>9, <2>2 DEF StepFails, Saved
    <3> QED BY <2>2, <3>1 DEF RollbackFits, OneRelease
  <2>3. CASE pc \in {"rolling_back", "restoring", "reviving"}
    BY <1>9, <2>3 DEF StepFails, RollbackFits
  <2> QED BY <1>9, <2>1, <2>2, <2>3 DEF StepFails
<1>10. ASSUME LoseAnswer PROVE RollbackFits'
  <2>1. UNCHANGED <<disk, running, cutOff>>
    BY <1>10 DEF LoseAnswer
  <2>2. CASE pc = "confirming"
    <3>1. pc' = "rolling_back" /\ Saved' = Saved
      BY <1>10, <2>2 DEF LoseAnswer, Saved
    <3> QED BY <2>1, <2>2, <3>1 DEF RollbackFits, OneRelease
  <2>3. CASE pc # "confirming"
    BY <1>10, <2>1, <2>3, RestGoesOn DEF LoseAnswer, Rest
  <2> QED BY <2>2, <2>3
<1>11. ASSUME Crash PROVE RollbackFits'
  <2>1. pc' = "idle" /\ running' \in {running, disk'}
    BY <1>11 DEF Crash, Rest
  <2>2. SUFFICES ASSUME ~cutOff' PROVE RollbackFits'
    BY DEF RollbackFits
  <2>3. ~cutOff /\ pc \notin {"installing", "restarting", "rolling_back", "restoring", "reviving"}
    BY <1>11, <2>2 DEF Crash
  <2>4. disk' = disk
    BY <1>11, <2>3 DEF Crash, CopyBreaksOff
  <2>5. Resting
    <3>1. CASE pc \in {"idle", "beating", "claiming", "fetching", "saving", "reporting",
                       "giving_up"}
      BY <2>3, <3>1 DEF RollbackFits
    <3>2. CASE pc \in {"checking", "confirming"}
      <4>1. OneRelease(disk) /\ running = disk
        BY <3>2, TargetIsOne DEF InstallFits, AgentFits
      <4> QED BY <4>1 DEF Resting
    <3> QED BY <2>3, <3>1, <3>2 DEF InstallFits, Steps
  <2>6. Resting'
    BY <2>1, <2>4, <2>5 DEF Resting, OneRelease
  <2> QED BY <2>1, <2>6 DEF RollbackFits
<1>12. ASSUME UNCHANGED vars PROVE RollbackFits'
  BY <1>2, <1>12 DEF vars
<1> QED BY <1>1, <1>2, <1>3, <1>4, <1>5, <1>6, <1>7, <1>8, <1>9, <1>10, <1>11, <1>12
        DEF Next, Run

LEMMA AlwaysRunFits == Spec => []RunFits
<1>1. ASSUME AgentInit PROVE RunFits
  <2>1. \A x \in Contents(Installed) : x \in Entries
    BY UpdateAssumption, EntriesAssumption DEF Contents
  <2>2. disk[VersionFile] = Installed /\ \A x \in Contents(Installed) : disk[x] = Installed
    BY <1>1, <2>1, EntriesAssumption DEF AgentInit, Fresh, Contents
  <2>3. Resting
    BY <1>1, <2>2, UpdateAssumption DEF AgentInit, Resting, OneRelease, Kept
  <2> QED BY <1>1, <2>3 DEF AgentInit, RunFits, InstallFits, RollbackFits, Steps
<1>2. Fits /\ RunFits /\ [Next]_vars => RunFits'
  BY TablesStep, InstallStep, RollbackStep DEF Fits, HandlersFit, RunFits
<1> QED BY <1>1, <1>2, AlwaysFits, PTL DEF Spec

\* Whatever fails, every run that is not cut off in the middle leaves one whole
\* release and the services running what is on disk: the update, or what was
\* saved before it (orchestrator.ts, the catch of runOnce), whatever entries each
\* release ships and whatever earlier releases left beside.
THEOREM RunsEndOnWholeRelease == Spec => []RestsOnWholeRelease
<1>1. RunFits => RestsOnWholeRelease
  BY DEF RunFits, RollbackFits, RestsOnWholeRelease, Resting, OneRelease, Kept
<1> QED BY <1>1, AlwaysRunFits, PTL

(***************************************************************************)
(* Types                                                                   *)
(***************************************************************************)

\* What Fits says nothing about.
OthersOK ==
  /\ beats \subseteq Beat
  /\ reported \in Versions \cup {0}
  /\ approvals \in 0..MaxApprovals
  /\ faults \in 0..MaxFaults
  /\ booted \in Versions \cup {Missing}
  /\ running \in Tree
  /\ cutOff \in BOOLEAN

\* The versions an installation may have are versions.
TreesOK == disk \in Tree /\ backup \subseteq Tree

LEMMA TreesFit == Fits => TreesOK
<1> SUFFICES ASSUME Fits PROVE TreesOK
  OBVIOUS
<1>1. \A i \in Authorized : request[i].target \in Versions
  BY Rows DEF Fits, Authorized, Request
<1>2. Known \subseteq Versions \cup {Missing}
  BY <1>1, UpdateAssumption DEF Known
<1>3. [Entries -> Known] \subseteq Tree
  BY <1>2 DEF Tree
<1> QED BY <1>3 DEF Fits, AgentFits, TreesOK

LEMMA OthersStep ==
  ASSUME Fits, OthersOK, TreesOK, [Next]_vars, TreesOK'
  PROVE  OthersOK'
<1> USE UpdateAssumption, EntriesAssumption DEF OthersOK
<1>1. disk \in Tree /\ disk' \in Tree
  BY DEF TreesOK
<1>2. ASSUME UNCHANGED <<beats, reported, approvals, faults, booted, running, cutOff>>
      PROVE  OthersOK'
  BY <1>2
<1>3. ASSUME Panel, UNCHANGED agentVars PROVE OthersOK'
  <2>1. UNCHANGED <<beats, reported, faults, booted, running, cutOff>>
    BY <1>3 DEF Panel, CreateRead, CreateCheck, CreateInsert, TransitionRead, TransitionWrite,
                tables, handlers, agentVars
  <2>2. \/ approvals' = approvals
        \/ approvals < MaxApprovals /\ approvals' = approvals + 1
    <3>1. ASSUME NEW a \in Admins, TransitionWrite(a)
          PROVE  \/ approvals' = approvals
                 \/ approvals < MaxApprovals /\ approvals' = approvals + 1
      <4>1. CASE session[a].to = "approved"
        BY <3>1, <4>1 DEF TransitionWrite
      <4>2. CASE session[a].to # "approved"
        BY <3>1, <4>2 DEF TransitionWrite
      <4> QED BY <4>1, <4>2
    <3> QED BY <1>3, <3>1 DEF Panel, CreateRead, CreateCheck, CreateInsert, TransitionRead
  <2> QED BY <2>1, <2>2
<1>4. ASSUME Serve, UNCHANGED agentVars PROVE OthersOK'
  <2>1. ASSUME NEW c \in claims, ClaimStep(c) PROVE OthersOK'
    BY <1>4, <2>1 DEF ClaimStep, ClaimSelect, ClaimResume, ClaimInsert, ClaimMark, tables, agentVars
  <2>2. ASSUME NEW r \in reports, ReportInstallation(r) PROVE OthersOK'
    <3>1. r.execution \in DOMAIN execution
      BY DEF Fits, HandlersFit, ReportsFit, ReportFits
    <3>2. request[RequestOf(r.execution)].target \in Versions
      BY <3>1, Rows DEF Fits, TablesFit, Authorized, Request
    <3> QED BY <1>4, <2>2, <3>2 DEF ReportInstallation, agentVars
  <2>3. ASSUME NEW r \in reports, ReportSelect(r) \/ ReportExecution(r) \/ ReportRequest(r)
        PROVE  OthersOK'
    BY <1>4, <2>3 DEF ReportSelect, ReportExecution, ReportRequest, tables, agentVars
  <2>4. ASSUME Forget PROVE OthersOK'
    <3>1. beats' \subseteq beats
      BY <2>4 DEF Forget
    <3> QED BY <1>4, <2>4, <3>1 DEF Forget, tables, agentVars
  <2>5. ASSUME NEW b \in beats, BeatUpdate(b) PROVE OthersOK'
    <3>1. b \in Beat
      OBVIOUS
    <3>2. [b EXCEPT !.step = "select"] \in Beat /\ b.version \in Versions \cup {0}
      BY <3>1 DEF Beat
    <3> QED BY <1>4, <2>5, <3>2 DEF BeatUpdate, Beaten, agentVars
  <2>6. ASSUME NEW b \in beats, BeatSelect(b) PROVE OthersOK'
    <3>1. PICK o \in BOOLEAN : o = (NewestVisible # 0)
      OBVIOUS
    <3> DEFINE d == [b EXCEPT !.step = "answer", !.offered = o]
    <3>2. b \in Beat
      OBVIOUS
    <3>3. d \in Beat
      BY <3>2 DEF Beat
    <3>4. beats' = (beats \ {b}) \cup {d}
      BY <2>6, <3>1 DEF BeatSelect, Beaten
    <3> HIDE DEF d
    <3>5. UNCHANGED <<reported, approvals, faults, booted, running, cutOff>>
      BY <1>4, <2>6 DEF BeatSelect, tables, agentVars
    <3> QED BY <3>3, <3>4, <3>5
  <2> QED BY <1>4, <2>1, <2>2, <2>3, <2>4, <2>5, <2>6 DEF Serve, ReportStep, BeatStep
<1>5. ASSUME HandlerFails, UNCHANGED agentVars PROVE OthersOK'
  <2>1. beats' \subseteq Beat
    <3>1. ASSUME NEW b \in beats, beats' = (beats \ {b}) \cup {[b EXCEPT !.step = "error"]}
          PROVE  beats' \subseteq Beat
      <4>1. b \in Beat
        OBVIOUS
      <4>2. [b EXCEPT !.step = "error"] \in Beat
        BY <4>1 DEF Beat
      <4> QED BY <3>1, <4>2
    <3> QED BY <1>5, <3>1 DEF HandlerFails, Beaten
  <2> QED BY <1>5, <2>1 DEF HandlerFails, Fault, tables, agentVars
<1>6. ASSUME Heartbeat PROVE OthersOK'
  <2>1. CurrentVersion \in Versions \cup {0}
    BY <1>1 DEF CurrentVersion, Tree, Missing
  <2>2. NewBeat(CurrentVersion) \in Beat
    BY <2>1 DEF NewBeat, Beat
  <2> QED BY <1>6, <2>2 DEF Heartbeat, tables
<1>7. ASSUME Run, ~Heartbeat PROVE OthersOK'
  <2>1. UNCHANGED <<reported, approvals, faults, booted>> /\ beats' \subseteq beats
    <3>1. CASE Offered \/ Claimed \/ Fetch \/ FetchFails \/ Backup
      BY <3>1 DEF Offered, Claimed, Fetch, FetchFails, Backup, serverVars, tables, handlers
    <3>2. CASE \E x \in Entries : Install(x) \/ Restore(x)
      BY <3>2 DEF Install, Restore, serverVars, tables, handlers
    <3>3. CASE Restart \/ Healthy \/ Unhealthy \/ Confirmed
      BY <3>3 DEF Restart, Healthy, Unhealthy, Confirmed, serverVars, tables, handlers
    <3>4. CASE RollBack \/ Revive \/ RolledBack \/ GivenUp
      BY <3>4 DEF RollBack, Revive, RolledBack, GivenUp, serverVars, tables, handlers
    <3> QED BY <1>7, <3>1, <3>2, <3>3, <3>4 DEF Run
  <2>2. running' \in {running, disk} /\ cutOff' \in {cutOff, FALSE}
    BY <1>7 DEF Run, Offered, Claimed, Fetch, FetchFails, Backup, Install, Restore, Restart,
                Healthy, Unhealthy, Confirmed, RollBack, Revive, RolledBack, GivenUp
  <2> QED BY <1>1, <2>1, <2>2
<1>11. ASSUME NEW b \in Beat PROVE [b EXCEPT !.awaited = FALSE] \in Beat
  BY DEF Beat
<1>12. Orphaned(beats) \subseteq Beat
  BY <1>11 DEF Orphaned
<1>8. ASSUME StepFails \/ LoseAnswer PROVE OthersOK'
  <2>1. /\ UNCHANGED <<reported, approvals, booted, running>>
        /\ faults < MaxFaults /\ faults' = faults + 1
    BY <1>8 DEF StepFails, LoseAnswer, Fault, tables
  <2>2. cutOff' \in BOOLEAN
    BY <1>8 DEF StepFails, LoseAnswer
  <2>3. beats' = beats \/ beats' = Orphaned(beats)
    BY <1>8 DEF StepFails, LoseAnswer
  <2> QED BY <1>12, <2>1, <2>2, <2>3
<1>9. ASSUME Crash PROVE OthersOK'
  <2>1. disk'[VersionFile] \in Versions \cup {Missing}
    BY <1>1 DEF Tree
  <2>2. /\ UNCHANGED <<reported, approvals>> /\ beats' \subseteq Beat
        /\ faults' \in 0..MaxFaults
    BY <1>9, <1>12 DEF Crash, Fault, tables
  <2>3. booted' \in Versions \cup {Missing} /\ running' \in Tree /\ cutOff' \in BOOLEAN
    BY <1>1, <1>9, <2>1 DEF Crash
  <2> QED BY <2>2, <2>3
<1>10. ASSUME UNCHANGED vars PROVE OthersOK'
  BY <1>2, <1>10 DEF vars, serverVars, tables, handlers, agentVars
<1> QED BY <1>3, <1>4, <1>5, <1>6, <1>7, <1>8, <1>9, <1>10 DEF Next, ServerNext

LEMMA AlwaysOthersOK == Spec => []OthersOK
<1>1. AgentInit => OthersOK
  <2> SUFFICES ASSUME AgentInit PROVE OthersOK
    OBVIOUS
  <2>1. running \in Tree /\ booted \in Versions /\ cutOff = FALSE
    BY UpdateAssumption DEF AgentInit, Fresh, Tree
  <2>2. reported \in Versions /\ approvals = 0 /\ faults = 0 /\ beats = {}
    BY UpdateAssumption DEF AgentInit, Init
  <2>3. MaxApprovals \in Nat /\ MaxFaults \in Nat
    BY UpdateAssumption
  <2>4. approvals \in 0..MaxApprovals /\ faults \in 0..MaxFaults
    BY <2>2, <2>3
  <2> QED BY <2>1, <2>2, <2>4 DEF OthersOK
<1>2. Fits /\ TreesOK /\ OthersOK /\ [Next]_vars /\ TreesOK' => OthersOK'
  BY OthersStep
<1> QED BY <1>1, <1>2, AlwaysFits, TreesFit, PTL DEF Spec

\* The tables, the handlers and the agent stay well formed, for any releases,
\* entries, administrators and faults.
THEOREM UpdateTypes == Spec => []AgentTypeOK
<1>1. Fits /\ RunFits /\ OthersOK => AgentTypeOK
  <2> SUFFICES ASSUME Fits, RunFits, OthersOK PROVE AgentTypeOK
    OBVIOUS
  <2>1. TypeOK
    BY DEF TypeOK, OthersOK, Fits, TablesFit, HandlersFit, SessionsFit, ClaimsFit, ReportsFit,
           ClaimFits, ReportFits
  <2>2. job \in Nat
    BY Rows DEF Fits, AgentFits
  <2> QED BY <2>1, <2>2, TreesFit
         DEF AgentTypeOK, OthersOK, TreesOK, Fits, AgentFits, RunFits, InstallFits
<1> QED BY <1>1, AlwaysFits, AlwaysRunFits, AlwaysOthersOK, PTL

(***************************************************************************)
(* What a report of completed means                                        *)
(***************************************************************************)

\* Every other step adds only reports of failed, reports further on or reports
\* nobody waits for.
LEMMA OnlyHealthyCompletes ==
  ASSUME Fits, [Next]_vars, ~Healthy, NEW r \in reports' \ reports
  PROVE  r.stage = "failed" \/ r.step # "select" \/ ~r.awaited
<1>1. \A q \in reports : q \in Report
  BY DEF Fits, HandlersFit, ReportsFit, ReportFits
<1>2. ASSUME NEW e, reports' \subseteq reports \cup {NewReport(e, "failed")}
      PROVE  r.stage = "failed"
  BY <1>2 DEF NewReport
<1>3. ASSUME reports' \subseteq reports PROVE FALSE
  BY <1>3
<1>4. ASSUME Panel PROVE FALSE
  BY <1>3, <1>4 DEF Panel, CreateRead, CreateCheck, CreateInsert, TransitionRead,
                    TransitionWrite, handlers
<1>5. ASSUME Serve PROVE r.step # "select"
  <2>1. ASSUME NEW c \in claims, ClaimStep(c) PROVE FALSE
    BY <1>3, <2>1 DEF ClaimStep, ClaimSelect, ClaimResume, ClaimInsert, ClaimMark
  <2>2. ASSUME NEW q \in reports, ReportStep(q) PROVE r.step # "select"
    <3>1. q \in Report
      BY <1>1
    <3>2. CASE ReportSelect(q)
      BY <3>1, <3>2 DEF ReportSelect, Proceed, Report
    <3>3. CASE ReportExecution(q)
      BY <3>1, <3>3 DEF ReportExecution, Proceed, Report
    <3>4. CASE ReportInstallation(q)
      BY <3>1, <3>4 DEF ReportInstallation, Proceed, Report
    <3>5. CASE ReportRequest(q)
      BY <3>1, <3>5 DEF ReportRequest, Proceed, Report
    <3> QED BY <2>2, <3>2, <3>3, <3>4, <3>5 DEF ReportStep
  <2>3. ASSUME Forget PROVE FALSE
    BY <1>3, <2>3 DEF Forget
  <2>4. ASSUME NEW b \in beats, BeatStep(b) PROVE FALSE
    BY <1>3, <2>4 DEF BeatStep, BeatUpdate, BeatSelect
  <2> QED BY <1>5, <2>1, <2>2, <2>3, <2>4 DEF Serve
<1>6. ASSUME HandlerFails PROVE r.step # "select"
  BY <1>1, <1>6 DEF HandlerFails, Proceed, Report
<1>7. ASSUME NEW q \in Orphaned(reports) PROVE ~q.awaited
  BY <1>1, <1>7 DEF Orphaned, Report
<1>8. ASSUME Run PROVE r.stage = "failed"
  <2>1. ASSUME \/ Heartbeat \/ Offered \/ Claimed \/ Fetch \/ Backup \/ Restart \/ Unhealthy
               \/ Confirmed \/ RollBack \/ GivenUp \/ \E x \in Entries : Install(x) \/ Restore(x)
        PROVE  FALSE
    <3>1. reports' \subseteq reports
      BY <2>1 DEF Heartbeat, Offered, Claimed, Fetch, Backup, Restart, Unhealthy, Confirmed,
                  RollBack, GivenUp, Install, Restore, serverVars, handlers
    <3> QED BY <1>3, <3>1
  <2>2. ASSUME FetchFails \/ Revive \/ RolledBack PROVE r.stage = "failed"
    BY <1>2, <2>2 DEF FetchFails, Revive, RolledBack, Send
  <2> QED BY <1>8, <2>1, <2>2 DEF Run
<1>9. ASSUME StepFails PROVE r.stage = "failed"
  BY <1>2, <1>9 DEF StepFails, Send
<1>10. ASSUME LoseAnswer \/ Crash PROVE r.stage = "failed" \/ ~r.awaited
  <2>1. r \in reports \cup Orphaned(reports) \cup {NewReport(job, "failed")}
    BY <1>10 DEF LoseAnswer, Crash
  <2> QED BY <1>7, <2>1 DEF NewReport
<1>11. ASSUME UNCHANGED vars PROVE FALSE
  BY <1>3, <1>11 DEF vars, serverVars, handlers
<1> QED BY <1>4, <1>5, <1>6, <1>8, <1>9, <1>10, <1>11 DEF Next, ServerNext

\* The agent reports an update as completed only when every entry its release
\* ships is on disk in the target version and the services run it, also when the run took up what a
\* crash had left half installed.
THEOREM CompletedMeansInstalled == Spec => ConfirmedMeansInstalled
<1> DEFINE Confirming ==
      \A r \in reports' \ reports :
        r.step = "select" /\ r.stage = "completed" /\ r.awaited =>
          LET v == request[RequestOf(r.execution)].target
          IN  Holds(disk, v) /\ Holds(running, v)
<1>1. ASSUME Fits, OthersOK, RunFits, [Next]_vars PROVE Confirming
  <2>1. CASE Healthy
    <3>1. \A r \in reports' \ reports : r.execution = job
      BY <2>1 DEF Healthy, Send, NewReport
    <3>2. Holds(disk, Target) /\ Holds(running, Target)
      BY <1>1, <2>1 DEF Healthy, RunFits, InstallFits
    <3> QED BY <3>1, <3>2 DEF Target
  <2>2. CASE ~Healthy
    BY <1>1, <2>2, OnlyHealthyCompletes
  <2> QED BY <2>1, <2>2
<1>2. Fits /\ OthersOK /\ RunFits /\ [Next]_vars => [Confirming]_vars
  BY <1>1
<1> QED BY <1>2, AlwaysFits, AlwaysRunFits, AlwaysOthersOK, PTL DEF Spec, ConfirmedMeansInstalled

===============================================================================
