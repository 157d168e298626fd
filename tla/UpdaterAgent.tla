------------------------------ MODULE UpdaterAgent ------------------------------
(***************************************************************************)
(* The updater service of an installation (updater-agent/src) and the      *)
(* control plane it talks to: heartbeat -> claim -> download -> verify ->  *)
(* backup -> install -> restart -> health -> report, with the rollback of  *)
(* a run that fails.  The service keeps nothing across a restart but the   *)
(* installation directory.                                                 *)
(***************************************************************************)
EXTENDS UpdateControl

CONSTANTS
  Entries,      \* top-level entries of the installation directory
  VersionFile,  \* the entry that holds the version, written last
  Skipped,      \* SKIP_DIRS: entries no backup holds
  Ships         \* the entries in the archive of each release

ASSUME EntriesAssumption ==
  /\ VersionFile \in Entries \ Skipped
  /\ IsFiniteSet(Entries)
  /\ Ships \in [Versions -> SUBSET Entries]

VARIABLES
  pc,        \* where runOnce is
  job,       \* the execution in hand (0: none)
  backup,    \* the trees saved by this run: {} or the one of backupId
  todo,      \* entries install or restore has yet to copy
  disk,      \* the version of each entry of the installation directory
  booted,    \* config.currentVersion: the version file's when the service began
  running,   \* the version of each entry the services were started from
  cutOff     \* history: an installation or rollback broke off, and no update
             \* was confirmed since

agentVars == <<pc, job, backup, todo, disk, booted, running, cutOff>>
vars      == <<serverVars, agentVars>>

\* An entry that is not there; config.ts reads a missing version file as 0.0.0.
Missing == 0

Tree == [Entries -> Versions \cup {Missing}]

\* What an installation of v writes.
Contents(v) == Ships[v] \cup {VersionFile}

Fresh(v) == [x \in Entries |-> IF x \in Contents(v) THEN v ELSE Missing]

Steps == {"idle", "beating", "claiming", "fetching", "saving", "installing", "restarting",
          "checking", "confirming", "rolling_back", "restoring", "reviving",
          "reporting", "giving_up"}

AgentTypeOK ==
  /\ TypeOK
  /\ pc \in Steps
  /\ job \in Nat
  /\ backup \subseteq Tree
  /\ todo \subseteq Entries
  /\ disk \in Tree
  /\ booted \in Versions \cup {Missing}
  /\ running \in Tree
  /\ cutOff \in BOOLEAN

AgentInit ==
  /\ Init
  /\ pc = "idle"
  /\ job = 0
  /\ backup = {}
  /\ todo = {}
  /\ disk = Fresh(Installed)
  /\ booted = Installed
  /\ running = Fresh(Installed)
  /\ cutOff = FALSE

Target == request[RequestOf(job)].target

Saved == CHOOSE tree \in backup : TRUE

Awaited(calls) == {c \in calls : c.awaited}

\* End of runOnce.
Rest == /\ pc' = "idle"
        /\ job' = 0
        /\ backup' = {}

SendClaim == claims' = claims \cup {NewClaim}

Send(stage) == reports' = reports \cup {NewReport(job, stage)}

\* Mutant of CurrentVersion: the version the service was started with.
BootedVersion == booted

\* currentVersionProvider() ?? config.currentVersion.
CurrentVersion == IF disk[VersionFile] = Missing THEN booted ELSE disk[VersionFile]

\* heartbeat, with the version of this moment.
Heartbeat ==
  /\ pc = "idle"
  /\ beats' = beats \cup {NewBeat(CurrentVersion)}
  /\ pc' = "beating"
  /\ UNCHANGED <<tables, session, claims, reports, approvals, faults,
                 job, backup, todo, disk, booted, running, cutOff>>

\* The answer, whose request only decides whether to claim; an error ends the
\* cycle in runLoop's catch.
Offered ==
  /\ pc = "beating"
  /\ \E b \in Awaited(beats) :
       /\ ~AtWork(b)
       /\ beats' = beats \ {b}
       /\ IF b.step = "answer" /\ b.offered
          THEN pc' = "claiming" /\ SendClaim
          ELSE pc' = "idle" /\ UNCHANGED claims
  /\ UNCHANGED <<tables, session, reports, approvals, faults,
                 job, backup, todo, disk, booted, running, cutOff>>

\* claim: an error of the call ends the cycle in runLoop's catch.
Claimed ==
  /\ pc = "claiming"
  /\ \E c \in Awaited(claims) :
       /\ ~AtWork(c)
       /\ claims' = claims \ {c}
       /\ IF c.step = "answer" /\ c.execution # 0
          THEN pc' = "fetching" /\ job' = c.execution
          ELSE pc' = "idle" /\ UNCHANGED job
  /\ UNCHANGED <<tables, session, beats, reports, approvals, faults,
                 backup, todo, disk, booted, running, cutOff>>

\* Reports of downloading and verified, download, checksum and signature.
Fetch ==
  /\ pc = "fetching"
  /\ pc' = "saving"
  /\ UNCHANGED <<serverVars, job, backup, todo, disk, booted, running, cutOff>>

\* catch without a backup: report failed.  A bad artefact is no fault.
FetchFails ==
  /\ pc = "fetching"
  /\ pc' = "giving_up"
  /\ Send("failed")
  /\ UNCHANGED <<tables, session, beats, claims, approvals, faults,
                 job, backup, todo, disk, booted, running, cutOff>>

\* backup, and the reports of backup_completed and installing.
Backup ==
  /\ pc = "saving"
  /\ backup' = {disk}
  /\ todo' = Contents(Target)
  /\ pc' = "installing"
  /\ UNCHANGED <<serverVars, job, disk, booted, running, cutOff>>

Copy(x, v) ==
  /\ todo' = todo \ {x}
  /\ disk' = [disk EXCEPT ![x] = v]

\* install: rm and cp, entry by entry of the archive, and the version file after
\* them.  An entry the release does not ship stays.
Install(x) ==
  /\ pc = "installing"
  /\ x \in todo
  /\ x = VersionFile => todo = {VersionFile}
  /\ Copy(x, Target)
  /\ pc' = IF x = VersionFile THEN "restarting" ELSE pc
  /\ UNCHANGED <<serverVars, job, backup, booted, running, cutOff>>

\* Mutant of Restart: the services go on with what they have loaded.
NoRestart ==
  /\ pc = "restarting"
  /\ pc' = "checking"
  /\ UNCHANGED <<serverVars, job, backup, todo, disk, booted, running, cutOff>>

Restart ==
  /\ pc = "restarting"
  /\ running' = disk
  /\ pc' = "checking"
  /\ UNCHANGED <<serverVars, job, backup, todo, disk, booted, cutOff>>

\* waitHealthy(target): ready and the version file says so; report completed.
Healthy ==
  /\ pc = "checking"
  /\ disk[VersionFile] = Target
  /\ Send("completed")
  /\ pc' = "confirming"
  /\ UNCHANGED <<tables, session, beats, claims, approvals, faults,
                 job, backup, todo, disk, booted, running, cutOff>>

\* The timeout of waitHealthy: a new version may well not come up.
Unhealthy ==
  /\ pc = "checking"
  /\ pc' = "rolling_back"
  /\ UNCHANGED <<serverVars, job, backup, todo, disk, booted, running, cutOff>>

\* The report of completed is answered, or is one more error to roll back for.
Confirmed ==
  /\ pc = "confirming"
  /\ \E r \in Awaited(reports) :
       /\ ~AtWork(r)
       /\ reports' = reports \ {r}
       /\ IF r.step = "answer"
          THEN Rest /\ cutOff' = FALSE
          ELSE pc' = "rolling_back" /\ UNCHANGED <<job, backup, cutOff>>
  /\ UNCHANGED <<tables, session, beats, claims, approvals, faults, todo, disk, booted, running>>

\* What the backup holds; restore leaves every other entry as it is, one the
\* failed release added too.
InBackup == {x \in Entries \ Skipped : Saved[x] # Missing}

\* Mutant of RollBack: the version file is taken for part of the release.
RollBackRelease ==
  /\ pc = "rolling_back"
  /\ todo' = InBackup \ {VersionFile}
  /\ pc' = IF todo' = {} THEN "reviving" ELSE "restoring"
  /\ UNCHANGED <<serverVars, job, backup, disk, booted, running, cutOff>>

\* catch with a backup: report rolling_back, then restore what was saved.
RollBack ==
  /\ pc = "rolling_back"
  /\ todo' = InBackup
  /\ pc' = IF todo' = {} THEN "reviving" ELSE "restoring"
  /\ UNCHANGED <<serverVars, job, backup, disk, booted, running, cutOff>>

Restore(x) ==
  /\ pc = "restoring"
  /\ x \in todo
  /\ Copy(x, Saved[x])
  /\ pc' = IF todo' = {} THEN "reviving" ELSE pc
  /\ UNCHANGED <<serverVars, job, backup, booted, running, cutOff>>

\* restartServices, waitHealthy with its result unread, report failed.
Revive ==
  /\ pc = "reviving"
  /\ running' = disk
  /\ Send("failed")
  /\ pc' = "reporting"
  /\ UNCHANGED <<tables, session, beats, claims, approvals, faults, job, backup, todo, disk, booted, cutOff>>

\* The report of failed after the rollback; its error is reported once more.
RolledBack ==
  /\ pc = "reporting"
  /\ \E r \in Awaited(reports) :
       \/ /\ r.step = "answer"
          /\ reports' = reports \ {r}
          /\ Rest
       \/ /\ r.step = "error"
          /\ reports' = (reports \ {r}) \cup {NewReport(job, "failed")}
          /\ pc' = "giving_up"
          /\ UNCHANGED <<job, backup>>
  /\ UNCHANGED <<tables, session, beats, claims, approvals, faults, todo, disk, booted, running, cutOff>>

\* The last report of failed: its error is swallowed.
GivenUp ==
  /\ pc = "giving_up"
  /\ \E r \in Awaited(reports) :
       /\ ~AtWork(r)
       /\ reports' = reports \ {r}
  /\ Rest
  /\ UNCHANGED <<tables, session, beats, claims, approvals, faults, todo, disk, booted, running, cutOff>>

\* Between the rm and the cp of an entry, it is missing; a version file that
\* was truncated and not written yet is read like a missing one.
CopyBreaksOff ==
  \/ UNCHANGED disk
  \/ /\ pc \in {"installing", "restoring"}
     /\ \E x \in todo :
          /\ pc = "installing" /\ x = VersionFile => todo = {VersionFile}
          /\ disk' = [disk EXCEPT ![x] = Missing]

\* A report between two steps, the backup, a copy or a restart fails.
StepFails ==
  /\ Fault
  /\ \/ /\ pc = "saving"
        /\ pc' = "giving_up"
        /\ Send("failed")
     \/ /\ pc \in {"installing", "restarting", "checking"}
        /\ pc' = "rolling_back"
        /\ UNCHANGED reports
     \/ /\ pc \in {"rolling_back", "restoring", "reviving"}
        /\ pc' = "giving_up"
        /\ Send("failed")
  /\ CopyBreaksOff
  /\ todo' = {}
  /\ cutOff' = (cutOff \/ pc \in {"rolling_back", "restoring", "reviving"})
  /\ UNCHANGED <<tables, session, beats, claims, approvals, job, backup, booted, running>>

\* Whoever waits is left without the answer; the handler goes on.
Orphaned(calls) == {[c EXCEPT !.awaited = FALSE] : c \in calls}

LoseAnswer ==
  /\ Fault
  /\ \/ /\ pc = "beating"
        /\ beats' = Orphaned(beats)
        /\ pc' = "idle"
        /\ UNCHANGED <<claims, reports, job, backup>>
     \/ /\ pc = "claiming"
        /\ Awaited(claims) # {}
        /\ claims' = Orphaned(claims)
        /\ pc' = "idle"
        /\ UNCHANGED <<beats, reports, job, backup>>
     \/ /\ pc = "confirming"
        /\ reports' = Orphaned(reports)
        /\ pc' = "rolling_back"
        /\ UNCHANGED <<beats, claims, job, backup>>
     \/ /\ pc = "reporting"
        /\ reports' = Orphaned(reports) \cup {NewReport(job, "failed")}
        /\ pc' = "giving_up"
        /\ UNCHANGED <<beats, claims, job, backup>>
     \/ /\ pc = "giving_up"
        /\ reports' = Orphaned(reports)
        /\ Rest
        /\ UNCHANGED <<beats, claims>>
  /\ UNCHANGED <<tables, session, approvals, todo, disk, booted, running, cutOff>>

\* The service stops anywhere and starts again, perhaps with the whole host.
Crash ==
  /\ Fault
  /\ pc # "idle"
  /\ Rest
  /\ beats' = Orphaned(beats)
  /\ claims' = Orphaned(claims)
  /\ reports' = Orphaned(reports)
  /\ CopyBreaksOff
  /\ todo' = {}
  /\ booted' = disk'[VersionFile]
  /\ running' \in {running, disk'}
  /\ cutOff' = (cutOff \/ pc \in {"installing", "restarting", "rolling_back",
                                 "restoring", "reviving"})
  /\ UNCHANGED <<tables, session, approvals>>

Run ==
  \/ Heartbeat \/ Offered \/ Claimed \/ Fetch \/ FetchFails \/ Backup
  \/ \E x \in Entries : Install(x) \/ Restore(x)
  \/ Restart \/ Healthy \/ Unhealthy \/ Confirmed
  \/ RollBack \/ Revive \/ RolledBack \/ GivenUp

Next ==
  \/ ServerNext /\ UNCHANGED agentVars
  \/ Run
  \/ StepFails
  \/ LoseAnswer
  \/ Crash

(***************************************************************************)
(* The service loops and the server answers; nobody has to ask for an      *)
(* update, approve one, or make anything fail.                             *)
(***************************************************************************)
Fairness ==
  /\ WF_vars(Run)
  /\ WF_vars(Serve /\ UNCHANGED agentVars)

Spec == AgentInit /\ [][Next]_vars

FairSpec == Spec /\ Fairness

(***************************************************************************)
(* Properties                                                              *)
(***************************************************************************)

\* However often the agent claims, gives up and claims again, a request has at
\* most one unfinished execution (UpdateAgentService.ts, claim).
OneExecutionPerRequest ==
  \A i \in DOMAIN request : Cardinality(OpenExecutions(i)) <= 1

\* No entry of the installation is ever of a version that no administrator
\* approved, through claims, resumed runs and rollbacks (AGENT_VISIBLE_SQL).
NothingUnapprovedInstalled ==
  \A x \in Entries :
    disk[x] \in {Missing, Installed}
                 \cup {request[i].target : i \in {j \in DOMAIN request : request[j].authorized}}

\* The entries of v's release are there, all of v.
Holds(tree, v) == \A x \in Contents(v) : tree[x] = v

\* The agent confirms an update only when every entry of the target's release is
\* of the target version and the services run it, also after a crash in the middle
\* of an earlier run (orchestrator.ts, runOnce).
ConfirmedMeansInstalled ==
  [][\A r \in reports' \ reports :
       r.step = "select" /\ r.stage = "completed" /\ r.awaited =>
         LET v == request[RequestOf(r.execution)].target
         IN  Holds(disk, v) /\ Holds(running, v)]_vars

\* Between two runs the services run what is on disk, the version file names a
\* release, and the entries of this release that a backup holds are all there and
\* its own, whether the last run confirmed its update or failed and was rolled
\* back; only a run cut off in the middle or a rollback that failed leaves a
\* mixture, until an update is confirmed.  (Entries of other releases may lie
\* beside: neither install nor restore removes what it has no copy of.)
RestsOnWholeRelease ==
  pc = "idle" /\ ~cutOff =>
    LET v == disk[VersionFile]
    IN  /\ v \in Versions
        /\ running = disk
        /\ \A x \in Contents(v) \ Skipped : disk[x] = v

Pending(e) == Open(e) /\ Visible(RequestOf(e))

\* No execution the agent can see stays unfinished: a run that was cut off is
\* taken up again and reported (claim's resume, runLoop), so that again and again
\* none is pending.
ExecutionsEnd == []<>(\A e \in DOMAIN execution : ~Pending(e))

\* Whatever a lost answer or a late handler left in reported_version, the
\* version on disk gets there (heartbeat).
ReportedCatchesUp ==
  []<>(disk[VersionFile] \in {reported, Missing})
================================================================================
