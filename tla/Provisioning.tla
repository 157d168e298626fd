------------------------------ MODULE Provisioning ------------------------------
(***************************************************************************)
(* backend/src/master/provisioning: the Master panel creates a customer    *)
(* (tenant, operational company, subscription, licence, administrator) in  *)
(* one database transaction under in-process locks, compensates statement  *)
(* by statement when that fails, and purges or repairs a customer on       *)
(* request.  Tables are sets and functions, a transaction is one step (the *)
(* row locks of the tenant serialise two of them), a compensation is one   *)
(* step per statement.                                                     *)
(***************************************************************************)
EXTENDS Naturals, Sequences, FiniteSets

CONSTANTS Creates,      \* POST /tenants requests; each is its randomUUID too
          Purges,       \* DELETE /tenants/:id requests
          Cnpjs, NoCnpj, \* normalised documents, and none
          Documents,    \* bound: the documents requests carry
          Emails,       \* admin.email
          Legacy,       \* a row of public.companies no tenant owns yet
          LegacyCnpj, LegacyStaff, \* its document, the emails of its users
          Nobody,       \* no company, tenant or lock entry
          MaxFaults,    \* bound: failed statements, lost COMMIT answers
          MaxTimeouts,  \* bound: lock waits that reach PROVISION_LOCK_TIMEOUT_MS
          MaxCrashes    \* bound: restarts of the backend

Ids == Creates \cup {Legacy}
Keys == Cnpjs \cup Ids

ASSUME ProvisioningAssumption ==
  /\ Legacy \notin Creates
  /\ Cnpjs \cap Ids = {}
  /\ NoCnpj \notin Cnpjs
  /\ Documents \subseteq Cnpjs \cup {NoCnpj}
  /\ Nobody \notin Keys \cup {NoCnpj}
  /\ LegacyCnpj \in Cnpjs \cup {NoCnpj}
  /\ LegacyStaff \subseteq Emails /\ Emails # {}
  /\ {MaxFaults, MaxTimeouts, MaxCrashes} \subseteq Nat

VARIABLES companies, \* public.companies: document by id, Nobody if no row
          users,     \* public.users: <<company, email>>
          tenants,   \* master_tenants with its commercial rows, by creator
          entry,     \* provisionLocks: the promise chained last on each key,
                     \* by the creates whose gates it still waits for
          ahead,     \* the creates each waiting one must see resolved first
          creates,   \* each createFullyProvisioned call
          purges,    \* each purgeFullyProvisioned call
          repairing, \* what repairMissingOperationalCompany is about to insert
          budget,    \* faults, timeouts and crashes left
          broken,    \* history: keys whose entry was dropped under a holder
          doubtful   \* history: creates whose COMMIT answer was lost

tables == <<companies, users, tenants>>
locks == <<entry, ahead>>
history == <<broken, doubtful>>
vars == <<tables, locks, creates, purges, repairing, budget, history>>

Tenant == [company : Ids, cnpj : Cnpjs \cup {NoCnpj}, email : Emails,
           onboarding : BOOLEAN, subscription : BOOLEAN, licence : BOOLEAN,
           tombstone : BOOLEAN]  \* wizard_meta.licenseIntentionallyDeleted

\* The order of rollbackProvision's statements, and those they call.
UndoSteps ==
  <<"licence", "tombstone", "subscription", "admin", "onboarding", "tenant", "users", "company">>

Create ==
  [pc : {"idle", "wait", "find", "reuse", "tx", "undo", "ok", "lost", "failed", "dead"},
   cnpj : Cnpjs \cup {NoCnpj}, email : Emails, company : Ids, found : BOOLEAN,
   entered : 0..2, reused : Creates \cup {Nobody}, undone : 0..Len(UndoSteps)]

Purge ==
  [pc : {"idle", "read", "tx", "done", "stray", "failed", "dead"}, tenant : Creates \cup {Nobody},
   company : Ids \cup {Nobody}, onboarding : BOOLEAN, licence : BOOLEAN]

TypeOK ==
  /\ companies \in [Ids -> Cnpjs \cup {NoCnpj, Nobody}]
  /\ users \subseteq Ids \X Emails
  /\ \A t \in DOMAIN tenants : t \in Creates /\ tenants[t] \in Tenant
  /\ entry \in [Keys -> [tail : Creates \cup {Nobody}, pending : SUBSET Creates]]
  /\ ahead \in [Creates -> SUBSET Creates]
  /\ creates \in [Creates -> Create]
  /\ purges \in [Purges -> Purge]
  /\ \/ repairing = Nobody
     \/ repairing \in [company : Ids, cnpj : Cnpjs \cup {NoCnpj}]
  /\ budget \in [faults : 0..MaxFaults, timeouts : 0..MaxTimeouts, crashes : 0..MaxCrashes]
  /\ broken \subseteq Keys /\ doubtful \subseteq Creates

NoEntry == [tail |-> Nobody, pending |-> {}]
Idle == [pc |-> "idle", cnpj |-> NoCnpj, email |-> CHOOSE e \in Emails : TRUE,
         company |-> Legacy, found |-> FALSE, entered |-> 0,
         reused |-> Nobody, undone |-> 0]
NoPurge == [pc |-> "idle", tenant |-> Nobody, company |-> Nobody,
            onboarding |-> FALSE, licence |-> FALSE]

Init ==
  /\ companies = [i \in Ids |-> IF i = Legacy THEN LegacyCnpj ELSE Nobody]
  /\ users = {Legacy} \X LegacyStaff
  /\ tenants = <<>>
  /\ entry = [k \in Keys |-> NoEntry]
  /\ ahead = [c \in Creates |-> {}]
  /\ creates = [c \in Creates |-> Idle]
  /\ purges = [p \in Purges |-> NoPurge]
  /\ repairing = Nobody
  /\ budget = [faults |-> MaxFaults, timeouts |-> MaxTimeouts, crashes |-> MaxCrashes]
  /\ broken = {} /\ doubtful = {}

Spend(what) ==
  /\ budget[what] > 0
  /\ budget' = [budget EXCEPT ![what] = @ - 1]

(***************************************************************************)
(* withProvisionLocks: a chain of promises per key                         *)
(***************************************************************************)
\* "cnpj:..." sorts before "operational_company_id:...".
LockKeys(r) == IF r.cnpj = NoCnpj THEN <<r.company>> ELSE <<r.cnpj, r.company>>

\* Mutant of Current: a waiter chains behind the last gate only.
LastGate(k) == {entry[k].tail} \ {Nobody}

\* The promise of a key: every gate chained on it that is not resolved.
Current(k) == entry[k].pending

\* The synchronous part of withProvisionLock: chain behind the entry.
Chain(c, k) ==
  /\ ahead' = [ahead EXCEPT ![c] = Current(k)]
  /\ entry' = [entry EXCEPT ![k] = [tail |-> c, pending |-> Current(k) \cup {c}]]

\* The gates of c are resolved; an entry goes if c was the last to chain.
Unlock(c) ==
  /\ entry' = [k \in Keys |-> IF entry[k].tail = c THEN NoEntry
                             ELSE [entry[k] EXCEPT !.pending = @ \ {c}]]
  /\ ahead' = [d \in Creates |-> IF d = c THEN {} ELSE ahead[d] \ {c}]

Live(c) == creates[c].pc \notin {"idle", "ok", "lost", "failed", "dead"}

\* The creates whose wait for k is over.
Inside(k) ==
  {c \in Creates : Live(c) /\ \E i \in 1..creates[c].entered : LockKeys(creates[c])[i] = k}

\* The locks are released, the request answered and its variables gone.
Answer(c, pc) ==
  /\ Unlock(c)
  /\ creates' = [creates EXCEPT ![c] = [Idle EXCEPT !.pc = pc]]

\* createFullyProvisioned up to the first lock: the company of that document
\* is looked up before any lock is held; a failed look-up counts as none.
Start(c) ==
  /\ creates[c].pc = "idle"
  /\ \E cnpj \in Documents, email \in Emails :
       LET known == {i \in Ids : cnpj # NoCnpj /\ companies[i] = cnpj}
           Begin(company, found) ==
             LET r == [Idle EXCEPT !.pc = "wait", !.cnpj = cnpj, !.email = email,
                                   !.company = company, !.found = found]
             IN  creates' = [creates EXCEPT ![c] = r] /\ Chain(c, LockKeys(r)[1])
       IN  \/ \E i \in known : Begin(i, TRUE) /\ UNCHANGED budget
           \/ known = {} /\ Begin(c, FALSE) /\ UNCHANGED budget
           \/ known # {} /\ Begin(c, FALSE) /\ Spend("faults")
  /\ UNCHANGED <<tables, purges, repairing, history>>

\* The promises ahead are resolved: go on to the next key, or inside.
Enter(c) ==
  /\ creates[c].pc = "wait"
  /\ LET ks == LockKeys(creates[c])
         n == creates[c].entered + 1
     IN  /\ ahead[c] = {}
         /\ IF n < Len(ks)
            THEN /\ Chain(c, ks[n + 1])
                 /\ creates' = [creates EXCEPT ![c].entered = n]
            ELSE /\ creates' = [creates EXCEPT ![c].entered = n, ![c].pc = "find"]
                 /\ UNCHANGED locks
  /\ UNCHANGED <<tables, purges, repairing, budget, history>>

\* Mutant of TimeOut: a waiter that gives up does not resolve its own gate.
TimeOutKeepsGate(c) ==
  /\ creates[c].pc = "wait"
  /\ ahead[c] # {}
  /\ Spend("timeouts")
  /\ creates' = [creates EXCEPT ![c] = [Idle EXCEPT !.pc = "failed"]]
  /\ UNCHANGED <<tables, locks, purges, repairing, history>>

\* The wait for the current key rejects: PROVISION_LOCK_TIMEOUT.
TimeOut(c) ==
  /\ creates[c].pc = "wait"
  /\ ahead[c] # {}
  /\ Spend("timeouts")
  /\ broken' = broken \cup
       {k \in Keys : entry[k].tail = c /\ entry[k].pending # {c}}
  /\ Answer(c, "failed")
  /\ UNCHANGED <<tables, purges, repairing, doubtful>>

(***************************************************************************)
(* createFullyProvisioned, inside the locks                                *)
(***************************************************************************)
\* Mutant of Find: idempotency by company only.
FindByCompany(c) ==
  /\ creates[c].pc = "find"
  /\ LET owner == {t \in DOMAIN tenants : tenants[t].company = creates[c].company}
     IN  \/ \E t \in owner :
              creates' = [creates EXCEPT ![c].pc = "reuse", ![c].reused = t]
         \/ owner = {} /\ creates' = [creates EXCEPT ![c].pc = "tx"]
  /\ UNCHANGED <<tables, locks, purges, repairing, budget, history>>

\* findExistingTenantByIdempotency: by company, then by document.
Find(c) ==
  /\ creates[c].pc = "find"
  /\ LET r == creates[c]
         owner == {t \in DOMAIN tenants : tenants[t].company = r.company}
         same == {t \in DOMAIN tenants : r.cnpj # NoCnpj /\ tenants[t].cnpj = r.cnpj}
         match == IF owner # {} THEN owner ELSE same
     IN  \/ \E t \in match :
              creates' = [creates EXCEPT ![c].pc = "reuse", ![c].reused = t]
         \/ match = {} /\ creates' = [creates EXCEPT ![c].pc = "tx"]
  /\ UNCHANGED <<tables, locks, purges, repairing, budget, history>>

\* Look-ups and the reuse are outside the try: an error is only reported.
Refuse(c) ==
  /\ creates[c].pc \in {"find", "reuse"}
  /\ Spend("faults")
  /\ Answer(c, "failed")
  /\ UNCHANGED <<tables, purges, repairing, history>>

\* ensureOperationalAdmin refuses an address another company has.
AdminFits(email, company) ==
  LET rows == {u \in users : u[2] = email}
  IN  rows = {} \/ <<company, email>> \in rows

AdminClashes(email, company) == \E u \in users : u[2] = email /\ u[1] # company

\* upsertOperationalCompanyFromTenant: cnpj = coalesce(excluded, companies).
Upsert(company, cnpj) ==
  companies' = [companies EXCEPT ![company] =
                  IF cnpj = NoCnpj /\ @ # Nobody THEN @ ELSE cnpj]

\* CommercialJourneyService.provision: upserts the company, completes what
\* the tenant lacks and its administrator; a licence made clears the marker.
Journey(t, row) ==
  /\ Upsert(row.company, row.cnpj)
  /\ users' = users \cup {<<row.company, row.email>>}
  /\ tenants' = [s \in DOMAIN tenants \cup {t} |->
                   IF s = t THEN [row EXCEPT !.onboarding = TRUE,
                                             !.subscription = TRUE, !.licence = TRUE,
                                             !.tombstone = FALSE]
                            ELSE tenants[s]]

\* The licence was deleted and its onboarding marked with that.
Tombstone(row) == row.onboarding /\ row.tombstone /\ ~row.licence

\* What lets the journey of an existing tenant through.
Provisionable(t) ==
  /\ t \in DOMAIN tenants
  /\ ~Tombstone(tenants[t])
  /\ AdminFits(tenants[t].email, tenants[t].company)

Unprovisionable(t) ==
  t \in DOMAIN tenants =>
    Tombstone(tenants[t]) \/ AdminClashes(tenants[t].email, tenants[t].company)

\* Mutant of Reuse: the tenant found is answered without running its journey.
ReuseBlindly(c) ==
  /\ creates[c].pc = "reuse"
  /\ Answer(c, "ok")
  /\ UNCHANGED <<tables, purges, repairing, budget, history>>

\* The journey commits by itself: a read after it may still fail the request.
Reuse(c) ==
  /\ creates[c].pc = "reuse"
  /\ LET t == creates[c].reused
     IN  \/ Provisionable(t) /\ Journey(t, tenants[t]) /\ Answer(c, "ok") /\ UNCHANGED budget
         \/ Provisionable(t) /\ Journey(t, tenants[t]) /\ Answer(c, "failed") /\ Spend("faults")
         \/ Unprovisionable(t) /\ Answer(c, "failed") /\ UNCHANGED <<tables, budget>>
  /\ UNCHANGED <<purges, repairing, history>>

\* Mutant of NewTenant: only a discovered company is linked to the new tenant.
NewTenantUnlinked(c) ==
  [company |-> IF creates[c].found THEN creates[c].company ELSE Nobody,
   cnpj |-> creates[c].cnpj, email |-> creates[c].email,
   onboarding |-> FALSE, subscription |-> FALSE, licence |-> FALSE, tombstone |-> FALSE]

NewTenant(c) ==
  [company |-> creates[c].company, cnpj |-> creates[c].cnpj, email |-> creates[c].email,
   onboarding |-> FALSE, subscription |-> FALSE, licence |-> FALSE, tombstone |-> FALSE]

\* idx_master_tenants_operational_company.
CompanyFree(company) == \A t \in DOMAIN tenants : tenants[t].company # company

\* What MasterDomainTransaction.run needs to commit.
Committable(c) ==
  /\ CompanyFree(creates[c].company)
  /\ AdminFits(creates[c].email, creates[c].company)

\* The transaction commits and the call is answered.
Commit(c) ==
  /\ creates[c].pc = "tx"
  /\ Committable(c)
  /\ Journey(c, NewTenant(c))
  /\ Answer(c, "ok")
  /\ UNCHANGED <<purges, repairing, budget, history>>

\* It commits, but the connection drops before the answer to COMMIT.
CommitInDoubt(c) ==
  /\ creates[c].pc = "tx"
  /\ Committable(c)
  /\ Spend("faults")
  /\ Journey(c, NewTenant(c))
  /\ creates' = [creates EXCEPT ![c].pc = "undo"]
  /\ doubtful' = doubtful \cup {c}
  /\ UNCHANGED <<locks, purges, repairing, broken>>

\* A statement of the three compensable stages fails and is swallowed: the
\* transaction is aborted, COMMIT rolls back without an error, and the call
\* is answered as done ("lost").
Abort(c) ==
  /\ creates[c].pc = "tx"
  /\ Committable(c)
  /\ Spend("faults")
  /\ Answer(c, "lost")
  /\ UNCHANGED <<tables, purges, repairing, history>>

\* Mutant of Fail: the compensation runs after the locks are released.
FailUnlocked(c) ==
  /\ creates[c].pc = "tx"
  /\ \/ ~CompanyFree(creates[c].company) /\ UNCHANGED budget
     \/ AdminClashes(creates[c].email, creates[c].company) /\ UNCHANGED budget
     \/ Spend("faults")
  /\ Unlock(c)
  /\ creates' = [creates EXCEPT ![c].pc = "undo"]
  /\ UNCHANGED <<tables, purges, repairing, history>>

\* It fails and is rolled back: a taken company or administrator, or any
\* other statement (a taken domain among them).
Fail(c) ==
  /\ creates[c].pc = "tx"
  /\ \/ ~CompanyFree(creates[c].company) /\ UNCHANGED budget
     \/ AdminClashes(creates[c].email, creates[c].company) /\ UNCHANGED budget
     \/ Spend("faults")
  /\ creates' = [creates EXCEPT ![c].pc = "undo"]
  /\ UNCHANGED <<tables, locks, purges, repairing, history>>

\* The rows rollbackProvision's statement deletes.
Without(t) == [s \in DOMAIN tenants \ {t} |-> tenants[s]]
Lacking(t, part) ==
  [s \in DOMAIN tenants |-> IF s = t THEN [tenants[s] EXCEPT ![part] = FALSE] ELSE tenants[s]]

\* markLicenseIntentionallyDeleted, which createMasterComposition.ts wraps around
\* the licence manager's delete: an UPDATE of its own after the licence has gone.
Marked(t) ==
  [s \in DOMAIN tenants |->
     IF s = t THEN [tenants[s] EXCEPT !.tombstone = ~tenants[s].licence] ELSE tenants[s]]

Delete(c, step) ==
  LET r == creates[c]
  IN  CASE step \in {"licence", "subscription", "onboarding"} ->
             tenants' = Lacking(c, step) /\ UNCHANGED <<companies, users>>
        [] step = "tombstone" ->
             tenants' = Marked(c) /\ UNCHANGED <<companies, users>>
        [] step = "admin" ->
             users' = users \ {<<r.company, r.email>>} /\ UNCHANGED <<companies, tenants>>
        [] step = "tenant" ->
             tenants' = Without(c) /\ UNCHANGED <<companies, users>>
        [] step = "users" ->
             users' = {u \in users : u[1] # r.company} /\ UNCHANGED <<companies, tenants>>
        [] step = "company" ->
             companies' = [companies EXCEPT ![r.company] = Nobody] /\ UNCHANGED <<users, tenants>>

\* Mutant of LastUndo: a discovered company is not spared.
LastUndoAll(c) == Len(UndoSteps)

\* preserveOperationalCompany stops before the company's rows.
LastUndo(c) == IF creates[c].found THEN 6 ELSE Len(UndoSteps)

\* One statement of the compensation; a failing one is passed over.
Undo(c) ==
  /\ creates[c].pc = "undo"
  /\ creates[c].undone < LastUndo(c)
  /\ creates' = [creates EXCEPT ![c].undone = @ + 1]
  /\ \/ Delete(c, UndoSteps[creates[c].undone + 1]) /\ UNCHANGED budget
     \/ Spend("faults") /\ UNCHANGED tables
  /\ UNCHANGED <<locks, purges, repairing, history>>

UndoEnds(c) ==
  /\ creates[c].pc = "undo"
  /\ creates[c].undone = LastUndo(c)
  /\ Answer(c, "failed")
  /\ UNCHANGED <<tables, purges, repairing, budget, history>>

(***************************************************************************)
(* purgeFullyProvisioned, repairMissingOperationalCompany, restart         *)
(***************************************************************************)
\* The tenant is read before the transaction begins ...
ReadTenant(p) ==
  /\ purges[p].pc = "idle"
  /\ \E t \in DOMAIN tenants :
       purges' = [purges EXCEPT ![p] =
         [NoPurge EXCEPT !.pc = "read", !.tenant = t, !.company = tenants[t].company]]
  /\ UNCHANGED <<tables, locks, creates, repairing, budget, history>>

\* ... and then what its onboarding names, if it is still there; a failed
\* read counts as none.  The marker takes the licence's name away.
ReadOnboarding(p) ==
  /\ purges[p].pc = "read"
  /\ LET t == purges[p].tenant
         onboarding == t \in DOMAIN tenants /\ tenants[t].onboarding
         licence == onboarding /\ ~tenants[t].tombstone
     IN  \/ /\ purges' = [purges EXCEPT ![p].pc = "tx", ![p].onboarding = onboarding,
                                        ![p].licence = licence]
            /\ UNCHANGED budget
         \/ purges' = [purges EXCEPT ![p].pc = "tx"] /\ Spend("faults")
  /\ UNCHANGED <<tables, locks, creates, repairing, history>>

\* strict: a subscription or licence named by the onboarding must be there.
Purgeable(p) ==
  LET q == purges[p]
      Has(part) == q.tenant \in DOMAIN tenants /\ tenants[q.tenant][part]
  IN  (q.onboarding => Has("subscription")) /\ (q.licence => Has("licence"))

\* The transaction: the tenant, and the company with all its users.  That
\* the tenant was gone already goes unnoticed ("stray").
PurgeCommits(p) ==
  /\ purges[p].pc = "tx"
  /\ Purgeable(p)
  /\ tenants' = Without(purges[p].tenant)
  /\ users' = {u \in users : u[1] # purges[p].company}
  /\ companies' = [companies EXCEPT ![purges[p].company] = Nobody]
  /\ purges' = [purges EXCEPT ![p].pc =
                  IF purges[p].tenant \in DOMAIN tenants THEN "done" ELSE "stray"]
  /\ UNCHANGED <<locks, creates, repairing, budget, history>>

\* PURGE_INCOMPLETE or any other error: rolled back.
PurgeFails(p) ==
  /\ purges[p].pc = "tx"
  /\ \/ ~Purgeable(p) /\ UNCHANGED budget
     \/ Spend("faults")
  /\ purges' = [purges EXCEPT ![p] = [NoPurge EXCEPT !.pc = "failed"]]
  /\ UNCHANGED <<tables, locks, creates, repairing, history>>

\* A tenant whose company row is missing is read ...
RepairRead ==
  /\ repairing = Nobody
  /\ \E t \in DOMAIN tenants :
       /\ companies[tenants[t].company] = Nobody
       /\ repairing' = [company |-> tenants[t].company, cnpj |-> tenants[t].cnpj]
  /\ UNCHANGED <<tables, locks, creates, purges, budget, history>>

\* ... and the row inserted again, whatever has happened to the tenant.
RepairInsert ==
  /\ repairing # Nobody
  /\ Upsert(repairing.company, repairing.cnpj)
  /\ repairing' = Nobody
  /\ UNCHANGED <<users, tenants, locks, creates, purges, budget, history>>

\* The backend restarts: handlers and locks are gone, open transactions
\* are rolled back, what a compensation has deleted stays deleted.
Restart ==
  /\ Spend("crashes")
  /\ entry' = [k \in Keys |-> NoEntry]
  /\ ahead' = [c \in Creates |-> {}]
  /\ creates' = [c \in Creates |->
       IF Live(c) THEN [Idle EXCEPT !.pc = "dead"] ELSE creates[c]]
  /\ purges' = [p \in Purges |->
       IF purges[p].pc \in {"read", "tx"} THEN [NoPurge EXCEPT !.pc = "dead"] ELSE purges[p]]
  /\ repairing' = Nobody
  /\ UNCHANGED <<tables, history>>

\* What the event loop carries on with for a request in progress.
Handle(c) ==
  \/ Enter(c) \/ Find(c) \/ Refuse(c) \/ Reuse(c)
  \/ Commit(c) \/ CommitInDoubt(c) \/ Abort(c) \/ Fail(c)
  \/ Undo(c) \/ UndoEnds(c)

PurgeRead(p) == ReadTenant(p) \/ ReadOnboarding(p)

PurgeEnds(p) == PurgeCommits(p) \/ PurgeFails(p)

\* Nothing is left to do: the panel is quiet.
Quiet ==
  /\ \A c \in Creates : creates[c].pc # "idle" /\ ~Live(c)
  /\ \A p \in Purges : purges[p].pc \notin {"read", "tx"}
  /\ UNCHANGED vars

Next ==
  \/ \E c \in Creates : Start(c) \/ TimeOut(c) \/ Handle(c)
  \/ \E p \in Purges : PurgeRead(p) \/ PurgeEnds(p)
  \/ RepairRead \/ RepairInsert \/ Restart \/ Quiet

Spec == Init /\ [][Next]_vars

\* Requests in progress go on; nobody has to send one, and no wait has to
\* time out, no statement fail and no process stop.
FairSpec == Spec /\ \A c \in Creates : WF_vars(Handle(c))

(***************************************************************************)
(* Properties                                                              *)
(***************************************************************************)
\* A key has one create inside, until a wait for it timed out while it was
\* held and the map entry went with the waiter (withProvisionLock).
OneInside == \A k \in Keys \ broken : Cardinality(Inside(k)) <= 1

\* Two tenants never have the same document as long as its lock holds,
\* although the company was looked up before the lock was taken.
OneTenantPerCnpj ==
  \A s, t \in DOMAIN tenants :
    s # t /\ tenants[s].cnpj = tenants[t].cnpj => tenants[s].cnpj \in broken \cup {NoCnpj}

\* A tenant has its company, subscription, licence and administrator,
\* whatever fails, stops or is purged meanwhile, unless the answer to its
\* COMMIT was lost, its lock broke, or a purge whose own tenant had gone took
\* the company of its successor.
TenantsAreWhole ==
  \A t \in DOMAIN tenants :
    LET r == tenants[t]
    IN  \/ t \in doubtful \/ r.cnpj \in broken
        \/ \E p \in Purges : purges[p].pc = "stray" /\ purges[p].company = r.company
        \/ /\ companies[r.company] # Nobody
           /\ r.onboarding /\ r.subscription /\ r.licence
           /\ <<r.company, r.email>> \in users

\* The compensation of a failed create never deletes a company row it did
\* not insert ("NAO deve ser apagada no rollback"): only a purge of a tenant
\* of that company, or the create that made the row, does.
CompaniesLostOnlyToTheirOwn ==
  [][\A i \in Ids :
       companies[i] # Nobody /\ companies'[i] = Nobody =>
         \/ \E p \in Purges : purges[p].company = i /\ purges'[p].pc # purges[p].pc
         \/ i \in Creates /\ creates[i].pc = "undo"]_vars

\* A request answered as done leaves a whole tenant of its document, unless
\* a swallowed statement had aborted the transaction.
DoneMeansThere ==
  [][\A c \in Creates :
       creates[c].pc # "ok" /\ creates'[c].pc = "ok" =>
         \E t \in DOMAIN tenants' :
           /\ tenants'[t].company = creates[c].company \/ tenants'[t].cnpj = creates[c].cnpj
           /\ tenants'[t].subscription /\ tenants'[t].licence
           /\ companies'[tenants'[t].company] # Nobody]_vars

\* A request that came in is answered (or its process stopped): the chained
\* locks of two keys leave nobody waiting, even if no wait ever times out.
RequestsEnd ==
  \A c \in Creates :
    Live(c) ~> ~Live(c)
=============================================================================
