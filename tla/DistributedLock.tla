---------------------------- MODULE DistributedLock ----------------------------
(***************************************************************************)
(* services/distributedLock.js: the lock around processQueue.  The row of  *)
(* the cloud's distributed_locks table is shared by every instance of the  *)
(* agent; when the cloud does not answer an instance falls back to the     *)
(* sync_locks table of its host's SQLite (services/syncQueue.js).          *)
(* Leases are kept as the ticks they have left; 0 is expired or absent.    *)
(***************************************************************************)
EXTENDS Integers, FiniteSets

CONSTANTS Instances,  \* agent processes
          Host,       \* the machine (and SQLite file) of each instance
          Hosts,
          Nobody,     \* locked_by of a free row, or of a dead instance's
          TTL,        \* ttlMs
          JobTicks,   \* bound: the longest between two renewals that get through
          Outages     \* which calls to the cloud may fail

ASSUME LockAssumption ==
  /\ Host \in [Instances -> Hosts]
  /\ Nobody \notin Instances
  /\ TTL \in Nat \ {0}
  /\ JobTicks \in Nat
  /\ Outages \subseteq {"acquire", "release"}

VARIABLES remote,  \* the distributed_locks row: [by, left]
          local,   \* ticks left of each host's sync_locks row
          held,    \* _heldLocks: instances that think they hold the remote lock
          via,     \* the lock under which each instance runs processQueue
          busy     \* ticks since each instance's last renewal

vars == <<remote, local, held, via, busy>>

Running == {i \in Instances : via[i] # "none"}

TypeOK ==
  /\ remote \in [by : Instances \cup {Nobody}, left : 0..TTL]
  /\ local \in [Hosts -> 0..TTL]
  /\ held \subseteq Instances
  /\ via \in [Instances -> {"none", "remote", "local"}]
  /\ busy \in [Instances -> 0..JobTicks]

Free == [by |-> Nobody, left |-> 0]

Init ==
  /\ remote = Free
  /\ local = [h \in Hosts |-> 0]
  /\ held = {}
  /\ via = [i \in Instances |-> "none"]
  /\ busy = [i \in Instances |-> 0]

\* acquire: the conditional UPDATE finds the row free or expired.  When it
\* does not, acquire returns false and nothing changes.
AcquireRemote(i) ==
  /\ via[i] = "none"
  /\ remote.left = 0
  /\ remote' = [by |-> i, left |-> TTL]
  /\ held' = held \cup {i}
  /\ via' = [via EXCEPT ![i] = "remote"]
  /\ UNCHANGED <<local, busy>>

\* acquire, when the call fails: before the UPDATE, or after it (the answer
\* is lost).  acquireLock then tries the local row; _heldLocks stays as it is.
AcquireFallback(i) ==
  /\ via[i] = "none"
  /\ "acquire" \in Outages
  /\ \/ UNCHANGED remote
     \/ remote.left = 0 /\ remote' = [by |-> i, left |-> TTL]
  /\ IF local[Host[i]] = 0
     THEN /\ local' = [local EXCEPT ![Host[i]] = TTL]
          /\ via' = [via EXCEPT ![i] = "local"]
     ELSE UNCHANGED <<local, via>>
  /\ UNCHANGED <<held, busy>>

\* Mutant of Renewed: renew does nothing.
NotRenewed(i) == remote

\* renew, before each job: only the remote lease, and only if its row is still
\* this instance's.  A renewal that fails is ignored and changes nothing:
\* JobTicks bounds the time until the next one that gets through.
Renewed(i) ==
  IF i \in held /\ remote.by = i THEN [remote EXCEPT !.left = TTL] ELSE remote

Renew(i) ==
  /\ via[i] # "none"
  /\ remote' = Renewed(i)
  /\ busy' = [busy EXCEPT ![i] = 0]
  /\ UNCHANGED <<local, held, via>>

\* Mutant of Released: locked_by is not compared.
ReleasedAnyway(i) == Free

\* release: the remote row if it is still this instance's (a failure is
\* ignored), and then the local row, whoever inserted it.
Released(i) == IF remote.by = i THEN Free ELSE remote

Release(i) ==
  /\ via[i] # "none"
  /\ \/ remote' = Released(i)
     \/ "release" \in Outages /\ UNCHANGED remote
  /\ local' = [local EXCEPT ![Host[i]] = 0]
  /\ held' = held \ {i}
  /\ via' = [via EXCEPT ![i] = "none"]
  /\ busy' = [busy EXCEPT ![i] = 0]

\* The process dies and restarts under a new INSTANCE_ID.
Crash(i) ==
  /\ via[i] # "none"
  /\ remote' = IF remote.by = i THEN [remote EXCEPT !.by = Nobody] ELSE remote
  /\ held' = held \ {i}
  /\ via' = [via EXCEPT ![i] = "none"]
  /\ busy' = [busy EXCEPT ![i] = 0]
  /\ UNCHANGED local

\* Mutant of Less: leases below zero.
LessThanNothing(n) == n - 1

\* Mutant of Less: a lock without a TTL.
NeverLess(n) == n

Less(n) == IF n > 0 THEN n - 1 ELSE 0

Tick ==
  /\ \A i \in Running : busy[i] < JobTicks
  /\ remote' = [remote EXCEPT !.left = Less(@)]
  /\ local' = [h \in Hosts |-> Less(local[h])]
  /\ busy' = [i \in Instances |-> IF i \in Running THEN busy[i] + 1 ELSE 0]
  /\ UNCHANGED <<held, via>>

Next ==
  \/ \E i \in Instances :
       \/ AcquireRemote(i)
       \/ AcquireFallback(i)
       \/ Renew(i)
       \/ Release(i)
       \/ Crash(i)
  \/ Tick

Spec == Init /\ [][Next]_vars

\* The clock runs; a worker's queue of at most WORKER_BATCH_SIZE jobs ends.
FairSpec == Spec /\ WF_vars(Tick) /\ \A i \in Instances : WF_vars(Release(i))

(***************************************************************************)
(* Properties                                                              *)
(***************************************************************************)

\* The remote lock is a mutex of all instances: as long as a renewal gets
\* through before the lease runs out, two workers never run under it at once,
\* whatever happens to acquisitions and releases and whoever dies.
RemoteMutex ==
  \A i, j \in Running : via[i] = "remote" /\ via[j] = "remote" => i = j

\* Outage or not, nobody takes or frees the remote row of a worker that runs
\* under it and whose lease is in force.
LeaseIsRespected ==
  [][\A i \in Instances :
       remote.by = i /\ remote.left > 0 /\ via[i] = "remote" =>
         remote'.by = i \/ via'[i] = "none"]_vars

\* The remote row is the lock that processQueue counts on: as long as renewals
\* get through, no step of any instance, lost answer, crash or tick of the
\* clock does more to a lease in force than its contract says.
Contract == INSTANCE LockContract WITH
  Workers <- Instances,
  row <- remote.left > 0,
  inside <- {i \in Instances : via[i] = "remote"}

ImplementsLockContract == Contract!Spec

\* Whatever crash or lost release left behind, both locks come free again.
LocksComeFree ==
  /\ []<>(remote.left = 0)
  /\ \A h \in Hosts : []<>(local[h] = 0)

(***************************************************************************)
(* What the documentation says, and the code does not do                   *)
(***************************************************************************)

\* distributedLock.js: one worker at a time processes the queue, however many
\* agents run in parallel.
MutualExclusion == \A i, j \in Running : i = j
===============================================================================
