---------------------------- MODULE PunchDelivery ----------------------------
(***************************************************************************)
(* What the agent's pipeline promises about punches, without queues, jobs, *)
(* workers or faults: a punch recorded on the site's SQLite database       *)
(* reaches clock_event_logs exactly once per dedupe_hash, and is confirmed *)
(* locally (synced = 1) only after that.  SyncWorker implements it.        *)
(***************************************************************************)
EXTENDS Integers

CONSTANTS Records,  \* punches, as rows of the local time_records
          Hashes,   \* dedupe hashes
          Hash      \* the dedupe hash of each record

VARIABLES punched,    \* records the site holds
          confirmed,  \* records the site holds as delivered
          delivered   \* rows of clock_event_logs per dedupe hash

Init ==
  /\ punched = {}
  /\ confirmed = {}
  /\ delivered = [h \in Hashes |-> 0]

Punch(r) ==
  /\ punched' = punched \cup {r}
  /\ UNCHANGED <<confirmed, delivered>>

\* A batch of held punches arrives; hashes already there are not repeated.
Deliver(batch) ==
  /\ batch \subseteq punched
  /\ delivered' = [h \in Hashes |->
       IF h \in {Hash[r] : r \in batch} THEN 1 ELSE delivered[h]]
  /\ UNCHANGED <<punched, confirmed>>

Confirm(batch) ==
  /\ batch \subseteq punched
  /\ \A r \in batch : delivered[Hash[r]] = 1
  /\ confirmed' = confirmed \cup batch
  /\ UNCHANGED <<punched, delivered>>

Next ==
  \/ \E r \in Records : Punch(r)
  \/ \E batch \in SUBSET Records : Deliver(batch) \/ Confirm(batch)

Spec == Init /\ [][Next]_<<punched, confirmed, delivered>>
===============================================================================
