----------------------------- MODULE MCSyncWorker -----------------------------
(* TLC instances of SyncWorker: the assignments of punches to hashes and    *)
(* devices that the configurations choose from.                             *)
EXTENDS SyncWorker, TLC

\* Punches 1 and 2 come from d1 and are distinct, 3 comes from d2.
ThreeHash == 1 :> "h1" @@ 2 :> "h2" @@ 3 :> "h3"
ThreeDevice == 1 :> "d1" @@ 2 :> "d1" @@ 3 :> "d2"

\* Punches 1 and 2 are one punch read twice (two NSRs, one hash).
TwinHash == 1 :> "h1" @@ 2 :> "h1" @@ 3 :> "h3"

\* Two punches of one device.
PairHash == 1 :> "h1" @@ 2 :> "h2"
PairDevice == 1 :> "d1" @@ 2 :> "d1"

JobSymmetry == Permutations(JobIds)

\* Jobs and processes are interchangeable.
WorkerSymmetry == Permutations(JobIds) \cup Permutations(Workers)
===============================================================================
