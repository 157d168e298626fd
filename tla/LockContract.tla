----------------------------- MODULE LockContract -----------------------------
(***************************************************************************)
(* What the lock of services/distributedLock.js promises to processQueue   *)
(* while workers run under its remote row, without hosts, owners or a      *)
(* clock: a lease that is taken only when none is in force, that outlives  *)
(* a worker that dies or whose release is lost, and that runs out only     *)
(* when nobody works under it.                                             *)
(***************************************************************************)

CONSTANT Workers

VARIABLES row,    \* whether a lease on the lock's row is in force
          inside  \* the workers between acquisition and release

vars == <<row, inside>>

Init ==
  /\ row = FALSE
  /\ inside = {}

\* acquire goes through.
Take(w) ==
  /\ ~row
  /\ row' = TRUE
  /\ inside' = inside \cup {w}

\* acquire goes through, but its answer is lost: the row is taken for nobody.
TakeUnheard ==
  /\ ~row
  /\ row' = TRUE
  /\ UNCHANGED inside

\* A worker releases the lock, or its release is lost, or it dies: in the
\* last two cases the row stays.
Leave(w) ==
  /\ w \in inside
  /\ inside' = inside \ {w}
  /\ row' \in {row, FALSE}

\* The lease of a row nobody works under runs out, or its owner clears it.
RunOut ==
  /\ inside = {}
  /\ row' = FALSE
  /\ UNCHANGED inside

Next ==
  \/ \E w \in Workers : Take(w) \/ Leave(w)
  \/ TakeUnheard
  \/ RunOut

Spec == Init /\ [][Next]_vars

\* What the contract is for: one worker at a time, and never without a lease.
Exclusive ==
  /\ \A v, w \in inside : v = w
  /\ inside # {} => row
===============================================================================
