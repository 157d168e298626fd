-------------------------- MODULE MCDistributedLock --------------------------
(* TLC instances of DistributedLock: i1 and i2 share a machine. *)
EXTENDS DistributedLock, TLC

CONSTANTS i1, i2, i3

TwoHosts == i1 :> "a" @@ i2 :> "a" @@ i3 :> "b"
===============================================================================
