--------------------------- MODULE MCClockCollection ---------------------------
(* TLC instances of ClockCollection. *)
EXTENDS ClockCollection, TLC

\* Punches 2 and 3 have one nsr: the clock's numbering was reset.
ResetKey == 1 :> "n1" @@ 2 :> "n2" @@ 3 :> "n2"

\* Each punch has its own.
OwnKey == 1 :> "n1" @@ 2 :> "n2"
===============================================================================
