--------------------------- MODULE MCPunchValidator ---------------------------
(* TLC instances of PunchValidator. *)
EXTENDS PunchValidator, TLC

\* Punches 2 and 3 are of one employee, 1 and 4 of another.
TwoEmployees == 1 :> "e2" @@ 2 :> "e1" @@ 3 :> "e1" @@ 4 :> "e2"

OneEmployee == [p \in Punches |-> "e1"]
===============================================================================
