--------------------------- MODULE MCCircuitBreaker ---------------------------
(* TLC instance of CircuitBreaker. *)
EXTENDS CircuitBreaker
===============================================================================
