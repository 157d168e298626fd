---------------------------- MODULE MCUpdaterAgent ----------------------------
(* A TLC instance of UpdaterAgent. *)
EXTENDS UpdaterAgent

CONSTANTS code, modules, version, extra

\* Release 2 adds an entry, which a downgrade to release 1 drops.
ShipsMore == [v \in Versions |-> {code, modules} \cup IF v = 2 THEN {extra} ELSE {}]
===============================================================================
