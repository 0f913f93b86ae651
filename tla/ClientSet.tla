------------------------------ MODULE ClientSet ------------------------------
(* The sessions whose statements interleave.                                   *)

CONSTANTS
  Clients,  \* sessions
  Nobody    \* "no client"

ASSUME NobodyAssumption == Nobody \notin Clients
=============================================================================
