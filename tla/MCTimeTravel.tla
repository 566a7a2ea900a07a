---------------------------- MODULE MCTimeTravel ----------------------------
(***************************************************************************)
(* The instance of TimeTravel that TLC checks.                             *)
(***************************************************************************)
EXTENDS TimeTravel
=============================================================================
