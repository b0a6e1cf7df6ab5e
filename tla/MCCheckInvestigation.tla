------------------------ MODULE MCCheckInvestigation ------------------------
(***************************************************************************)
(* Instance of CheckInvestigation for TLC.  Deadlock is not checked: once  *)
(* all investigations have ended, nothing is left to do.                   *)
(***************************************************************************)
EXTENDS CheckInvestigation, TLC

CONSTANTS i1, i2
=============================================================================
