-------------------------- MODULE MCToolExecution --------------------------
(***************************************************************************)
(* Instance of ToolExecution for TLC.  Deadlock is not checked: a session  *)
(* whose calls are all settled has nothing left to do.                     *)
(***************************************************************************)
EXTENDS ToolExecution

CONSTANTS c1, c2, m1, m2
=============================================================================
