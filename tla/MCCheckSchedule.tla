--------------------------- MODULE MCCheckSchedule ---------------------------
(***************************************************************************)
(* Instance of CheckSchedule for TLC.  Requests are interchangeable, and   *)
(* so are the valid expressions.  Deadlock is not checked: when all        *)
(* requests are done, nothing is left to do.                               *)
(***************************************************************************)
EXTENDS CheckSchedule, TLC

CONSTANTS p1, p2, p3, x, y, bad

Symmetry == Permutations(Requests) \cup Permutations(Expressions \ Invalid)
=============================================================================
