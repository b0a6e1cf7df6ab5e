------------------------- MODULE MCCapabilityCatalog -------------------------
(***************************************************************************)
(* Instance of CapabilityCatalog for TLC.  Deadlock is not checked: when   *)
(* all registrations and edits are done, the server may have nothing left  *)
(* to do.                                                                  *)
(***************************************************************************)
EXTENDS CapabilityCatalog

CONSTANTS m1, m2, h1, h2, t1, o1, d1, d2
=============================================================================
