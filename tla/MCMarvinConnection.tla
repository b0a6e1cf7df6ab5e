------------------------ MODULE MCMarvinConnection ------------------------
(* Three connections: two handlers may overlap while a third registers. *)
EXTENDS MarvinConnection
=============================================================================
