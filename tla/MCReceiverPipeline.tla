------------------------- MODULE MCReceiverPipeline -------------------------
(***************************************************************************)
(* Instance of ReceiverPipeline for TLC.  Deadlock is not checked: once    *)
(* all events have been received and admitted, nothing is left to do.      *)
(***************************************************************************)
EXTENDS ReceiverPipeline
=============================================================================
