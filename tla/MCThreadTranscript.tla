-------------------------- MODULE MCThreadTranscript --------------------------
(***************************************************************************)
(* Instance of ThreadTranscript for TLC.  Deadlock is not checked: the user *)
(* may have written the last of the messages.                              *)
(***************************************************************************)
EXTENDS ThreadTranscript
=============================================================================
