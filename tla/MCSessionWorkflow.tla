------------------------- MODULE MCSessionWorkflow -------------------------
(* Two messages of one thread and one of another. *)
EXTENDS SessionWorkflow, TLC

CONSTANTS m1, m2, m3, t1, t2

MCMessages == {m1, m2, m3}
MCThreadOf == (m1 :> t1) @@ (m2 :> t1) @@ (m3 :> t2)

=============================================================================
