------------------------------ MODULE SlotPool ------------------------------
(***************************************************************************)
(* What a session's execution budget promises: a pool that grants each     *)
(* holder one slot at most once, with a set of units charged to it, takes  *)
(* slots back, and never has more slots out, more units charged or more    *)
(* grants made than its limits.  A holder may keep its slot for ever, and  *)
(* may keep units after it has returned its slot.                          *)
(***************************************************************************)
EXTENDS Naturals, FiniteSets

CONSTANTS Holders, Units, MaxHeld, MaxCharged, MaxGrants

VARIABLES
  held,     \* the holders that have a slot
  charged,  \* <<holder, unit>> pairs
  granted   \* the holders that have ever had a slot

poolVars == <<held, charged, granted>>

PoolInit == held = {} /\ charged = {} /\ granted = {}

Grant(h, U) ==
  /\ h \notin granted
  /\ Cardinality(granted) < MaxGrants
  /\ Cardinality(held) < MaxHeld
  /\ Cardinality(charged) + Cardinality(U) <= MaxCharged
  /\ held' = held \cup {h}
  /\ charged' = charged \cup ({h} \X U)
  /\ granted' = granted \cup {h}

Return(h, U) ==
  /\ h \in held
  /\ held' = held \ {h}
  /\ charged' = charged \ ({h} \X U)
  /\ UNCHANGED granted

PoolNext ==
  \E h \in Holders, U \in SUBSET Units : Grant(h, U) \/ Return(h, U)

PoolSpec == PoolInit /\ [][PoolNext]_poolVars

=============================================================================
