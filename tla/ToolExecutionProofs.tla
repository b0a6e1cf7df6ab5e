------------------------ MODULE ToolExecutionProofs ------------------------
(***************************************************************************)
(* Proofs about ToolExecution for any number of tool calls, Marvins,       *)
(* attempts and faults and any limits: the type invariant, the exactness   *)
(* of the budget counters, the session's limits, what a run that has ended *)
(* leaves behind, the implementation of SlotPool, and that a call that is  *)
(* open can go on and is never taken back.                                 *)
(*                                                                         *)
(* The argument: every step of the system leaves the pool of reservations  *)
(* alone (Kept), adds one reservation under the budget's guard (Granted),  *)
(* or takes one away together with units that were charged to it           *)
(* (GivenBack).  This is StepShape; the rest is counting.                  *)
(***************************************************************************)
EXTENDS ToolExecution, FiniteSetTheorems, TLAPS

(***************************************************************************)
(* What makes the accounting inductive.                                    *)
(***************************************************************************)

\* A run fans out to targets of its own snapshot, so a release never gives
\* back more than was charged.
TargetsInSnapshot ==
  \A r \in Runs :
    /\ targets[r] \subseteq snapshot[r]
    /\ pc[r] \in {"idle", "resolving"} => targets[r] = {}

\* An attempt Temporal has not scheduled has done nothing, so scheduling it
\* overwrites no reservation.
FreshAttempts ==
  \A c \in ToolCalls, a \in 1 .. MaxAttempts : a > attempt[c] => pc[<<c, a>>] = "idle"

\* The counters never pass the limits.
CountersWithinLimits ==
  /\ budget.executions_used <= MaxExecutions
  /\ budget.targets_used <= MaxTargets
  /\ budget.concurrent_running <= MaxConcurrent

IInv ==
  /\ TypeOK
  /\ TargetsInSnapshot
  /\ FreshAttempts
  /\ BudgetAccounting
  /\ CountersWithinLimits

(***************************************************************************)
(* The three shapes of a step.                                             *)
(***************************************************************************)

Kept == UNCHANGED <<budget, Holding, Charged, Reserved>>

Granted(r, S) ==
  /\ r \notin Reserved
  /\ WithinBudget(Cardinality(S))
  /\ ReserveBudget(Cardinality(S))
  /\ Holding' = Holding \cup {r}
  /\ Charged' = Charged \cup ({r} \X S)
  /\ Reserved' = Reserved \cup {r}

GivenBack(r, S) ==
  /\ r \in Holding
  /\ S \subseteq snapshot[r]
  /\ ReleaseBudget(Cardinality(S))
  /\ Holding' = Holding \ {r}
  /\ Charged' = Charged \ ({r} \X S)
  /\ Reserved' = Reserved

-----------------------------------------------------------------------------

USE DEF Goto, Fault, rowVars, workflowVars

LEMMA InitInv == Init => TypeOK /\ TargetsInSnapshot /\ FreshAttempts
<1>1. Init => TypeOK
  BY LimitAssumption DEF Init, NothingUsed, TypeOK, PCs, Runs
<1>2. Init => TargetsInSnapshot /\ FreshAttempts
  BY DEF Init, NothingUsed, TargetsInSnapshot, FreshAttempts, Runs
<1>3. QED
  BY <1>1, <1>2

LEMMA FiniteCard ==
  ASSUME NEW S \in SUBSET Marvins
  PROVE  IsFiniteSet(S) /\ Cardinality(S) \in Nat
BY SessionAssumption, FS_Subset, FS_CardinalityType

LEMMA TypeStep == TypeOK /\ [Next]_vars => TypeOK'
<1> SUFFICES ASSUME TypeOK, [Next]_vars
             PROVE  TypeOK'
  OBVIOUS
<1> USE LimitAssumption DEF TypeOK
<1>1. ASSUME NEW S \in SUBSET ToolCalls, NextBatch(S)
      PROVE  TypeOK'
  <2>1. attempt' \in [ToolCalls -> 0 .. MaxAttempts]
    BY <1>1 DEF NextBatch
  <2>2. pc' \in [Runs -> PCs]
    BY <1>1 DEF NextBatch, PCs
  <2>3. QED
    BY <1>1, <2>1, <2>2 DEF NextBatch
<1>2. ASSUME NEW c \in ToolCalls, Retry(c)
      PROVE  TypeOK'
  <2>1. attempt' \in [ToolCalls -> 0 .. MaxAttempts]
    BY <1>2 DEF Retry
  <2>2. pc' \in [Runs -> PCs]
    <3>1. pc' = [pc EXCEPT ![<<c, attempt[c] + 1>>] = "resolving"]
      BY <1>2 DEF Retry
    <3>2. QED
      BY <3>1 DEF PCs
  <2>3. QED
    BY <1>2, <2>1, <2>2 DEF Retry
<1>3. ASSUME NEW c \in ToolCalls, TimeOut(c)
      PROVE  TypeOK'
  BY <1>3 DEF TimeOut, LastRun, Runs
<1>4. ASSUME NEW r \in Runs, Resolve(r)
      PROVE  TypeOK'
  <2>1. CASE Goto(r, "refused") /\ UNCHANGED <<budget, snapshot>>
    BY <1>4, <2>1 DEF Resolve, Refuse, PCs, Answered
  <2>2. ASSUME NEW S \in SUBSET marvins, ReserveBudget(Cardinality(S)),
               snapshot' = [snapshot EXCEPT ![r] = S], Goto(r, "reserved")
        PROVE  TypeOK'
    <3>1. Cardinality(S) \in Nat
      BY <2>2, FiniteCard
    <3>2. budget' \in [executions_used : Nat, targets_used : Nat, concurrent_running : Nat]
      BY <2>2, <3>1 DEF ReserveBudget
    <3>3. QED
      BY <1>4, <2>2, <3>2 DEF Resolve, Refuse, PCs, HoldingPCs
  <2>3. QED
    BY <1>4, <2>1, <2>2 DEF Resolve, Refuse
<1>5. ASSUME NEW n \in Nat, ReleaseBudget(n)
      PROVE  budget' \in [executions_used : Nat, targets_used : Nat, concurrent_running : Nat]
  BY <1>5 DEF ReleaseBudget, Clamp
<1>6. ASSUME NEW r \in Runs, Route(r)
      PROVE  TypeOK'
  <2>1. Cardinality(snapshot[r]) \in Nat
    BY FiniteCard
  <2>2. targets' \in [Runs -> SUBSET Marvins]
    BY <1>6 DEF Route
  <2>3. QED
    BY <1>5, <1>6, <2>1, <2>2 DEF Route, PCs, HoldingPCs, Answered
<1>7. ASSUME NEW r \in Runs, CreateExecutions(r)
      PROVE  TypeOK'
  <2>1. execution' \in [Runs -> [Marvins -> {"none", "pending", "running", "ended"}]]
    BY <1>7 DEF CreateExecutions
  <2>2. live' \subseteq Runs \X Marvins
    BY <1>7 DEF CreateExecutions
  <2>3. QED
    BY <1>7, <2>1, <2>2 DEF CreateExecutions, PCs, HoldingPCs
<1>8. ASSUME NEW r \in Runs, Release(r)
      PROVE  TypeOK'
  <2>1. Cardinality(targets[r]) \in Nat
    BY FiniteCard
  <2>2. QED
    BY <1>5, <1>8, <2>1 DEF Release, PCs, FinallyPCs
<1>9. ASSUME NEW r \in Runs, CompleteToolCall(r)
      PROVE  TypeOK'
  BY <1>9 DEF CompleteToolCall, PCs, FinallyPCs
<1>10. ASSUME NEW r \in Runs, StatementFails(r)
       PROVE  TypeOK'
  <2>1. Cardinality(snapshot[r]) \in Nat
    BY FiniteCard
  <2>2. faults' \in 0 .. MaxFaults
    BY <1>10 DEF StatementFails
  <2>3. pc' \in [Runs -> PCs]
    BY <1>10 DEF StatementFails, PCs, Failed
  <2>4. budget' \in [executions_used : Nat, targets_used : Nat, concurrent_running : Nat]
    BY <1>5, <1>10, <2>1 DEF StatementFails
  <2>5. execution' \in [Runs -> [Marvins -> {"none", "pending", "running", "ended"}]]
    <3> DEFINE Row(created) == [m \in Marvins |-> IF m \in created THEN "pending"
                                                  ELSE execution[r][m]]
    <3>1. \/ UNCHANGED execution
          \/ \E created \in SUBSET targets[r] :
               execution' = [execution EXCEPT ![r] = Row(created)]
      BY <1>10, Zenon DEF StatementFails
    <3>2. \A created \in SUBSET targets[r] :
            Row(created) \in [Marvins -> {"none", "pending", "running", "ended"}]
      OBVIOUS
    <3> HIDE DEF Row
    <3>3. ASSUME NEW created \in SUBSET targets[r],
                 execution' = [execution EXCEPT ![r] = Row(created)]
          PROVE  execution' \in [Runs -> [Marvins -> {"none", "pending", "running", "ended"}]]
      BY <3>2, <3>3
    <3>4. QED
      BY <3>1, <3>3
  <2>6. QED
    BY <1>10, <2>2, <2>3, <2>4, <2>5 DEF StatementFails
<1>11. ASSUME NEW r \in Runs, Cancel(r)
       PROVE  TypeOK'
  BY <1>11 DEF Cancel, PCs, HoldingPCs
<1>12. ASSUME NEW r \in Runs, NEW m \in Marvins, StartOne(r, m) \/ FinishOne(r, m)
       PROVE  TypeOK'
  <2>1. execution' \in [Runs -> [Marvins -> {"none", "pending", "running", "ended"}]]
    <3>1. PICK e \in {"running", "ended"} : execution' = [execution EXCEPT ![r][m] = e]
      BY <1>12 DEF StartOne, FinishOne
    <3>2. [execution[r] EXCEPT ![m] = e] \in [Marvins -> {"none", "pending", "running", "ended"}]
      OBVIOUS
    <3>3. QED
      BY <3>1, <3>2
  <2>2. QED
    BY <1>12, <2>1 DEF StartOne, FinishOne
<1>13. ASSUME NEW r \in Runs, NEW m \in Marvins, StatusWriteFails(r, m)
       PROVE  TypeOK'
  BY <1>13 DEF StatusWriteFails, PCs, HoldingPCs
<1>14. ASSUME WorkerCrash
       PROVE  TypeOK'
  <2>1. \A p \in PCs : Crashed(p) \in PCs
    BY DEF Crashed, PCs, HoldingPCs, FinallyPCs, Failed
  <2>2. QED
    BY <1>14, <2>1 DEF WorkerCrash
<1>15. ASSUME NEW m \in Marvins, DeleteMarvin(m)
       PROVE  TypeOK'
  BY <1>15 DEF DeleteMarvin
<1>16. CASE CompleteSession
  BY <1>16 DEF CompleteSession
<1>17. CASE UNCHANGED vars
  BY <1>17 DEF vars
<1>18. QED
  BY <1>1, <1>2, <1>3, <1>4, <1>6, <1>7, <1>8, <1>9, <1>10, <1>11, <1>12,
     <1>13, <1>14, <1>15, <1>16, <1>17 DEF Next, Step, Coroutine

\* Every reachable state is well typed.
THEOREM TypeCorrect == Spec => []TypeOK
<1>1. Init => TypeOK
  BY InitInv
<1>2. QED
  BY <1>1, TypeStep, PTL DEF Spec

-----------------------------------------------------------------------------

LEMMA AuxStep ==
  TypeOK /\ TargetsInSnapshot /\ FreshAttempts /\ [Next]_vars
    => TargetsInSnapshot' /\ FreshAttempts'
<1> SUFFICES ASSUME TypeOK, TargetsInSnapshot, FreshAttempts, [Next]_vars
             PROVE  TargetsInSnapshot' /\ FreshAttempts'
  OBVIOUS
<1> USE LimitAssumption DEF TypeOK
\* Most steps move no run out of, or into, its first two places.
<1>1. ASSUME UNCHANGED attempt, \A q \in Runs : pc[q] = "idle" => pc'[q] = "idle"
      PROVE  FreshAttempts'
  BY <1>1 DEF FreshAttempts, Runs
<1>2. ASSUME UNCHANGED <<snapshot, targets>>,
             \A q \in Runs : pc'[q] \in {"idle", "resolving"} => pc[q] \in {"idle", "resolving"}
      PROVE  TargetsInSnapshot'
  BY <1>2 DEF TargetsInSnapshot
<1>3. ASSUME NEW S \in SUBSET ToolCalls, NextBatch(S)
      PROVE  TargetsInSnapshot' /\ FreshAttempts'
  <2>1. TargetsInSnapshot'
    <3>1. \A c \in S : pc[<<c, 1>>] = "idle"
      BY <1>3 DEF NextBatch, FreshAttempts
    <3>2. \A q \in Runs : q[1] \in S /\ q[2] = 1 => pc[q] = "idle"
      BY <3>1 DEF Runs
    <3>3. \A q \in Runs : pc'[q] = IF q[1] \in S /\ q[2] = 1 THEN "resolving" ELSE pc[q]
      BY <1>3 DEF NextBatch
    <3>4. QED
      BY <1>2, <1>3, <3>2, <3>3 DEF NextBatch
  <2>2. FreshAttempts'
    <3>1. SUFFICES ASSUME NEW c \in ToolCalls, NEW a \in 1 .. MaxAttempts, a > attempt'[c]
                   PROVE  pc'[<<c, a>>] = "idle"
      BY DEF FreshAttempts
    <3>2. attempt'[c] = IF c \in S THEN 1 ELSE attempt[c]
      BY <1>3 DEF NextBatch
    <3>3. a > attempt[c]
      BY <3>1, <3>2, <1>3 DEF NextBatch
    <3>4. <<c, a>> \in Runs /\ pc[<<c, a>>] = "idle"
      BY <3>3 DEF FreshAttempts, Runs
    <3>5. QED
      BY <1>3, <3>1, <3>2, <3>4 DEF NextBatch
  <2>3. QED
    BY <2>1, <2>2
<1>4. ASSUME NEW c \in ToolCalls, Retry(c)
      PROVE  TargetsInSnapshot' /\ FreshAttempts'
  <2> DEFINE n == <<c, attempt[c] + 1>>
  <2>1. n \in Runs /\ pc[n] = "idle"
    BY <1>4 DEF Retry, FreshAttempts, Runs
  <2>2. pc' = [pc EXCEPT ![n] = "resolving"]
    BY <1>4 DEF Retry
  <2>3. TargetsInSnapshot'
    BY <1>2, <1>4, <2>1, <2>2 DEF Retry
  <2>4. \A a \in 1 .. MaxAttempts, d \in ToolCalls :
          a > attempt'[d] => a > attempt[d] /\ <<d, a>> # n
    BY <1>4 DEF Retry
  <2>5. FreshAttempts'
    BY <2>2, <2>4 DEF FreshAttempts, Runs
  <2>6. QED
    BY <2>3, <2>5
<1>5. ASSUME NEW r \in Runs, Resolve(r)
      PROVE  TargetsInSnapshot' /\ FreshAttempts'
  <2>1. pc[r] = "resolving" /\ targets[r] = {} /\ UNCHANGED <<attempt, targets>>
    BY <1>5 DEF Resolve, Refuse, TargetsInSnapshot
  <2>2. PICK p \in {"refused", "reserved"} : pc' = [pc EXCEPT ![r] = p]
    BY <1>5 DEF Resolve, Refuse
  <2>3. \A q \in Runs \ {r} : snapshot'[q] = snapshot[q]
    BY <1>5 DEF Resolve, Refuse
  <2>4. QED
    BY <1>1, <2>1, <2>2, <2>3 DEF TargetsInSnapshot
<1>6. ASSUME NEW r \in Runs, Route(r)
      PROVE  TargetsInSnapshot' /\ FreshAttempts'
  <2>1. PICK p \in {"returned", "routed"} : pc' = [pc EXCEPT ![r] = p]
    BY <1>6 DEF Route
  <2>2. QED
    BY <1>1, <1>6, <2>1 DEF Route, TargetsInSnapshot
<1>7. ASSUME NEW r \in Runs, pc[r] # "idle",
             \E p \in PCs \ {"idle", "resolving"} : pc' = [pc EXCEPT ![r] = p],
             UNCHANGED <<attempt, snapshot, targets>>
      PROVE  TargetsInSnapshot' /\ FreshAttempts'
  BY <1>1, <1>2, <1>7
<1>8. ASSUME NEW r \in Runs,
             CreateExecutions(r) \/ Release(r) \/ CompleteToolCall(r) \/ Cancel(r)
      PROVE  TargetsInSnapshot' /\ FreshAttempts'
  <2>1. PICK p \in {"fanout", "fanout_failed", "released", "completed", "broken"} :
          pc' = [pc EXCEPT ![r] = p]
    BY <1>8 DEF CreateExecutions, Release, CompleteToolCall, Cancel
  <2>2. QED
    BY <1>7, <1>8, <2>1 DEF CreateExecutions, Release, Gathered, CompleteToolCall, Cancel,
                            PCs, HoldingPCs, FinallyPCs
<1>9. ASSUME NEW r \in Runs, StatementFails(r)
      PROVE  TargetsInSnapshot' /\ FreshAttempts'
  <2>1. pc[r] # "idle" /\ UNCHANGED <<attempt, snapshot, targets>>
    BY <1>9 DEF StatementFails, Gathered
  <2>2. PICK p \in Failed : pc' = [pc EXCEPT ![r] = p]
    BY <1>9 DEF StatementFails, Failed
  <2>3. QED
    BY <1>7, <2>1, <2>2 DEF PCs, Failed
<1>10. ASSUME NEW r \in Runs, NEW m \in Marvins, StatusWriteFails(r, m)
       PROVE  TargetsInSnapshot' /\ FreshAttempts'
  BY <1>1, <1>2, <1>10 DEF StatusWriteFails
<1>11. ASSUME WorkerCrash
       PROVE  TargetsInSnapshot' /\ FreshAttempts'
  <2>1. Crashed("idle") = "idle"
    BY DEF Crashed, HoldingPCs
  <2>2. \A p \in PCs : Crashed(p) \in {"idle", "resolving"} => p = "idle"
    BY DEF Crashed, HoldingPCs, PCs
  <2>3. QED
    BY <1>1, <1>2, <1>11, <2>1, <2>2 DEF WorkerCrash
<1>12. ASSUME UNCHANGED <<pc, attempt, snapshot, targets>>
       PROVE  TargetsInSnapshot' /\ FreshAttempts'
  BY <1>1, <1>2, <1>12
<1>13. QED
  BY <1>3, <1>4, <1>5, <1>6, <1>8, <1>9, <1>10, <1>11, <1>12
     DEF Next, Step, Coroutine, TimeOut, StartOne, FinishOne, DeleteMarvin, CompleteSession, vars

-----------------------------------------------------------------------------

LEMMA RunsFinite == IsFiniteSet(Runs) /\ IsFiniteSet(Runs \X Marvins)
<1>1. IsFiniteSet(1 .. MaxAttempts)
  BY LimitAssumption, FS_Interval
<1>2. IsFiniteSet(Runs)
  BY <1>1, SessionAssumption, FS_Product DEF Runs
<1>3. QED
  BY <1>2, SessionAssumption, FS_Product

\* A run that moves between places where it holds (or charges, or has had) the
\* same leaves the pool alone.
LEMMA KeptIf ==
  ASSUME UNCHANGED <<budget, snapshot>>,
         \A q \in Runs :
           /\ pc'[q] \in HoldingPCs <=> pc[q] \in HoldingPCs
           /\ pc'[q] \in FinallyPCs <=> pc[q] \in FinallyPCs
           /\ pc'[q] \in {"idle", "resolving", "refused", "aborted"}
                <=> pc[q] \in {"idle", "resolving", "refused", "aborted"}
           /\ pc[q] \in FinallyPCs => targets'[q] = targets[q]
  PROVE  Kept
<1>1. Holding' = Holding /\ Reserved' = Reserved
  BY DEF Holding, Reserved
<1>2. Charged' = Charged
  BY DEF Charged
<1>3. QED
  BY <1>1, <1>2 DEF Kept

\* Leaving the holding places for one where nothing is charged, or for one where
\* only the targets fanned out to are not, gives the reservation back.
LEMMA GivenBackIf ==
  ASSUME TypeOK, TargetsInSnapshot,
         NEW r \in Runs, pc[r] \in HoldingPCs,
         NEW S \in SUBSET snapshot[r], ReleaseBudget(Cardinality(S)),
         NEW p, pc' = [pc EXCEPT ![r] = p],
         UNCHANGED snapshot,
         \A q \in Runs \ {r} : targets'[q] = targets[q],
         \/ p \in {"returned", "route_failed"} /\ S = snapshot[r]
         \/ p \in FinallyPCs /\ S = targets[r] /\ UNCHANGED targets
  PROVE  GivenBack(r, S)
<1> USE DEF HoldingPCs, FinallyPCs
<1>1. pc'[r] = p /\ \A q \in Runs \ {r} : pc'[q] = pc[q]
  BY DEF TypeOK
<1>2. Holding' = Holding \ {r} /\ Reserved' = Reserved
  BY <1>1 DEF Holding, Reserved
<1>3. Charged' = Charged \ ({r} \X S)
  BY <1>1 DEF Charged
<1>4. QED
  BY <1>2, <1>3 DEF GivenBack, Holding

LEMMA StepShape ==
  ASSUME TypeOK, TargetsInSnapshot, FreshAttempts, [Next]_vars
  PROVE  Kept \/ \E r \in Runs, S \in SUBSET Marvins : Granted(r, S) \/ GivenBack(r, S)
<1> DEFINE Shape == Kept \/ \E r \in Runs, S \in SUBSET Marvins : Granted(r, S) \/ GivenBack(r, S)
<1> USE DEF TypeOK, HoldingPCs, FinallyPCs
<1>1. ASSUME NEW S \in SUBSET ToolCalls, NextBatch(S)
      PROVE  Kept
  <2>1. \A q \in Runs : q[1] \in S /\ q[2] = 1 => pc[q] = "idle"
    <3>1. \A c \in S : pc[<<c, 1>>] = "idle"
      BY <1>1, LimitAssumption DEF NextBatch, FreshAttempts
    <3>2. QED
      BY <3>1 DEF Runs
  <2>2. \A q \in Runs : pc'[q] = IF q[1] \in S /\ q[2] = 1 THEN "resolving" ELSE pc[q]
    BY <1>1 DEF NextBatch
  <2>3. QED
    BY <1>1, <2>1, <2>2, KeptIf DEF NextBatch
<1>2. ASSUME NEW c \in ToolCalls, Retry(c)
      PROVE  Kept
  <2> DEFINE n == <<c, attempt[c] + 1>>
  <2>1. n \in Runs /\ pc[n] = "idle"
    BY <1>2, LimitAssumption DEF Retry, FreshAttempts, Runs
  <2>2. pc' = [pc EXCEPT ![n] = "resolving"]
    BY <1>2 DEF Retry
  <2> HIDE DEF n
  <2>3. QED
    BY <1>2, <2>1, <2>2, KeptIf DEF Retry
<1>3. ASSUME NEW r \in Runs, Resolve(r)
      PROVE  Shape
  <2>1. CASE Goto(r, "refused") /\ UNCHANGED <<budget, snapshot>>
    BY <1>3, <2>1, KeptIf DEF Resolve, Refuse
  <2>2. ASSUME NEW S \in SUBSET marvins, WithinBudget(Cardinality(S)),
               ReserveBudget(Cardinality(S)), snapshot' = [snapshot EXCEPT ![r] = S],
               Goto(r, "reserved")
        PROVE  Granted(r, S)
    <3>1. pc[r] = "resolving" /\ UNCHANGED targets
      BY <1>3 DEF Resolve, Refuse
    <3>2. pc'[r] = "reserved" /\ \A q \in Runs \ {r} : pc'[q] = pc[q]
      BY <2>2
    <3>3. snapshot'[r] = S /\ \A q \in Runs \ {r} : snapshot'[q] = snapshot[q]
      BY <2>2
    <3>4. Holding' = Holding \cup {r} /\ Reserved' = Reserved \cup {r}
      BY <3>1, <3>2 DEF Holding, Reserved
    <3>5. Charged' = Charged \cup ({r} \X S)
      BY <3>1, <3>2, <3>3 DEF Charged
    <3>6. QED
      BY <2>2, <3>1, <3>4, <3>5 DEF Granted, Reserved
  <2>3. QED
    BY <1>3, <2>1, <2>2 DEF Resolve, Refuse
<1>4. ASSUME NEW r \in Runs, Route(r)
      PROVE  Shape
  <2>1. pc[r] = "reserved" /\ UNCHANGED snapshot /\ \A q \in Runs \ {r} : targets'[q] = targets[q]
    BY <1>4 DEF Route
  <2>2. CASE ReleaseBudget(Cardinality(snapshot[r])) /\ Goto(r, "returned")
    BY <2>1, <2>2, GivenBackIf
  <2>3. CASE Goto(r, "routed") /\ UNCHANGED budget
    <3>1. Kept
      BY <2>1, <2>3, KeptIf
    <3>2. QED
      BY <3>1
  <2>4. QED
    BY <1>4, <2>2, <2>3 DEF Route
<1>5. ASSUME NEW r \in Runs, Release(r)
      PROVE  Shape
  <2>1. pc[r] \in {"fanout", "broken"} /\ UNCHANGED <<snapshot, targets>>
    BY <1>5 DEF Release, Gathered
  <2>2. targets[r] \in SUBSET snapshot[r] /\ ReleaseBudget(Cardinality(targets[r]))
    BY <1>5 DEF Release, TargetsInSnapshot
  <2>3. PICK p \in FinallyPCs : pc' = [pc EXCEPT ![r] = p]
    BY <1>5 DEF Release
  <2>4. GivenBack(r, targets[r])
    BY <2>1, <2>2, <2>3, GivenBackIf
  <2>5. QED
    BY <2>4
<1>6. ASSUME NEW r \in Runs, StatementFails(r)
      PROVE  Shape
  <2>1. UNCHANGED <<snapshot, targets>>
    BY <1>6 DEF StatementFails
  <2>2. CASE ReleaseBudget(Cardinality(snapshot[r])) /\ pc[r] = "reserved" /\ Goto(r, "route_failed")
    BY <2>1, <2>2, GivenBackIf
  <2>3. CASE /\ UNCHANGED budget
             /\ \/ pc[r] = "resolving" /\ Goto(r, "aborted")
                \/ pc[r] \in {"reserved", "broken", "fanout", "routed"} /\ Goto(r, "lost")
                \/ pc[r] = "released" /\ Goto(r, "fanout_failed")
    BY <2>1, <2>3, KeptIf
  <2>4. QED
    BY <1>6, <2>2, <2>3 DEF StatementFails, Gathered
<1>7. ASSUME NEW r \in Runs, CreateExecutions(r) \/ CompleteToolCall(r) \/ Cancel(r)
      PROVE  Kept
  BY <1>7, KeptIf DEF CreateExecutions, CompleteToolCall, Cancel
<1>8. ASSUME NEW r \in Runs, NEW m \in Marvins, StatusWriteFails(r, m)
      PROVE  Kept
  BY <1>8, KeptIf DEF StatusWriteFails
<1>9. ASSUME WorkerCrash
      PROVE  Kept
  BY <1>9, KeptIf DEF WorkerCrash, Crashed
<1>10. ASSUME UNCHANGED <<budget, pc, snapshot, targets>>
       PROVE  Kept
  BY <1>10, KeptIf
<1>11. QED
  BY <1>1, <1>2, <1>3, <1>4, <1>5, <1>6, <1>7, <1>8, <1>9, <1>10
     DEF Next, Step, Coroutine, TimeOut, StartOne, FinishOne, DeleteMarvin, CompleteSession, vars

-----------------------------------------------------------------------------
(* Counting. *)

LEMMA PoolFinite ==
  /\ IsFiniteSet(Holding) /\ IsFiniteSet(Reserved) /\ IsFiniteSet(Charged)
  /\ {Cardinality(Holding), Cardinality(Reserved), Cardinality(Charged)} \subseteq Nat
<1>1. Holding \subseteq Runs /\ Reserved \subseteq Runs /\ Charged \subseteq Runs \X Marvins
  BY DEF Holding, Reserved, Charged
<1>2. IsFiniteSet(Holding) /\ IsFiniteSet(Reserved) /\ IsFiniteSet(Charged)
  BY <1>1, RunsFinite, FS_Subset
<1>3. QED
  BY <1>2, FS_CardinalityType

\* The units of one run count as many as its targets.
LEMMA UnitsOfRun ==
  ASSUME NEW r, NEW S \in SUBSET Marvins
  PROVE  IsFiniteSet({r} \X S) /\ Cardinality({r} \X S) = Cardinality(S)
<1>1. IsFiniteSet({r}) /\ Cardinality({r}) = 1 /\ IsFiniteSet(S) /\ Cardinality(S) \in Nat
  BY FS_Singleton, FiniteCard
<1>2. IsFiniteSet({r} \X S) /\ Cardinality({r} \X S) = 1 * Cardinality(S)
  BY <1>1, FS_Product
<1>3. QED
  BY <1>1, <1>2

LEMMA AccountingStep ==
  ASSUME TypeOK, TargetsInSnapshot, FreshAttempts, BudgetAccounting, CountersWithinLimits,
         [Next]_vars
  PROVE  BudgetAccounting' /\ CountersWithinLimits'
<1> USE LimitAssumption
<1>1. CASE Kept
  BY <1>1 DEF Kept, BudgetAccounting, CountersWithinLimits
<1>2. ASSUME NEW r \in Runs, NEW S \in SUBSET Marvins, Granted(r, S)
      PROVE  BudgetAccounting' /\ CountersWithinLimits'
  <2>1. Cardinality(S) \in Nat
    BY FiniteCard
  <2>2. r \notin Holding /\ Charged \cap ({r} \X S) = {}
    BY <1>2 DEF Granted, Holding, Charged, Reserved, HoldingPCs, FinallyPCs
  <2>3. /\ Cardinality(Holding') = Cardinality(Holding) + 1
        /\ Cardinality(Reserved') = Cardinality(Reserved) + 1
    BY <1>2, <2>2, PoolFinite, FS_AddElement DEF Granted
  <2>4. Cardinality(Charged') = Cardinality(Charged) + Cardinality(S)
    <3> DEFINE U == {r} \X S
    <3>1. IsFiniteSet(U) /\ Cardinality(U) = Cardinality(S)
      BY UnitsOfRun
    <3>2. Charged' = Charged \cup U
      BY <1>2 DEF Granted
    <3>3. Charged \cap U = {}
      BY <2>2
    <3> HIDE DEF U
    <3>4. IsFiniteSet(Charged) /\ Cardinality(Charged) \in Nat
      BY PoolFinite
    <3>5. Cardinality(Charged \cup U)
            = Cardinality(Charged) + Cardinality(U) - Cardinality(Charged \cap U)
      BY <3>1, <3>4, FS_Union
    <3>6. Cardinality(Charged \cap U) = 0
      BY <3>3, FS_EmptySet
    <3>7. QED
      BY <2>1, <3>1, <3>2, <3>4, <3>5, <3>6
  <2>5. QED
    BY <1>2, <2>1, <2>3, <2>4
       DEF Granted, WithinBudget, ReserveBudget, BudgetAccounting, CountersWithinLimits, TypeOK
<1>3. ASSUME NEW r \in Runs, NEW S \in SUBSET Marvins, GivenBack(r, S)
      PROVE  BudgetAccounting' /\ CountersWithinLimits'
  <2>1. Cardinality(S) \in Nat
    BY FiniteCard
  <2>2. {r} \X S \subseteq Charged
    BY <1>3 DEF GivenBack, Holding, Charged
  <2>3. Cardinality(Holding') = Cardinality(Holding) - 1
    BY <1>3, PoolFinite, FS_RemoveElement DEF GivenBack
  <2>4. Cardinality(Charged') = Cardinality(Charged) - Cardinality(S)
    <3> DEFINE U == {r} \X S
    <3>1. IsFiniteSet(U) /\ Cardinality(U) = Cardinality(S)
      BY UnitsOfRun
    <3>2. Charged' = Charged \ U
      BY <1>3 DEF GivenBack
    <3>3. Charged \cap U = U
      BY <2>2
    <3> HIDE DEF U
    <3>4. IsFiniteSet(Charged) /\ Cardinality(Charged) \in Nat
      BY PoolFinite
    <3>5. Cardinality(Charged \ U) = Cardinality(Charged) - Cardinality(Charged \cap U)
      BY <3>1, <3>4, FS_Difference
    <3>6. QED
      BY <3>1, <3>2, <3>3, <3>5
  <2>5. {Cardinality(Holding)', Cardinality(Charged)'} \subseteq Nat
    <3>1. Holding' \subseteq Holding /\ Charged' \subseteq Charged
      BY <1>3 DEF GivenBack
    <3>2. QED
      BY <3>1, PoolFinite, FS_Subset, FS_CardinalityType
  <2>6. QED
    BY <1>3, <2>1, <2>3, <2>4, <2>5, PoolFinite
       DEF GivenBack, ReleaseBudget, Clamp, BudgetAccounting, CountersWithinLimits, TypeOK
<1>4. QED
  BY <1>1, <1>2, <1>3, StepShape

LEMMA InitAccounting == Init => BudgetAccounting /\ CountersWithinLimits
<1> SUFFICES ASSUME Init
             PROVE  BudgetAccounting /\ CountersWithinLimits
  OBVIOUS
<1>1. Holding = {} /\ Reserved = {} /\ Charged = {}
  BY DEF Init, NothingUsed, Holding, Reserved, Charged, HoldingPCs, FinallyPCs
<1>2. QED
  BY <1>1, FS_EmptySet, LimitAssumption DEF Init, NothingUsed, BudgetAccounting, CountersWithinLimits

LEMMA InductiveInvariant == Spec => []IInv
<1>1. Init => IInv
  BY InitInv, InitAccounting DEF IInv
<1>2. IInv /\ [Next]_vars => IInv'
  BY TypeStep, AuxStep, AccountingStep DEF IInv
<1>3. QED
  BY <1>1, <1>2, PTL DEF Spec

\* The counters in TSession.execution_budget are exact in every reachable state:
\* no interleaving of runs, retries, cancellations, failing statements and crashes
\* releases a reservation twice or clamps a counter at zero.
THEOREM AccountingCorrect == Spec => []BudgetAccounting
<1>1. IInv => BudgetAccounting
  BY DEF IInv
<1>2. QED
  BY <1>1, InductiveInvariant, PTL

\* A session never has more tool executions in progress, targets charged or
\* executions made than its limits, for any limits and any number of calls.
THEOREM LimitsCorrect == Spec => []WithinLimits
<1>1. IInv => WithinLimits
  BY DEF IInv, BudgetAccounting, CountersWithinLimits, WithinLimits
<1>2. QED
  BY <1>1, InductiveInvariant, PTL

-----------------------------------------------------------------------------
(* What a run that answers leaves behind. *)

\* Only a run that fans out, or whose gather raised, has coroutines, one per target
\* at most; a target without one, of a run whose gather did not raise, has ended.
FanOut ==
  \A r \in Runs, m \in Marvins :
    /\ <<r, m>> \in live => /\ pc[r] \in {"fanout", "broken", "fanout_failed", "lost"}
                            /\ m \in targets[r]
    /\ /\ m \in targets[r] /\ <<r, m>> \notin live
       /\ pc[r] \in {"fanout", "released", "completed"}
       => execution[r][m] = "ended"

\* A run fans out to every Marvin of its snapshot that is still there.
TargetsRemain ==
  \A r \in Runs :
    pc[r] \in {"routed", "fanout", "broken"} \cup FinallyPCs
      => snapshot[r] \cap marvins \subseteq targets[r]

\* Scheduling an attempt touches only runs that are idle.
LEMMA Scheduled ==
  ASSUME TypeOK, FreshAttempts,
         \/ \E S \in SUBSET ToolCalls : NextBatch(S)
         \/ \E c \in ToolCalls : Retry(c)
  PROVE  /\ \A q \in Runs : pc'[q] = pc[q] \/ (pc[q] = "idle" /\ pc'[q] = "resolving")
         /\ UNCHANGED <<marvins, snapshot, targets, execution, live>>
<1> USE LimitAssumption DEF TypeOK
<1>1. ASSUME NEW S \in SUBSET ToolCalls, NextBatch(S)
      PROVE  \A q \in Runs : pc'[q] = pc[q] \/ (pc[q] = "idle" /\ pc'[q] = "resolving")
  <2>1. \A c \in S : pc[<<c, 1>>] = "idle"
    BY <1>1 DEF NextBatch, FreshAttempts
  <2>2. \A q \in Runs : q[1] \in S /\ q[2] = 1 => pc[q] = "idle"
    BY <2>1 DEF Runs
  <2>3. \A q \in Runs : pc'[q] = IF q[1] \in S /\ q[2] = 1 THEN "resolving" ELSE pc[q]
    BY <1>1 DEF NextBatch
  <2>4. QED
    BY <2>2, <2>3
<1>2. ASSUME NEW c \in ToolCalls, Retry(c)
      PROVE  \A q \in Runs : pc'[q] = pc[q] \/ (pc[q] = "idle" /\ pc'[q] = "resolving")
  <2> DEFINE n == <<c, attempt[c] + 1>>
  <2>1. n \in Runs /\ pc[n] = "idle"
    BY <1>2 DEF Retry, FreshAttempts, Runs
  <2>2. pc' = [pc EXCEPT ![n] = "resolving"]
    BY <1>2 DEF Retry
  <2> HIDE DEF n
  <2>3. QED
    BY <2>1, <2>2
<1>3. UNCHANGED <<marvins, snapshot, targets, execution, live>>
  BY DEF NextBatch, Retry
<1>4. QED
  BY <1>1, <1>2, <1>3

LEMMA FanOutStep ==
  ASSUME TypeOK, FreshAttempts, FanOut, [Next]_vars
  PROVE  FanOut'
<1> SUFFICES ASSUME NEW q \in Runs, NEW n \in Marvins
             PROVE  /\ <<q, n>> \in live' => /\ pc'[q] \in {"fanout", "broken", "fanout_failed", "lost"}
                                             /\ n \in targets'[q]
                    /\ /\ n \in targets'[q] /\ <<q, n>> \notin live'
                       /\ pc'[q] \in {"fanout", "released", "completed"}
                       => execution'[q][n] = "ended"
  BY DEF FanOut
<1> DEFINE Goal == /\ <<q, n>> \in live' => /\ pc'[q] \in {"fanout", "broken", "fanout_failed", "lost"}
                                             /\ n \in targets'[q]
                   /\ /\ n \in targets'[q] /\ <<q, n>> \notin live'
                      /\ pc'[q] \in {"fanout", "released", "completed"}
                      => execution'[q][n] = "ended"
<1> USE DEF TypeOK
<1>0. /\ <<q, n>> \in live => /\ pc[q] \in {"fanout", "broken", "fanout_failed", "lost"}
                              /\ n \in targets[q]
      /\ /\ n \in targets[q] /\ <<q, n>> \notin live
         /\ pc[q] \in {"fanout", "released", "completed"}
         => execution[q][n] = "ended"
  BY DEF FanOut
<1>1. CASE \/ \E S \in SUBSET ToolCalls : NextBatch(S)
           \/ \E c \in ToolCalls : Retry(c)
  <2>1. /\ pc'[q] = pc[q] \/ (pc[q] = "idle" /\ pc'[q] = "resolving")
        /\ UNCHANGED <<targets, execution, live>>
    BY <1>1, Scheduled
  <2>2. QED
    BY <1>0, <2>1
<1>2. ASSUME NEW r \in Runs, Resolve(r)
      PROVE  Goal
  BY <1>0, <1>2 DEF Resolve, Refuse, rowVars
<1>3. ASSUME NEW r \in Runs, Route(r)
      PROVE  Goal
  BY <1>0, <1>3 DEF Route
<1>4. ASSUME NEW r \in Runs, CreateExecutions(r)
      PROVE  Goal
  BY <1>0, <1>4 DEF CreateExecutions
<1>5. ASSUME NEW r \in Runs, Release(r)
      PROVE  Goal
  BY <1>0, <1>5 DEF Release, Gathered
<1>6. ASSUME NEW r \in Runs, CompleteToolCall(r)
      PROVE  Goal
  BY <1>0, <1>6 DEF CompleteToolCall
<1>7. ASSUME NEW r \in Runs, StatementFails(r)
      PROVE  Goal
  <2>1. UNCHANGED <<targets, live>> /\ \A x \in Runs \ {r} : pc'[x] = pc[x] /\ execution'[x] = execution[x]
    BY <1>7 DEF StatementFails
  <2>2. \/ pc[r] = "resolving" /\ pc'[r] = "aborted"
        \/ pc[r] \in {"reserved", "broken", "fanout", "routed"} /\ pc'[r] = "lost"
        \/ pc[r] = "reserved" /\ pc'[r] = "route_failed"
        \/ pc[r] = "released" /\ pc'[r] = "fanout_failed"
    BY <1>7 DEF StatementFails, Gathered
  <2>3. QED
    BY <1>0, <2>1, <2>2
<1>8. ASSUME NEW r \in Runs, Cancel(r)
      PROVE  Goal
  BY <1>0, <1>8 DEF Cancel
<1>9. ASSUME NEW r \in Runs, NEW m \in Marvins, StartOne(r, m)
      PROVE  Goal
  <2>1. /\ <<r, m>> \in live /\ UNCHANGED <<pc, targets, live>>
        /\ \A x \in Runs, y \in Marvins : <<x, y>> # <<r, m>> => execution'[x][y] = execution[x][y]
    BY <1>9 DEF StartOne
  <2>2. QED
    BY <1>0, <2>1
<1>10. ASSUME NEW r \in Runs, NEW m \in Marvins, FinishOne(r, m)
       PROVE  Goal
  <2>1. /\ live' = live \ {<<r, m>>} /\ UNCHANGED <<pc, targets>>
        /\ execution'[r][m] = "ended"
        /\ \A x \in Runs, y \in Marvins : <<x, y>> # <<r, m>> => execution'[x][y] = execution[x][y]
    BY <1>10 DEF FinishOne
  <2>2. QED
    BY <1>0, <2>1
<1>11. ASSUME NEW r \in Runs, NEW m \in Marvins, StatusWriteFails(r, m)
       PROVE  Goal
  <2>1. pc'[q] = pc[q] \/ (q = r /\ pc[q] = "fanout" /\ pc'[q] = "broken")
    BY <1>11 DEF StatusWriteFails
  <2>2. /\ <<r, m>> \in live /\ live' = live \ {<<r, m>>} /\ UNCHANGED <<targets, execution>>
        /\ pc[r] = "fanout" => pc'[r] = "broken"
    BY <1>11 DEF StatusWriteFails
  <2>3. pc[r] \in {"fanout", "broken", "fanout_failed", "lost"}
    BY <2>2 DEF FanOut
  <2>4. QED
    BY <1>0, <2>1, <2>2, <2>3
<1>12. CASE WorkerCrash
  <2>1. /\ live' = {} /\ UNCHANGED <<targets, execution>>
        /\ pc'[q] = Crashed(pc[q])
    BY <1>12 DEF WorkerCrash
  <2>2. pc'[q] \in {"fanout", "released", "completed"} => pc[q] = "completed"
    BY <2>1 DEF Crashed, HoldingPCs
  <2>3. QED
    BY <1>0, <2>1, <2>2
<1>13. CASE UNCHANGED <<pc, targets, execution, live>>
  BY <1>0, <1>13
<1>14. QED
  BY <1>1, <1>2, <1>3, <1>4, <1>5, <1>6, <1>7, <1>8, <1>9, <1>10, <1>11, <1>12, <1>13
     DEF Next, Step, Coroutine, TimeOut, DeleteMarvin, CompleteSession, vars

\* Marvins only leave, and after Route the targets of a run stay what they are.
LEMMA TargetsRemainStep ==
  ASSUME TypeOK, FreshAttempts, TargetsRemain, [Next]_vars
  PROVE  TargetsRemain'
<1> DEFINE Routed == {"routed", "fanout", "broken"} \cup FinallyPCs
<1> USE DEF TypeOK
<1>1. ASSUME \A q \in Runs : pc'[q] \in Routed => pc[q] \in Routed /\ targets'[q] = targets[q] /\ snapshot'[q] = snapshot[q],
             marvins' \subseteq marvins
      PROVE  TargetsRemain'
  BY <1>1 DEF TargetsRemain
<1> USE DEF FinallyPCs
<1>2. CASE \/ \E S \in SUBSET ToolCalls : NextBatch(S)
           \/ \E c \in ToolCalls : Retry(c)
  BY <1>1, <1>2, Scheduled
<1>3. ASSUME NEW r \in Runs, Resolve(r)
      PROVE  TargetsRemain'
  BY <1>1, <1>3 DEF Resolve, Refuse
<1>4. ASSUME NEW r \in Runs, Route(r)
      PROVE  TargetsRemain'
  BY <1>4 DEF Route, TargetsRemain
<1>5. ASSUME NEW r \in Runs, CreateExecutions(r) \/ Release(r) \/ CompleteToolCall(r) \/ Cancel(r)
      PROVE  TargetsRemain'
  BY <1>1, <1>5 DEF CreateExecutions, Release, Gathered, CompleteToolCall, Cancel
<1>6. ASSUME NEW r \in Runs, StatementFails(r)
      PROVE  TargetsRemain'
  BY <1>1, <1>6 DEF StatementFails, Gathered
<1>7. ASSUME NEW r \in Runs, NEW m \in Marvins, StatusWriteFails(r, m)
      PROVE  TargetsRemain'
  BY <1>1, <1>7 DEF StatusWriteFails
<1>8. CASE WorkerCrash
  <2>1. \A p \in PCs : Crashed(p) \in Routed => p \in Routed
    BY DEF Crashed, HoldingPCs, PCs
  <2>2. QED
    BY <1>1, <1>8, <2>1 DEF WorkerCrash
<1>9. CASE UNCHANGED <<pc, targets, snapshot>> /\ marvins' \subseteq marvins
  BY <1>1, <1>9
<1>10. QED
  BY <1>2, <1>3, <1>4, <1>5, <1>6, <1>7, <1>8, <1>9
     DEF Next, Step, Coroutine, StartOne, FinishOne, TimeOut, DeleteMarvin, CompleteSession, vars

LEMMA LeftBehind == Spec => [](FanOut /\ TargetsRemain)
<1>1. Init => FanOut /\ TargetsRemain
  BY DEF Init, NothingUsed, FanOut, TargetsRemain, FinallyPCs
<1>2. IInv /\ FanOut /\ TargetsRemain /\ [Next]_vars => FanOut' /\ TargetsRemain'
  BY FanOutStep, TargetsRemainStep DEF IInv
<1>3. QED
  BY <1>1, <1>2, InductiveInvariant, PTL DEF Spec

\* A run that answers its tool call has ended each of its Execution rows and leaves
\* no coroutine behind, however many targets it has and whatever failed elsewhere.
THEOREM CompletedWhole == Spec => []CompletedIsWhole
<1>1. FanOut /\ TypeOK => CompletedIsWhole
  BY DEF FanOut, CompletedIsWhole, TypeOK
<1>2. QED
  BY <1>1, LeftBehind, TypeCorrect, PTL

\* When every run has ended without a fault the session's slots are all free, and
\* the targets still charged are those that were deleted before they were used.
THEOREM BudgetComesBack == Spec => []QuiescentBudget
<1>1. IInv /\ TargetsRemain => QuiescentBudget
  <2> SUFFICES ASSUME IInv, TargetsRemain, \A r \in Runs : pc[r] \in Answered \cup {"idle"}
               PROVE  /\ budget.concurrent_running = 0
                      /\ \A rm \in Charged : rm[2] \notin marvins
    BY DEF QuiescentBudget
  <2>1. Holding = {}
    BY DEF Holding, HoldingPCs, Answered
  <2>2. \A rm \in Charged : rm[2] \notin marvins
    BY DEF Charged, TargetsRemain, HoldingPCs, FinallyPCs, Answered
  <2>3. QED
    BY <2>1, <2>2, FS_EmptySet DEF IInv, BudgetAccounting
<1>2. QED
  BY <1>1, LeftBehind, InductiveInvariant, PTL

-----------------------------------------------------------------------------

\* The instance counts with a copy of Cardinality.
LEMMA PoolCardinality == \A S : Pool!Cardinality(S) = Cardinality(S)
BY Zenon DEF Cardinality, Pool!Cardinality

\* The session's budget implements the abstract pool of slots: every step of the
\* system grants one slot within the limits, returns one, or is invisible.
THEOREM PoolImplemented == Spec => ImplementsPool
<1>1. Init => Pool!PoolInit
  BY DEF Init, NothingUsed, Pool!PoolInit, Holding, Reserved, Charged, HoldingPCs, FinallyPCs
<1>2. IInv /\ [Next]_vars => [Pool!PoolNext]_(Pool!poolVars)
  <2> SUFFICES ASSUME IInv, [Next]_vars
               PROVE  [Pool!PoolNext]_(Pool!poolVars)
    OBVIOUS
  <2>1. CASE Kept
    BY <2>1 DEF Kept, Pool!poolVars
  <2>2. ASSUME NEW r \in Runs, NEW S \in SUBSET Marvins, Granted(r, S)
        PROVE  Pool!Grant(r, S)
    <3>1. Cardinality(S) \in Nat /\ r \notin Reserved /\ WithinBudget(Cardinality(S))
      BY <2>2, FiniteCard DEF Granted
    <3>2. /\ Cardinality(Reserved) < MaxExecutions
          /\ Cardinality(Holding) < MaxConcurrent
          /\ Cardinality(Charged) + Cardinality(S) <= MaxTargets
      BY <3>1 DEF IInv, WithinBudget, BudgetAccounting
    <3>3. /\ Holding' = Holding \cup {r}
          /\ Charged' = Charged \cup ({r} \X S)
          /\ Reserved' = Reserved \cup {r}
      BY <2>2 DEF Granted
    <3>4. QED
      BY <3>1, <3>2, <3>3, PoolCardinality DEF Pool!Grant
  <2>3. ASSUME NEW r \in Runs, NEW S \in SUBSET Marvins, GivenBack(r, S)
        PROVE  Pool!Return(r, S)
    BY <2>3 DEF GivenBack, Pool!Return
  <2>4. QED
    BY <2>1, <2>2, <2>3, StepShape DEF IInv, Pool!PoolNext
<1>3. QED
  BY <1>1, <1>2, InductiveInvariant, PTL DEF Spec, ImplementsPool, Pool!PoolSpec

-----------------------------------------------------------------------------
(* Calls settle: what their fairness rests on. *)

\* What may be done for a call that is open: another attempt, the next statement of
\* its last one, or a step of one of the coroutines that one waits for.
Ready(c) ==
  \/ AttemptFailed(c) /\ attempt[c] < MaxAttempts
  \/ pc[LastRun(c)] \in {"resolving", "reserved", "routed", "broken", "released"}
  \/ Gathered(LastRun(c))
  \/ \E m \in Marvins : /\ <<LastRun(c), m>> \in live
                        /\ execution[LastRun(c)][m] \in {"pending", "running"}

\* An attempt that was scheduled has begun, and a coroutine has not ended its row.
Begun ==
  /\ \A c \in ToolCalls, a \in 1 .. MaxAttempts : a <= attempt[c] => pc[<<c, a>>] # "idle"
  /\ \A r \in Runs, m \in Marvins :
       <<r, m>> \in live => execution[r][m] \in {"pending", "running"}

\* How far a run is from its end, and a coroutine from its own.
Distance(p) ==
  IF p = "idle" THEN 7
  ELSE IF p = "resolving" THEN 6
  ELSE IF p = "reserved" THEN 5
  ELSE IF p = "routed" THEN 4
  ELSE IF p = "fanout" THEN 3
  ELSE IF p = "broken" THEN 2
  ELSE IF p = "released" THEN 1 ELSE 0

Rank(r) == Distance(pc[r])
Unfinished(r, m) ==
  IF <<r, m>> \notin live THEN 0 ELSE IF execution[r][m] = "pending" THEN 2 ELSE 1

\* No run is taken back, and no coroutine but by a run that goes on.
NotBack(r) ==
  /\ Rank(r)' <= Rank(r)
  /\ \A m \in Marvins : Rank(r)' = Rank(r) => Unfinished(r, m)' <= Unfinished(r, m)

\* A run goes on, or one of its coroutines.
GoesOn(r) ==
  \/ Rank(r)' < Rank(r)
  \/ \E m \in Marvins : Rank(r)' = Rank(r) /\ Unfinished(r, m)' < Unfinished(r, m)

RunsDown ==
  /\ \A r \in Runs : NotBack(r)
  /\ Working \/ (\E S \in SUBSET ToolCalls : NextBatch(S)) => \E r \in Runs : GoesOn(r)

\* Only a run whose pc a step changes can be idle after it.
LEMMA BegunKept ==
  ASSUME TypeOK, Begun, attempt' = attempt,
         \A r \in Runs : pc'[r] = "idle" => pc[r] = "idle"
  PROVE  \A c \in ToolCalls, a \in 1 .. MaxAttempts : a <= attempt'[c] => pc'[<<c, a>>] # "idle"
BY DEF Begun, Runs

\* The steps that begin an attempt.
LEMMA BegunScheduled ==
  ASSUME TypeOK, FreshAttempts, Begun,
         \/ \E S \in SUBSET ToolCalls : NextBatch(S)
         \/ \E c \in ToolCalls : Retry(c)
  PROVE  Begun'
<1> USE LimitAssumption DEF TypeOK
<1>1. UNCHANGED <<live, execution>>
  BY Scheduled
<1>2. ASSUME NEW S \in SUBSET ToolCalls, NextBatch(S),
             NEW c \in ToolCalls, NEW a \in 1 .. MaxAttempts, a <= attempt'[c]
      PROVE  pc'[<<c, a>>] # "idle"
  <2>1. <<c, a>> \in Runs
    BY DEF Runs
  <2>2. attempt'[c] = IF c \in S THEN 1 ELSE attempt[c]
    BY <1>2 DEF NextBatch
  <2>3. pc'[<<c, a>>] = IF c \in S /\ a = 1 THEN "resolving" ELSE pc[<<c, a>>]
    BY <1>2, <2>1 DEF NextBatch
  <2>4. QED
    BY <1>2, <2>2, <2>3 DEF Begun
<1>3. ASSUME NEW d \in ToolCalls, Retry(d),
             NEW c \in ToolCalls, NEW a \in 1 .. MaxAttempts, a <= attempt'[c]
      PROVE  pc'[<<c, a>>] # "idle"
  <2>1. <<c, a>> \in Runs
    BY DEF Runs
  <2>2. attempt'[c] = IF c = d THEN attempt[d] + 1 ELSE attempt[c]
    BY <1>3 DEF Retry
  <2>3. pc'[<<c, a>>] = IF <<c, a>> = <<d, attempt[d] + 1>> THEN "resolving" ELSE pc[<<c, a>>]
    BY <1>3, <2>1 DEF Retry
  <2>4. CASE c = d /\ a = attempt[d] + 1
    BY <2>3, <2>4
  <2>5. CASE ~(c = d /\ a = attempt[d] + 1)
    BY <1>3, <2>2, <2>3, <2>5 DEF Begun
  <2>6. QED
    BY <2>4, <2>5
<1>4. QED
  BY <1>1, <1>2, <1>3 DEF Begun

LEMMA BegunStep ==
  ASSUME TypeOK, FreshAttempts, FanOut, Begun, [Next]_vars
  PROVE  Begun'
<1> DEFINE Rows == \A r \in Runs, m \in Marvins :
                     <<r, m>> \in live' => execution'[r][m] \in {"pending", "running"}
<1> USE DEF TypeOK
<1>0. \A r \in Runs, m \in Marvins : <<r, m>> \in live => execution[r][m] \in {"pending", "running"}
  BY DEF Begun
<1>1. CASE \/ \E S \in SUBSET ToolCalls : NextBatch(S)
           \/ \E c \in ToolCalls : Retry(c)
  BY <1>1, BegunScheduled
<1>2. ASSUME attempt' = attempt, \A r \in Runs : pc'[r] = "idle" => pc[r] = "idle", Rows
      PROVE  Begun'
  <2> HIDE DEF TypeOK
  <2>1. \A c \in ToolCalls, a \in 1 .. MaxAttempts : a <= attempt'[c] => pc'[<<c, a>>] # "idle"
    BY <1>2, BegunKept
  <2>2. QED
    BY <1>2, <2>1 DEF Begun
<1> HIDE DEF Rows
<1>3. ASSUME live' \subseteq live, execution' = execution
      PROVE  Rows
  BY <1>0, <1>3 DEF Rows
<1>4. ASSUME NEW r \in Runs, Resolve(r) \/ Route(r) \/ Release(r) \/ CompleteToolCall(r) \/ Cancel(r)
      PROVE  Begun'
  <2>1. /\ attempt' = attempt /\ live' \subseteq live /\ execution' = execution
        /\ \A q \in Runs : pc'[q] = "idle" => pc[q] = "idle"
    BY <1>4 DEF Resolve, Refuse, Route, Release, CompleteToolCall, Cancel
  <2>2. QED
    BY <1>2, <1>3, <2>1
<1>5. ASSUME NEW r \in Runs, CreateExecutions(r)
      PROVE  Begun'
  <2>1. /\ attempt' = attempt
        /\ \A q \in Runs : pc'[q] = "idle" => pc[q] = "idle"
    BY <1>5 DEF CreateExecutions
  <2>2. ASSUME NEW q \in Runs, NEW m \in Marvins, <<q, m>> \in live'
        PROVE  execution'[q][m] \in {"pending", "running"}
    <3>1. <<q, m>> \in live \/ (q = r /\ m \in targets[r])
      BY <1>5, <2>2 DEF CreateExecutions
    <3>2. execution'[q][m] = IF q = r /\ m \in targets[r] THEN "pending" ELSE execution[q][m]
      BY <1>5 DEF CreateExecutions
    <3>3. QED
      BY <1>0, <3>1, <3>2
  <2>3. QED
    BY <1>2, <2>1, <2>2 DEF Rows
<1>6. ASSUME NEW r \in Runs, StatementFails(r)
      PROVE  Begun'
  <2>1. /\ attempt' = attempt /\ live' = live
        /\ \A q \in Runs : pc'[q] = "idle" => pc[q] = "idle"
    BY <1>6 DEF StatementFails
  <2>2. \A q \in Runs, m \in Marvins :
          execution'[q][m] = execution[q][m] \/ execution'[q][m] = "pending"
    BY <1>6 DEF StatementFails
  <2>3. QED
    BY <1>0, <1>2, <2>1, <2>2 DEF Rows
<1>7. ASSUME NEW r \in Runs, NEW m \in Marvins, StartOne(r, m)
      PROVE  Begun'
  <2>1. attempt' = attempt /\ live' = live /\ pc' = pc
    BY <1>7 DEF StartOne
  <2>2. \A q \in Runs, n \in Marvins :
          execution'[q][n] = execution[q][n] \/ execution'[q][n] = "running"
    BY <1>7 DEF StartOne
  <2>3. QED
    BY <1>0, <1>2, <2>1, <2>2 DEF Rows
<1>8. ASSUME NEW r \in Runs, NEW m \in Marvins, FinishOne(r, m)
      PROVE  Begun'
  <2>1. attempt' = attempt /\ live' = live \ {<<r, m>>} /\ pc' = pc
    BY <1>8 DEF FinishOne
  <2>2. \A q \in Runs, n \in Marvins : <<q, n>> # <<r, m>> => execution'[q][n] = execution[q][n]
    BY <1>8 DEF FinishOne
  <2>3. QED
    BY <1>0, <1>2, <2>1, <2>2 DEF Rows
<1>9. ASSUME NEW r \in Runs, NEW m \in Marvins, StatusWriteFails(r, m)
      PROVE  Begun'
  <2>1. /\ attempt' = attempt /\ live' \subseteq live /\ execution' = execution
        /\ \A q \in Runs : pc'[q] = "idle" => pc[q] = "idle"
    BY <1>9 DEF StatusWriteFails
  <2>2. QED
    BY <1>2, <1>3, <2>1
<1>10. CASE WorkerCrash
  <2>1. \A p \in PCs : Crashed(p) = "idle" => p = "idle"
    BY DEF Crashed, HoldingPCs, PCs
  <2>2. /\ attempt' = attempt /\ live' \subseteq live /\ execution' = execution
        /\ \A q \in Runs : pc'[q] = "idle" => pc[q] = "idle"
    BY <1>10, <2>1 DEF WorkerCrash
  <2>3. QED
    BY <1>2, <1>3, <2>2
<1>11. CASE UNCHANGED <<attempt, pc, live, execution>>
  BY <1>2, <1>3, <1>11
<1>12. QED
  BY <1>1, <1>4, <1>5, <1>6, <1>7, <1>8, <1>9, <1>10, <1>11
     DEF Next, Step, Coroutine, TimeOut, DeleteMarvin, CompleteSession, vars

\* A call that is open can go on.
LEMMA OpenReady ==
  ASSUME TypeOK, Begun, NEW c \in ToolCalls, Open(c)
  PROVE  Ready(c)
<1> DEFINE r == LastRun(c)
<1>1. attempt[c] \in 1 .. MaxAttempts /\ r = <<c, attempt[c]>> /\ r \in Runs
  BY LimitAssumption DEF TypeOK, Open, LastRun, Runs
<1>2. pc[r] # "idle" /\ pc[r] \in PCs
  BY <1>1 DEF Begun, TypeOK
<1> HIDE DEF r
<1>3. CASE AttemptFailed(c)
  <2>1. attempt[c] # MaxAttempts
    BY <1>1, <1>3 DEF Open, Settled
  <2>2. QED
    BY <1>1, <1>3, <2>1, LimitAssumption DEF Ready
<1>4. CASE ~AttemptFailed(c)
  <2>1. pc[r] \notin Failed \cup Answered
    BY <1>1, <1>4 DEF Open, Settled, AttemptFailed, r
  <2>2. pc[r] \in {"resolving", "reserved", "routed", "broken", "released", "fanout"}
    BY <1>2, <2>1 DEF PCs, HoldingPCs, FinallyPCs, Answered, Failed
  <2>3. CASE pc[r] = "fanout" /\ ~Gathered(r)
    <3>1. PICK m \in targets[r] : <<r, m>> \in live
      BY <2>3 DEF Gathered
    <3>2. m \in Marvins
      BY <1>1, <3>1 DEF TypeOK
    <3>3. execution[r][m] \in {"pending", "running"}
      BY <1>1, <3>1, <3>2 DEF Begun
    <3>4. QED
      BY <3>1, <3>2, <3>3 DEF Ready, r
  <2>4. QED
    BY <2>2, <2>3 DEF Ready, r
<1>5. QED
  BY <1>3, <1>4

LEMMA RanksAreNumbers ==
  /\ \A r \in Runs : Rank(r) \in Nat /\ Rank(r)' \in Nat
  /\ \A r \in Runs, m \in Marvins : Unfinished(r, m) \in Nat /\ Unfinished(r, m)' \in Nat
BY DEF Rank, Distance, Unfinished

\* A step that writes no row and starts no coroutine takes back none.
LEMMA NotBackIf ==
  ASSUME NEW r \in Runs, live' \subseteq live,
         \A m \in Marvins : execution'[r][m] = execution[r][m] \/ <<r, m>> \notin live',
         Rank(r)' <= Rank(r)
  PROVE  NotBack(r)
BY DEF NotBack, Unfinished

\* A run that goes on takes itself and its coroutines on.
LEMMA RankFalls ==
  ASSUME NEW r \in Runs, Rank(r)' < Rank(r)
  PROVE  NotBack(r) /\ GoesOn(r)
BY RanksAreNumbers DEF NotBack, GoesOn

\* A run that a step does not touch.
LEMMA Untouched ==
  ASSUME NEW r \in Runs, pc'[r] = pc[r],
         \A m \in Marvins : /\ <<r, m>> \in live' => <<r, m>> \in live
                            /\ execution'[r][m] = execution[r][m] \/ <<r, m>> \notin live'
  PROVE  NotBack(r)
BY RanksAreNumbers DEF NotBack, Rank, Unfinished

\* A step of a run touches no other.
LEMMA RunStep ==
  ASSUME TypeOK, FanOut, NEW r \in Runs, Step(r) \/ Cancel(r) \/ StatementFails(r)
  PROVE  GoesOn(r) /\ \A q \in Runs : NotBack(q)
<1> USE DEF TypeOK
<1>1. Rank(r)' < Rank(r)
  <2>1. CASE Resolve(r) \/ Route(r) \/ CreateExecutions(r)
    BY <2>1 DEF Resolve, Refuse, Route, CreateExecutions, Rank, Distance
  <2>2. CASE Release(r) \/ CompleteToolCall(r) \/ Cancel(r)
    BY <2>2 DEF Release, Gathered, CompleteToolCall, Cancel, Rank, Distance
  <2>3. CASE StatementFails(r)
    BY <2>3 DEF StatementFails, Gathered, Rank, Distance
  <2>4. QED
    BY <2>1, <2>2, <2>3 DEF Step
<1>2. ASSUME NEW q \in Runs, q # r
      PROVE  NotBack(q)
  <2>1. pc'[q] = pc[q] /\ execution'[q] = execution[q]
    <3>1. CASE Resolve(r) \/ Route(r) \/ CreateExecutions(r)
      BY <1>2, <3>1 DEF Resolve, Refuse, Route, CreateExecutions
    <3>2. CASE Release(r) \/ CompleteToolCall(r) \/ Cancel(r) \/ StatementFails(r)
      BY <1>2, <3>2 DEF Release, CompleteToolCall, Cancel, StatementFails
    <3>3. QED
      BY <3>1, <3>2 DEF Step
  <2>2. \A m \in Marvins : <<q, m>> \in live' => <<q, m>> \in live
    <3>1. CASE Resolve(r) \/ Route(r) \/ CreateExecutions(r)
      BY <1>2, <3>1 DEF Resolve, Refuse, Route, CreateExecutions
    <3>2. CASE Release(r) \/ CompleteToolCall(r) \/ Cancel(r) \/ StatementFails(r)
      BY <1>2, <3>2 DEF Release, CompleteToolCall, Cancel, StatementFails
    <3>3. QED
      BY <3>1, <3>2 DEF Step
  <2>3. QED
    BY <2>1, <2>2, Untouched
<1>3. QED
  BY <1>1, <1>2, RankFalls

\* A step of a coroutine takes it on and touches nothing else.
LEMMA CoroutineStep ==
  ASSUME TypeOK, NEW r \in Runs, NEW m \in Marvins, Coroutine(r, m)
  PROVE  GoesOn(r) /\ \A q \in Runs : NotBack(q)
<1> USE DEF TypeOK
<1>1. pc' = pc /\ \A q \in Runs : Rank(q)' = Rank(q)
  BY DEF Coroutine, StartOne, FinishOne, Rank
<1>2. \A q \in Runs, n \in Marvins :
        <<q, n>> # <<r, m>> => Unfinished(q, n)' = Unfinished(q, n)
  <2>1. \A q \in Runs, n \in Marvins :
          <<q, n>> # <<r, m>> => /\ execution'[q][n] = execution[q][n]
                                 /\ <<q, n>> \in live' <=> <<q, n>> \in live
    BY DEF Coroutine, StartOne, FinishOne
  <2>2. QED
    BY <2>1 DEF Unfinished
<1>3. Unfinished(r, m)' < Unfinished(r, m)
  <2>1. CASE StartOne(r, m)
    BY <2>1 DEF StartOne, Unfinished
  <2>2. CASE FinishOne(r, m)
    BY <2>2 DEF FinishOne, Unfinished
  <2>3. QED
    BY <2>1, <2>2 DEF Coroutine
<1>4. \A q \in Runs : NotBack(q)
  <2> SUFFICES ASSUME NEW q \in Runs, NEW n \in Marvins
               PROVE  Rank(q)' <= Rank(q) /\ Unfinished(q, n)' <= Unfinished(q, n)
    BY DEF NotBack
  <2> HIDE DEF TypeOK
  <2>1. Rank(q)' <= Rank(q)
    BY <1>1, RanksAreNumbers
  <2>2. CASE <<q, n>> = <<r, m>>
    BY <1>3, <2>1, <2>2, RanksAreNumbers
  <2>3. CASE <<q, n>> # <<r, m>>
    BY <1>2, <2>1, <2>3, RanksAreNumbers
  <2>4. QED
    BY <2>2, <2>3, <2>1
<1>5. QED
  BY <1>1, <1>3, <1>4 DEF GoesOn

\* A scheduled attempt begins, and no other run is touched.
LEMMA ScheduleStep ==
  ASSUME TypeOK, FreshAttempts,
         \/ \E S \in SUBSET ToolCalls : NextBatch(S)
         \/ \E c \in ToolCalls : Retry(c)
  PROVE  (\E r \in Runs : GoesOn(r)) /\ \A q \in Runs : NotBack(q)
<1>1. /\ \A q \in Runs : pc'[q] = pc[q] \/ (pc[q] = "idle" /\ pc'[q] = "resolving")
      /\ UNCHANGED <<execution, live>>
  BY Scheduled
<1>2. \A q \in Runs : pc'[q] # pc[q] => Rank(q)' < Rank(q)
  BY <1>1 DEF Rank, Distance
<1>3. \A q \in Runs : NotBack(q)
  BY <1>1, <1>2, RankFalls, Untouched
<1>4. \E r \in Runs : pc'[r] # pc[r]
  <2> USE LimitAssumption DEF TypeOK
  <2>1. ASSUME NEW S \in SUBSET ToolCalls, NextBatch(S)
        PROVE  \E r \in Runs : pc'[r] # pc[r]
    <3>1. PICK c \in S : TRUE
      BY <2>1 DEF NextBatch
    <3>2. <<c, 1>> \in Runs /\ pc[<<c, 1>>] = "idle"
      BY <2>1, <3>1 DEF NextBatch, FreshAttempts, Runs
    <3>3. pc'[<<c, 1>>] = "resolving"
      BY <2>1, <3>1, <3>2 DEF NextBatch
    <3>4. QED
      BY <3>2, <3>3
  <2>2. ASSUME NEW c \in ToolCalls, Retry(c)
        PROVE  \E r \in Runs : pc'[r] # pc[r]
    <3>1. <<c, attempt[c] + 1>> \in Runs /\ pc[<<c, attempt[c] + 1>>] = "idle"
      BY <2>2 DEF Retry, FreshAttempts, Runs
    <3>2. pc'[<<c, attempt[c] + 1>>] = "resolving"
      BY <2>2, <3>1 DEF Retry
    <3>3. QED
      BY <3>1, <3>2
  <2>3. QED
    BY <2>1, <2>2
<1>5. QED
  BY <1>2, <1>3, <1>4, RankFalls

\* What takes a run away from a coroutine takes the run on as well.
LEMMA FaultStep ==
  ASSUME TypeOK,
         \/ \E r \in Runs, m \in Marvins : StatusWriteFails(r, m)
         \/ WorkerCrash
  PROVE  \A q \in Runs : NotBack(q)
<1> USE DEF TypeOK
<1> SUFFICES ASSUME NEW q \in Runs
             PROVE  NotBack(q)
  OBVIOUS
<1>1. live' \subseteq live /\ execution' = execution
  BY DEF StatusWriteFails, WorkerCrash
<1>2. pc'[q] = pc[q] \/ Rank(q)' < Rank(q)
  <2>1. ASSUME NEW r \in Runs, NEW m \in Marvins, StatusWriteFails(r, m)
        PROVE  pc'[q] = pc[q] \/ (pc[q] = "fanout" /\ pc'[q] = "broken")
    BY <2>1 DEF StatusWriteFails
  <2>2. \A p \in PCs : Crashed(p) = p \/ Distance(Crashed(p)) < Distance(p) \/ p = "lost"
    BY DEF Crashed, HoldingPCs, PCs, FinallyPCs, Answered, Failed, Distance
  <2>3. Crashed("lost") = "lost"
    BY DEF Crashed, HoldingPCs
  <2>4. WorkerCrash => pc'[q] = Crashed(pc[q]) /\ pc[q] \in PCs
    BY DEF WorkerCrash
  <2>5. CASE WorkerCrash
    BY <2>2, <2>3, <2>4, <2>5 DEF Rank
  <2>6. QED
    BY <2>1, <2>5 DEF Rank, Distance
<1>3. QED
  BY <1>1, <1>2, RankFalls, Untouched

\* execute_llm_tool and the workflow that waits for it: a call that was scheduled and has
\* no answer can be tried again or go on at its last attempt; and no step, a crash or
\* a failing statement among them, takes a run back, or a coroutine of a run that stays
\* where it is, while each of the worker's or the workflow's takes one on: the rank of
\* some run falls, or with all ranks kept that of a coroutine.
THEOREM CallsRunDown ==
  Spec => /\ [](\A c \in ToolCalls : Open(c) => Ready(c))
          /\ [](\A r \in Runs : Rank(r) \in Nat /\ \A m \in Marvins : Unfinished(r, m) \in Nat)
          /\ [][RunsDown]_vars
<1>1. Init => Begun
  BY LimitAssumption DEF Init, NothingUsed, Begun
<1>2. IInv /\ FanOut /\ Begun /\ [Next]_vars => Begun'
  BY BegunStep DEF IInv
<1>3. IInv /\ Begun => \A c \in ToolCalls : Open(c) => Ready(c)
  BY OpenReady DEF IInv
<1>4. \A r \in Runs : Rank(r) \in Nat /\ \A m \in Marvins : Unfinished(r, m) \in Nat
  BY RanksAreNumbers
<1>5. ASSUME IInv, FanOut, [Next]_vars
      PROVE  [RunsDown]_vars
  <2> SUFFICES ASSUME Next
               PROVE  RunsDown
    BY <1>5
  <2>1. TypeOK /\ FreshAttempts
    BY <1>5 DEF IInv
  <2>2. Working \/ (\E S \in SUBSET ToolCalls : NextBatch(S)) => \E r \in Runs : GoesOn(r)
    BY <1>5, <2>1, RunStep, CoroutineStep, ScheduleStep DEF Working
  <2>3. ASSUME (\E c \in ToolCalls : TimeOut(c)) \/ (\E m \in Marvins : DeleteMarvin(m)) \/ CompleteSession
        PROVE  \A r \in Runs : NotBack(r)
    <3>1. UNCHANGED <<pc, live, execution>>
      BY <2>3 DEF TimeOut, DeleteMarvin, CompleteSession
    <3>2. QED
      BY <3>1, Untouched
  <2>4. \A r \in Runs : NotBack(r)
    BY <1>5, <2>1, <2>3, RunStep, CoroutineStep, ScheduleStep, FaultStep DEF Next
  <2>5. QED
    BY <2>2, <2>4 DEF RunsDown
<1>6. QED
  BY <1>1, <1>2, <1>3, <1>4, <1>5, LeftBehind, InductiveInvariant, PTL DEF Spec

=============================================================================
