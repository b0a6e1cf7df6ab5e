--------------------------- MODULE ToolExecution ---------------------------
(***************************************************************************)
(* The execute_tool calls of one troubleshooting session.                  *)
(*                                                                         *)
(* The workflow sends the tool calls of an LLM answer as execute_llm_tool  *)
(* activities, a batch at a time and in parallel.  Each attempt of an      *)
(* activity (a "run") resolves its targets, reserves a slot of the         *)
(* session's execution budget, writes a ToolCall row and one Execution row *)
(* per target, fans out one coroutine per target, and gives the slot back. *)
(* Every database statement may fail, the worker process may die, Temporal *)
(* may time an attempt out and start another while the first still runs,   *)
(* Marvins are deleted by operators, and the creator may close the session *)
(* at any moment.                                                          *)
(***************************************************************************)
EXTENDS Integers, FiniteSets

CONSTANTS
  ToolCalls,           \* the execute_tool calls the LLM asks for in the session
  Marvins,             \* the agents registered at the start
  MaxExecutions,       \* max_executions_per_session
  MaxTargets,          \* max_targets_per_session
  MaxConcurrent,       \* max_concurrent_executions
  AbsoluteMaxTargets,  \* the capability policy's absolute_max_targets
  MaxAttempts,         \* maximum_attempts of the activity's retry policy
  MaxParallel,         \* MAX_PARALLEL_TOOL_CALLS
  MaxFaults            \* bound on failed statements, crashes and timeouts

ASSUME SessionAssumption ==
  /\ IsFiniteSet(ToolCalls)
  /\ IsFiniteSet(Marvins)

ASSUME LimitAssumption ==
  /\ {MaxExecutions, MaxTargets, MaxConcurrent} \subseteq Nat \ {0}
  /\ {AbsoluteMaxTargets, MaxAttempts, MaxParallel} \subseteq Nat \ {0}
  /\ MaxFaults \in Nat

VARIABLES
  budget,     \* TSession.execution_budget, a row every reservation locks
  marvins,    \* the Marvin rows that exist
  batch,      \* the calls of the current asyncio.gather of the workflow
  attempt,    \* the last attempt Temporal scheduled of each call, 0 for none
  timedOut,   \* the runs Temporal gave up waiting for
  pc,         \* where each run stands in execute_llm_tool
  snapshot,   \* ResolvedTargetSet.snapshot of each run
  targets,    \* marvin_ids: the targets the run really fans out to
  toolCall,   \* ToolCall.status of the row each run creates
  execution,  \* Execution.status of the rows each run creates; "ended" is
              \* COMPLETED or FAILED
  live,       \* the fan-out coroutines <<run, marvin>> that are not finished
  faults      \* faults so far

workflowVars == <<batch, attempt, timedOut>>
rowVars == <<toolCall, execution>>
vars == <<budget, marvins, batch, attempt, timedOut, pc, snapshot, targets,
          toolCall, execution, live, faults>>

-----------------------------------------------------------------------------

Runs == ToolCalls \X (1 .. MaxAttempts)

\* Where a run that holds a reservation can be.  A "broken" run has seen its
\* gather raise; a "lost" one ended with no release.
HoldingPCs ==
  {"reserved", "routed", "fanout", "broken", "lost"}

\* The `finally` of the activity ran: only the fanned-out targets were released.
FinallyPCs == {"released", "fanout_failed", "completed"}

Answered == {"refused", "returned", "completed"}
Failed == {"aborted", "route_failed", "fanout_failed", "lost"}

PCs == {"idle", "resolving"} \cup HoldingPCs \cup FinallyPCs
       \cup Answered \cup Failed

\* The reservations nobody has given back, and what is charged for them.
Holding == {r \in Runs : pc[r] \in HoldingPCs}
Reserved == {r \in Runs : pc[r] \notin {"idle", "resolving", "refused", "aborted"}}
Charged ==
  {rm \in Runs \X Marvins :
     /\ rm[2] \in snapshot[rm[1]]
     /\ \/ pc[rm[1]] \in HoldingPCs
        \/ pc[rm[1]] \in FinallyPCs /\ rm[2] \notin targets[rm[1]]}

\* What the workflow sees of a call: the answer of its last attempt, or the
\* failure of the last attempt it is allowed.
LastRun(c) == <<c, attempt[c]>>
AttemptFailed_NoCrash(c) ==  \* mutant: a crashed attempt is never noticed
  attempt[c] > 0 /\ (LastRun(c) \in timedOut \/ pc[LastRun(c)] \in Failed \ {"lost"})
AttemptFailed(c) == attempt[c] > 0 /\ (LastRun(c) \in timedOut \/ pc[LastRun(c)] \in Failed)
Settled(c) ==
  /\ attempt[c] > 0
  /\ IF AttemptFailed(c) THEN attempt[c] = MaxAttempts ELSE pc[LastRun(c)] \in Answered

-----------------------------------------------------------------------------

\* SessionBudget's counters under select_for_update.
Clamp(n) == IF n < 0 THEN 0 ELSE n

\* Mutants of the two operators below: a limit compared with <=, the targets
\* asked for not counted, a slot or the targets not given back.
WithinBudget_OffByOne(n) ==
  /\ budget.executions_used <= MaxExecutions
  /\ budget.targets_used + n <= MaxTargets
  /\ budget.concurrent_running < MaxConcurrent

WithinBudget_IgnoresRequest(n) ==
  /\ budget.executions_used < MaxExecutions
  /\ budget.targets_used < MaxTargets
  /\ budget.concurrent_running < MaxConcurrent

ReleaseBudget_KeepsSlot(n) ==
  budget' = [budget EXCEPT !.targets_used = Clamp(@ - n)]

ReleaseBudget_KeepsTargets(n) ==
  budget' = [budget EXCEPT !.concurrent_running = Clamp(@ - 1)]

WithinBudget(n) ==
  /\ budget.executions_used < MaxExecutions
  /\ budget.targets_used + n <= MaxTargets
  /\ budget.concurrent_running < MaxConcurrent

ReserveBudget(n) ==
  budget' = [executions_used |-> budget.executions_used + 1,
             targets_used |-> budget.targets_used + n,
             concurrent_running |-> budget.concurrent_running + 1]

ReleaseBudget(n) ==
  budget' = [executions_used |-> budget.executions_used,
             targets_used |-> Clamp(budget.targets_used - n),
             concurrent_running |-> Clamp(budget.concurrent_running - 1)]

\* What a session starts with: an empty execution_budget.
NothingUsed == [executions_used |-> 0, targets_used |-> 0, concurrent_running |-> 0]

Goto(r, p) == pc' = [pc EXCEPT ![r] = p]
Fault == faults < MaxFaults /\ faults' = faults + 1

-----------------------------------------------------------------------------

Init ==
  /\ budget = NothingUsed
  /\ marvins = Marvins
  /\ batch = {}
  /\ attempt = [c \in ToolCalls |-> 0]
  /\ timedOut = {}
  /\ pc = [r \in Runs |-> "idle"]
  /\ snapshot = [r \in Runs |-> {}]
  /\ targets = [r \in Runs |-> {}]
  /\ toolCall = [r \in Runs |-> "none"]
  /\ execution = [r \in Runs |-> [m \in Marvins |-> "none"]]
  /\ live = {}
  /\ faults = 0

\* The workflow gathers a whole batch before it starts the next one.
NextBatch(S) ==
  /\ \A c \in batch : Settled(c)
  /\ S # {} /\ Cardinality(S) <= MaxParallel
  /\ \A c \in S : attempt[c] = 0
  /\ batch' = S
  /\ attempt' = [c \in ToolCalls |-> IF c \in S THEN 1 ELSE attempt[c]]
  /\ pc' = [r \in Runs |-> IF r[1] \in S /\ r[2] = 1 THEN "resolving" ELSE pc[r]]
  /\ UNCHANGED <<budget, marvins, timedOut, snapshot, targets, rowVars, live, faults>>

\* Temporal starts another attempt of a call whose attempt failed.
Retry(c) ==
  /\ AttemptFailed(c) /\ attempt[c] < MaxAttempts
  /\ attempt' = [attempt EXCEPT ![c] = @ + 1]
  /\ Goto(<<c, attempt[c] + 1>>, "resolving")
  /\ UNCHANGED <<budget, marvins, batch, timedOut, snapshot, targets, rowVars, live, faults>>

\* The model is answered, and nothing reserved: BudgetExceeded or another
\* DiscoveryError, or a tool of the server's own (raise_notification, find_tools).
Refuse(r) == Goto(r, "refused") /\ UNCHANGED <<budget, snapshot>>

\* DiscoveryEngine.resolve_targets, then check_execution_policy with the
\* session: any set of registered Marvins the policy allows may be the one online
\* and selected; its size is reserved.  (A Marvin deleted between the two is one
\* deleted right after: the reservation does not read the Marvins.)
Resolve(r) ==
  /\ pc[r] = "resolving"
  /\ \/ \E S \in SUBSET marvins :
          /\ Cardinality(S) <= AbsoluteMaxTargets /\ WithinBudget(Cardinality(S))
          /\ ReserveBudget(Cardinality(S))
          /\ snapshot' = [snapshot EXCEPT ![r] = S]
          /\ Goto(r, "reserved")
     \/ Refuse(r)
  /\ UNCHANGED <<marvins, workflowVars, targets, rowVars, live, faults>>

\* fanout.resolve_targets keeps the Marvins of the snapshot that still exist;
\* _route_and_execute gives the reservation back and returns an error if none
\* is left to run on, else it creates the ToolCall row.
Route(r) ==
  /\ pc[r] = "reserved"
  /\ targets' = [targets EXCEPT ![r] = snapshot[r] \cap marvins]
  /\ IF targets'[r] = {}
     THEN ReleaseBudget(Cardinality(snapshot[r])) /\ Goto(r, "returned") /\ UNCHANGED toolCall
     ELSE /\ toolCall' = [toolCall EXCEPT ![r] = "in_progress"]
          /\ Goto(r, "routed") /\ UNCHANGED budget
  /\ UNCHANGED <<marvins, workflowVars, snapshot, execution, live, faults>>

\* _create_executions, then asyncio.gather schedules a coroutine per target.
CreateExecutions(r) ==
  /\ pc[r] = "routed"
  /\ execution' = [execution EXCEPT ![r] =
                     [m \in Marvins |-> IF m \in targets[r] THEN "pending" ELSE @[m]]]
  /\ live' = live \cup ({r} \X targets[r])
  /\ Goto(r, "fanout")
  /\ UNCHANGED <<budget, marvins, workflowVars, snapshot, targets, toolCall, faults>>

\* A coroutine marks its row running and sends the command to its Marvin.
StartOne(r, m) ==
  /\ <<r, m>> \in live /\ execution[r][m] = "pending"
  /\ execution' = [execution EXCEPT ![r][m] = "running"]
  /\ UNCHANGED <<budget, marvins, workflowVars, pc, snapshot, targets, toolCall, live, faults>>

\* The Marvin answered, or is unknown, not connected or too slow (300 s).
FinishOne(r, m) ==
  /\ <<r, m>> \in live /\ execution[r][m] = "running"
  /\ execution' = [execution EXCEPT ![r][m] = "ended"]
  /\ live' = live \ {<<r, m>>}
  /\ UNCHANGED <<budget, marvins, workflowVars, pc, snapshot, targets, toolCall, faults>>

\* Mutant of Gathered: the first coroutine to end ends the gather.
Gathered_First(r) == pc[r] = "fanout" /\ \E m \in targets[r] : <<r, m>> \notin live

\* gather returns when every coroutine has, or raises.  The finally clause then
\* releases as many targets as were fanned out to.
Gathered(r) == pc[r] = "fanout" /\ \A m \in targets[r] : <<r, m>> \notin live

Release(r) ==
  /\ Gathered(r) \/ pc[r] = "broken"
  /\ ReleaseBudget(Cardinality(targets[r]))
  /\ Goto(r, IF pc[r] = "broken" THEN "fanout_failed" ELSE "released")
  /\ UNCHANGED <<marvins, workflowVars, snapshot, targets, rowVars, live, faults>>

CompleteToolCall(r) ==
  /\ pc[r] = "released"
  /\ toolCall' = [toolCall EXCEPT ![r] = "completed"]
  /\ Goto(r, "completed")
  /\ UNCHANGED <<budget, marvins, workflowVars, snapshot, targets, execution, live, faults>>

-----------------------------------------------------------------------------
(* Faults and the other actors. *)

\* A database statement of the run raises.  Before the reservation nothing is
\* held.  _route_and_execute releases the reservation if it raises inside its
\* own try; a failure before that (the Marvin query of fanout.resolve_targets,
\* the release of an empty snapshot), a release that fails, and a failure of
\* _create_executions leave the reservation behind.
StatementFails(r) ==
  /\ Fault
  /\ \/ /\ pc[r] = "resolving"
        /\ Goto(r, "aborted") /\ UNCHANGED <<budget, execution>>
     \/ /\ pc[r] \in {"reserved", "broken"} \/ Gathered(r)
        /\ Goto(r, "lost") /\ UNCHANGED <<budget, execution>>
     \/ /\ pc[r] = "reserved" /\ snapshot[r] # {}
        /\ ReleaseBudget(Cardinality(snapshot[r]))
        /\ Goto(r, "route_failed") /\ UNCHANGED execution
     \/ /\ pc[r] = "routed"
        /\ \E created \in SUBSET targets[r] :
             execution' = [execution EXCEPT ![r] =
                             [m \in Marvins |-> IF m \in created THEN "pending" ELSE @[m]]]
        /\ Goto(r, "lost") /\ UNCHANGED budget
     \/ /\ pc[r] = "released"
        /\ Goto(r, "fanout_failed") /\ UNCHANGED <<budget, execution>>
  /\ UNCHANGED <<marvins, workflowVars, snapshot, targets, toolCall, live>>

\* A coroutine's status write raises: gather raises at once in the activity
\* and leaves the sibling coroutines running.
StatusWriteFails(r, m) ==
  /\ Fault
  /\ <<r, m>> \in live
  /\ live' = live \ {<<r, m>>}
  /\ pc' = [pc EXCEPT ![r] = IF @ = "fanout" THEN "broken" ELSE @]
  /\ UNCHANGED <<budget, marvins, workflowVars, snapshot, targets, rowVars>>

\* start_to_close_timeout elapses while the run waits for its Marvins ...
TimeOut(c) ==
  /\ Fault
  /\ attempt[c] > 0 /\ pc[LastRun(c)] = "fanout"
  /\ timedOut' = timedOut \cup {LastRun(c)}
  /\ UNCHANGED <<budget, marvins, batch, attempt, pc, snapshot, targets, rowVars, live>>

\* ... and a little later the worker cancels the run: the CancelledError goes
\* through every coroutine, past their `except Exception`.
Cancel(r) ==
  /\ r \in timedOut /\ pc[r] = "fanout"
  /\ Goto(r, "broken")
  /\ live' = live \ ({r} \X Marvins)
  /\ UNCHANGED <<budget, marvins, workflowVars, snapshot, targets, rowVars, faults>>

\* The process that hosts the worker dies with all its runs and coroutines.
Crashed(p) ==
  CASE p = "resolving" -> "aborted"
    [] p \in HoldingPCs -> "lost"
    [] p = "released" -> "fanout_failed"
    [] OTHER -> p

WorkerCrash ==
  /\ Fault
  /\ pc' = [r \in Runs |-> Crashed(pc[r])]
  /\ live' = {}
  /\ UNCHANGED <<budget, marvins, workflowVars, snapshot, targets, rowVars>>

\* MarvinDeleteView
DeleteMarvin(m) ==
  /\ m \in marvins
  /\ marvins' = marvins \ {m}
  /\ UNCHANGED <<budget, workflowVars, pc, snapshot, targets, rowVars, live, faults>>

\* SessionCompleteView fails every tool call that is pending or in progress.
CompleteSession ==
  /\ \E r \in Runs : toolCall[r] = "in_progress"
  /\ toolCall' = [r \in Runs |-> IF toolCall[r] = "in_progress" THEN "failed" ELSE toolCall[r]]
  /\ UNCHANGED <<budget, marvins, workflowVars, pc, snapshot, targets, execution, live, faults>>

-----------------------------------------------------------------------------

Step(r) ==
  \/ Resolve(r) \/ Route(r)
  \/ CreateExecutions(r) \/ Release(r) \/ CompleteToolCall(r)

Coroutine(r, m) == StartOne(r, m) \/ FinishOne(r, m)

Next ==
  \/ \E S \in SUBSET ToolCalls : NextBatch(S)
  \/ \E c \in ToolCalls : Retry(c) \/ TimeOut(c)
  \/ \E r \in Runs : Step(r) \/ StatementFails(r) \/ Cancel(r)
  \/ \E r \in Runs, m \in Marvins : Coroutine(r, m) \/ StatusWriteFails(r, m)
  \/ \E m \in Marvins : DeleteMarvin(m)
  \/ WorkerCrash
  \/ CompleteSession

Spec == Init /\ [][Next]_vars

\* As long as the worker can go on with something it started, or Temporal with a
\* retry, some such step is taken.  Each makes progress, so that none is put off
\* for ever.  Nothing obliges the LLM, the operators or the faults to act.
Working ==
  \/ \E c \in ToolCalls : Retry(c)
  \/ \E r \in Runs : Step(r) \/ Cancel(r) \/ \E m \in Marvins : Coroutine(r, m)

Fairness == WF_vars(Working)

FairSpec == Spec /\ Fairness

-----------------------------------------------------------------------------
(* Properties. *)

TypeOK ==
  /\ budget \in [executions_used : Nat, targets_used : Nat, concurrent_running : Nat]
  /\ marvins \subseteq Marvins
  /\ batch \subseteq ToolCalls
  /\ attempt \in [ToolCalls -> 0 .. MaxAttempts]
  /\ timedOut \subseteq Runs
  /\ pc \in [Runs -> PCs]
  /\ snapshot \in [Runs -> SUBSET Marvins]
  /\ targets \in [Runs -> SUBSET Marvins]
  /\ toolCall \in [Runs -> {"none", "in_progress", "completed", "failed"}]
  /\ execution \in [Runs -> [Marvins -> {"none", "pending", "running", "ended"}]]
  /\ live \subseteq Runs \X Marvins
  /\ faults \in 0 .. MaxFaults

\* The counters of the budget row are exact at every moment: one slot per
\* reservation nobody gave back, one unit per target charged, one execution per
\* reservation ever made.  So no release is ever doubled or clamped by max(0, _).
BudgetAccounting ==
  /\ budget.concurrent_running = Cardinality(Holding)
  /\ budget.targets_used = Cardinality(Charged)
  /\ budget.executions_used = Cardinality(Reserved)

\* The runs that are really in progress, and all they are charged for, respect
\* the session's limits whatever fails and however attempts overlap.
WithinLimits ==
  /\ Cardinality(Holding) <= MaxConcurrent
  /\ Cardinality(Charged) <= MaxTargets
  /\ Cardinality(Reserved) <= MaxExecutions

\* A run that answers its tool call leaves nothing behind: each of its Execution
\* rows is final and none of its coroutines still runs.  (A gather that raised
\* does leave coroutines behind; such a run never marks its call completed.)
CompletedIsWhole ==
  \A r \in Runs : pc[r] \in {"released", "completed"} =>
    \A m \in targets[r] :
      /\ <<r, m>> \notin live
      /\ execution[r][m] = "ended"

\* Without faults the budget comes back: when every run has ended, no slot is
\* held, and what stays charged are targets that were deleted in between.
QuiescentBudget ==
  (faults = 0 /\ \A r \in Runs : pc[r] \in Answered \cup {"idle"}) =>
    /\ budget.concurrent_running = 0
    /\ \A rm \in Charged : rm[2] \notin marvins

\* The execution budget is a slot pool over the runs.
Pool == INSTANCE SlotPool WITH
  Holders <- Runs, Units <- Marvins,
  MaxHeld <- MaxConcurrent, MaxCharged <- MaxTargets, MaxGrants <- MaxExecutions,
  held <- Holding, charged <- Charged, granted <- Reserved

ImplementsPool == Pool!PoolSpec

\* Every tool call the workflow schedules gets an answer or runs out of attempts,
\* through crashes, timeouts and failing statements: from any moment on, one comes
\* at which no call that was scheduled is open.
Open(c) == attempt[c] > 0 /\ ~Settled(c)
CallsSettle == []<>(\A c \in ToolCalls : ~Open(c))

\* README: a ToolCall goes "pending -> in_progress -> completed/failed", so a
\* final status is final.
ToolCallLifecycle ==
  [][\A r \in Runs :
       toolCall[r] \in {"completed", "failed"} => toolCall'[r] = toolCall[r]]_toolCall

=============================================================================
