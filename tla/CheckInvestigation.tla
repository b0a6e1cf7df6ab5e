-------------------------- MODULE CheckInvestigation --------------------------
(***************************************************************************)
(* Investigations of one check: AutonomousInvestigationWorkflow, its       *)
(* activities load_check_context, update_check_execution,                  *)
(* create_autonomous_session and dispatch_actions, and the                 *)
(* ActionDispatcher (services/checks/actions.py).  Investigations overlap, *)
(* the schedule's having no execution yet and the admissions' a queued one;*)
(* attempts of the activities are given up while they run, and their       *)
(* writes may land later; the check may be deleted.                        *)
(*                                                                         *)
(* Row <<i, n>> is the n-th CheckExecution created for investigation i.  A *)
(* write of an attempt is a step of its own, after the read it begins with.*)
(***************************************************************************)
EXTENDS Naturals, FiniteSets

CONSTANTS
  Investigations,   \* the investigations of the check
  MaxFaults         \* bound on timeouts, crashes, exhausted retries and the deletion

ASSUME BoundsAssumption == MaxFaults \in Nat

MaxTries == 4 + MaxFaults   \* every activity once, and again for each fault
Attempts == Investigations \X (1..MaxTries)
Rows == Investigations \X (1..(MaxFaults + 1))
Actions == {"on_completion", "on_recovery"}

VARIABLES
  stage,     \* stage[i]: the activity the workflow of i is at, or how it ended
  own,       \* own[i]: execution_id of the workflow, 0 for None
  session,   \* session[i]: session_id of the workflow, 0 for None
  verdict,   \* verdict[i]: the health the investigation came to
  made,      \* made[i]: rows created for i
  row,       \* row[x]: the CheckExecution
  stamp,     \* stamp[x]: its triggered_at, as a count of the rows created before
  opened,    \* opened[i]: autonomous sessions created for i
  closed,    \* the sessions <<i, n>> that were given a final status
  recent,    \* recent[a]: the attempts that logged action a within its cooldown
  deleted,   \* whether the check is deleted, with its executions and logs
  tries,     \* tries[i]: attempts of i's activities so far
  pc,        \* pc[r]: what attempt r does next
  due,       \* due[r]: the actions attempt r of dispatch_actions still has to handle
  doing,     \* doing[r]: the action it is about to log
  lost,      \* the attempts Temporal has given up, whether they run on or not
  faults,    \* faults so far
  \* History, read by properties only.
  after,     \* after[i]: the investigations that had reported when i started
  logged,    \* the pairs <<i, a>> of an action logged for an investigation
  cooled,    \* those left out because of the cooldown
  raced      \* raced[a]: attempts that met another between its cooldown check and its log

rowVars == <<made, row, stamp>>
sessionVars == <<opened, closed>>
attemptVars == <<tries, pc, due, doing>>
historyVars == <<after, logged, cooled, raced>>
workflowVars == <<stage, own, session, verdict>>
vars == <<workflowVars, rowVars, sessionVars, recent, deleted, attemptVars, lost, faults,
          historyVars>>

-----------------------------------------------------------------------------

Health == {"unknown", "critical", "healthy"}
NoRow == [status |-> "none", health |-> "unknown", session |-> 0]

Current(i) == <<i, tries[i]>>
Own(i) == <<i, own[i]>>
Heard(r) == r \notin lost

\* Mutant: an attempt that was given up is not tried again.
Idle_NoRetry(i) == tries[i] > 0 => pc[Current(i)] = "over"

\* The workflow of i has no attempt it waits for.
Idle(i) == tries[i] > 0 => pc[Current(i)] = "over" \/ Current(i) \in lost

\* The workflow's execution exists.
Present(i) == own[i] # 0 /\ ~deleted

Reported == {"close", "actions", "completed"}
Final == {"completed", "failed", "stuck"}

\* Mutant: the execution itself counts as its predecessor.
PreviousHealth_OrItself(i) ==
  LET known == {x \in Rows : row[x].status # "none" /\ row[x].health # "unknown"}
  IN IF known = {} THEN "unknown"
     ELSE row[CHOOSE x \in known : \A y \in known : stamp[y] <= stamp[x]].health

\* _get_previous_health: of the check's other executions with a known health,
\* the one triggered last, which may be later than i's.
PreviousHealth(i) ==
  LET known == {x \in Rows \ {Own(i)} : row[x].status # "none" /\ row[x].health # "unknown"}
  IN IF known = {} THEN "unknown"
     ELSE row[CHOOSE x \in known : \A y \in known : stamp[y] <= stamp[x]].health

\* _should_dispatch
Wanted(i) == {a \in Actions :
  \/ a = "on_completion" /\ row[Own(i)].status = "completed"
  \/ a = "on_recovery" /\ row[Own(i)].health = "healthy" /\ PreviousHealth(i) = "critical"}

Init ==
  /\ stage = [i \in Investigations |-> "new"]
  /\ own = [i \in Investigations |-> 0]
  /\ session = [i \in Investigations |-> 0]
  /\ verdict = [i \in Investigations |-> "unknown"]
  /\ made = [i \in Investigations |-> 0]
  /\ row = [x \in Rows |-> NoRow]
  /\ stamp = [x \in Rows |-> 0]
  /\ opened = [i \in Investigations |-> 0]
  /\ closed = {}
  /\ recent = [a \in Actions |-> {}]
  /\ deleted = FALSE
  /\ tries = [i \in Investigations |-> 0]
  /\ pc = [r \in Attempts |-> "none"]
  /\ due = [r \in Attempts |-> {}]
  /\ doing = [r \in Attempts |-> "none"]
  /\ lost = {}
  /\ faults = 0
  /\ after = [i \in Investigations |-> {}]
  /\ logged = {}
  /\ cooled = {}
  /\ raced = [a \in Actions |-> {}]

Fault == faults < MaxFaults /\ faults' = faults + 1
Goto(r, p) == pc' = [pc EXCEPT ![r] = p]
Stage(i, s) == stage' = [stage EXCEPT ![i] = s]
\* Where the workflow goes with the result of r, if it still waits for it.
Answer(r, s) == IF Heard(r) THEN Stage(r[1], s) ELSE UNCHANGED stage

\* A new row of i, triggered now.
NewRow(i, status) ==
  LET x == <<i, made[i] + 1>> IN
  /\ made' = [made EXCEPT ![i] = @ + 1]
  /\ row' = [row EXCEPT ![x] = [NoRow EXCEPT !.status = status]]
  /\ stamp' = [stamp EXCEPT ![x] = Cardinality({y \in Rows : row[y].status # "none"}) + 1]

-----------------------------------------------------------------------------
(* The workflow, between its activities. *)

\* An admission passes the queued execution it created; a schedule and a user who
\* triggers the check by hand pass none.
Start(i) ==
  /\ stage[i] = "new" /\ ~deleted
  /\ Stage(i, "context")
  /\ after' = [after EXCEPT ![i] = {j \in Investigations : stage[j] \in Reported}]
  /\ \/ NewRow(i, "queued") /\ own' = [own EXCEPT ![i] = 1]
     \/ UNCHANGED <<rowVars, own>>
  /\ UNCHANGED <<session, verdict, sessionVars, recent, deleted, attemptVars, lost, faults,
                 logged, cooled, raced>>

\* load_check_context: a check that is gone, or three failed attempts, end the
\* workflow before its execution is touched.
LoadContext(i) ==
  /\ stage[i] = "context"
  /\ \/ Stage(i, IF deleted THEN "failed" ELSE "run") /\ UNCHANGED faults
     \/ Stage(i, "failed") /\ Fault
  /\ UNCHANGED <<own, session, verdict, rowVars, sessionVars, recent, deleted, attemptVars,
                 lost, historyVars>>

\* The three attempts of create_autonomous_session have all failed.
CannotOpen(i) ==
  /\ stage[i] = "session" /\ Idle(i)
  /\ Fault
  /\ Stage(i, "fail")
  /\ UNCHANGED <<own, session, verdict, rowVars, sessionVars, recent, deleted, attemptVars,
                 lost, historyVars>>

\* The rounds are over, or too many: _parse_evaluation reads a health out of the
\* last answer, "unknown" if there is none.
Evaluate(i) ==
  /\ Stage(i, "complete")
  /\ \E h \in Health : verdict' = [verdict EXCEPT ![i] = h]

\* The rounds with the model: an evaluation, or an exception.
Investigate(i) ==
  /\ stage[i] = "investigate"
  /\ \/ Evaluate(i)
     \/ Stage(i, "fail") /\ UNCHANGED verdict
  /\ UNCHANGED <<own, session, rowVars, sessionVars, recent, deleted, attemptVars, lost,
                 faults, historyVars>>

\* set_session_status; there may be no session to set after a failure.
Close(i) ==
  /\ stage[i] \in {"close", "close_failed"}
  /\ Stage(i, IF stage[i] = "close" THEN "actions" ELSE "failed")
  /\ closed' = IF session[i] = 0 THEN closed ELSE closed \cup {<<i, session[i]>>}
  /\ UNCHANGED <<own, session, verdict, rowVars, opened, recent, deleted, attemptVars, lost,
                 faults, historyVars>>

-----------------------------------------------------------------------------
(* An attempt of an activity, up to the end of its reads. *)

NextAttempt(i, p) ==
  /\ tries' = [tries EXCEPT ![i] = @ + 1]
  /\ pc' = [pc EXCEPT ![<<i, tries[i] + 1>>] = p]

\* update_check_execution(RUNNING): nothing to do for a row that runs, or is gone
\* with its check.
BeginRun(i) ==
  /\ stage[i] = "run" /\ Idle(i)
  /\ \/ /\ deleted \/ (Present(i) /\ row[Own(i)].status = "running")
        /\ NextAttempt(i, "over") /\ Stage(i, "session")
     \/ /\ ~deleted /\ ~(Present(i) /\ row[Own(i)].status = "running")
        /\ NextAttempt(i, IF own[i] = 0 THEN "creating" ELSE "starting") /\ UNCHANGED stage
  /\ UNCHANGED <<own, session, verdict, rowVars, sessionVars, recent, deleted, due, doing,
                 lost, faults, historyVars>>

\* create_autonomous_session: an execution that names its session has it already.
BeginOpen(i) ==
  /\ stage[i] = "session" /\ Idle(i)
  /\ \/ /\ ~Present(i)
        /\ NextAttempt(i, "over") /\ Stage(i, "fail")
        /\ UNCHANGED session
     \/ /\ Present(i) /\ row[Own(i)].session # 0
        /\ NextAttempt(i, "over") /\ Stage(i, "investigate")
        /\ session' = [session EXCEPT ![i] = row[Own(i)].session]
     \/ /\ Present(i) /\ row[Own(i)].session = 0
        /\ NextAttempt(i, "opening")
        /\ UNCHANGED <<stage, session>>
  /\ UNCHANGED <<own, verdict, rowVars, sessionVars, recent, deleted, due, doing, lost, faults,
                 historyVars>>

\* update_check_execution(COMPLETED or FAILED)
BeginReport(i) ==
  /\ stage[i] \in {"complete", "fail"} /\ Idle(i)
  /\ LET next == IF stage[i] = "complete" THEN "close" ELSE "close_failed" IN
     IF Present(i) THEN NextAttempt(i, IF stage[i] = "complete" THEN "completing" ELSE "failing")
                        /\ UNCHANGED stage
                   ELSE NextAttempt(i, "over") /\ Stage(i, next)
  /\ UNCHANGED <<own, session, verdict, rowVars, sessionVars, recent, deleted, due, doing,
                 lost, faults, historyVars>>

\* dispatch_actions; without its check every attempt fails, for ever.
BeginActions(i) ==
  /\ stage[i] = "actions" /\ Idle(i)
  /\ IF deleted
       THEN Stage(i, "stuck") /\ UNCHANGED attemptVars
       ELSE /\ NextAttempt(i, "acting")
            /\ due' = [due EXCEPT ![<<i, tries[i] + 1>>] = Wanted(i)]
            /\ UNCHANGED <<stage, doing>>
  /\ UNCHANGED <<own, session, verdict, rowVars, sessionVars, recent, deleted, lost, faults,
                 historyVars>>

-----------------------------------------------------------------------------
(* The writes of an attempt, which may be one that was given up.  Every write *)
(* to a row whose check is gone fails, and the attempt with it.               *)

\* The whole row is saved: the status, and a result without the session.
Save(r, status, health) ==
  row' = [row EXCEPT ![Own(r[1])] = [status |-> status, health |-> health, session |-> 0]]

WriteRow(r, p, status, health, next) ==
  /\ pc[r] = p
  /\ Goto(r, "over")
  /\ IF deleted THEN UNCHANGED <<row, stage>> ELSE Save(r, status, health) /\ Answer(r, next)
  /\ UNCHANGED <<own, session, verdict, made, stamp, sessionVars, recent, deleted, tries, due,
                 doing, lost, faults, historyVars>>

SaveRunning(r) == WriteRow(r, "starting", "running", "unknown", "session")
SaveCompleted(r) == WriteRow(r, "completing", "completed", verdict[r[1]], "close")
SaveFailed(r) == WriteRow(r, "failing", "failed", "unknown", "close_failed")

\* Mutant: the identifier of the new row does not reach the workflow.
CreateRow_NoId(r) ==
  /\ pc[r] = "creating"
  /\ Goto(r, "over")
  /\ IF deleted THEN UNCHANGED <<rowVars, stage>>
                ELSE NewRow(r[1], "running") /\ Answer(r, "session")
  /\ UNCHANGED <<own, session, verdict, sessionVars, recent, deleted, tries, due, doing, lost,
                 faults, historyVars>>

\* Without an identifier every attempt creates a row of its own.
CreateRow(r) ==
  /\ pc[r] = "creating"
  /\ Goto(r, "over")
  /\ IF deleted
       THEN UNCHANGED <<rowVars, stage, own>>
       ELSE /\ NewRow(r[1], "running")
            /\ Answer(r, "session")
            /\ own' = IF Heard(r) THEN [own EXCEPT ![r[1]] = made[r[1]] + 1] ELSE own
  /\ UNCHANGED <<session, verdict, sessionVars, recent, deleted, tries, due, doing, lost,
                 faults, historyVars>>

\* One transaction: the session, its thread and message, and their names in the
\* execution's result; nothing keeps two attempts from creating one each.
OpenSession(r) ==
  LET i == r[1] IN
  /\ pc[r] = "opening"
  /\ Goto(r, "over")
  /\ IF deleted
       THEN UNCHANGED <<opened, row, stage, session>>
       ELSE /\ opened' = [opened EXCEPT ![i] = @ + 1]
            /\ row' = [row EXCEPT ![Own(i)].session = opened[i] + 1]
            /\ Answer(r, "investigate")
            /\ session' = IF Heard(r) THEN [session EXCEPT ![i] = opened[i] + 1] ELSE session
  /\ UNCHANGED <<own, verdict, made, stamp, closed, recent, deleted, tries, due, doing, lost,
                 faults, historyVars>>

\* Mutant: only actions that were sent count, and none is marked sent.
CoolingDown_SentOnly(a) == FALSE

\* _is_duplicate_suppressed
CoolingDown(a) == recent'[a] # {}

\* The cooldown of a due action is looked up; some logs are out of it by now.
CheckCooldown(r) ==
  /\ pc[r] = "acting"
  /\ \E a \in due[r] :
       /\ \E keep \in SUBSET recent[a] : recent' = [recent EXCEPT ![a] = keep]
       /\ \/ /\ CoolingDown(a)
             /\ due' = [due EXCEPT ![r] = @ \ {a}]
             /\ cooled' = cooled \cup {<<r[1], a>>}
             /\ UNCHANGED <<pc, doing, raced>>
          \/ /\ ~CoolingDown(a)
             /\ Goto(r, "logging")
             /\ doing' = [doing EXCEPT ![r] = a]
             /\ raced' = IF \E q \in Attempts : pc[q] = "logging" /\ doing[q] = a
                           THEN [raced EXCEPT ![a] = @ \cup {r}] ELSE raced
             /\ UNCHANGED <<due, cooled>>
  /\ UNCHANGED <<workflowVars, rowVars, sessionVars, deleted, tries, lost, faults, after,
                 logged>>

CreateActionLog(r) ==
  /\ pc[r] = "logging"
  /\ IF deleted
       THEN Goto(r, "over") /\ UNCHANGED <<due, recent, logged>>
       ELSE /\ Goto(r, "acting")
            /\ due' = [due EXCEPT ![r] = @ \ {doing[r]}]
            /\ recent' = [recent EXCEPT ![doing[r]] = @ \cup {r}]
            /\ logged' = logged \cup {<<r[1], doing[r]>>}
  /\ UNCHANGED <<workflowVars, rowVars, sessionVars, deleted, tries, doing, lost, faults, after,
                 cooled, raced>>

\* All actions handled, the notification of the execution is created, whose
\* failures are swallowed (its delivery is NotificationDelivery).
Notify(r) ==
  /\ pc[r] = "acting" /\ due[r] = {}
  /\ Goto(r, "over")
  /\ Answer(r, "completed")
  /\ UNCHANGED <<own, session, verdict, rowVars, sessionVars, recent, deleted, tries, due,
                 doing, lost, faults, historyVars>>

-----------------------------------------------------------------------------
(* Faults *)

\* The time of an attempt is over, or its worker died.
GiveUp(i) ==
  /\ tries[i] > 0 /\ Current(i) \notin lost /\ pc[Current(i)] # "over"
  /\ Fault
  /\ lost' = lost \cup {Current(i)}
  /\ UNCHANGED <<workflowVars, rowVars, sessionVars, recent, deleted, attemptVars, historyVars>>

DeleteCheck ==
  /\ ~deleted
  /\ Fault
  /\ deleted' = TRUE
  /\ UNCHANGED <<workflowVars, rowVars, sessionVars, recent, attemptVars, lost, historyVars>>

-----------------------------------------------------------------------------

Advance(i) == LoadContext(i) \/ Investigate(i) \/ Close(i)
Begin(i) == BeginRun(i) \/ BeginOpen(i) \/ BeginReport(i) \/ BeginActions(i)
Step(r) == \/ SaveRunning(r) \/ SaveCompleted(r) \/ SaveFailed(r) \/ CreateRow(r)
           \/ OpenSession(r) \/ CheckCooldown(r) \/ CreateActionLog(r) \/ Notify(r)

Next ==
  \/ \E i \in Investigations : \/ Start(i) \/ Advance(i) \/ Begin(i)
                               \/ CannotOpen(i) \/ GiveUp(i)
  \/ \E r \in Attempts : Step(r)
  \/ DeleteCheck

Spec == Init /\ [][Next]_vars

\* Temporal advances a workflow that was started and runs its activities, those
\* given up again; nothing is said of the attempts it has given up.
FairSpec ==
  /\ Spec
  /\ \A i \in Investigations :
       /\ WF_vars(Advance(i) \/ Begin(i))
       /\ WF_vars(tries[i] > 0 /\ Heard(Current(i)) /\ Step(Current(i)))

-----------------------------------------------------------------------------
(* Properties *)

Stages == {"new", "context", "run", "session", "investigate", "complete", "fail", "close",
           "close_failed", "actions"} \cup Final

TypeOK ==
  /\ stage \in [Investigations -> Stages]
  /\ own \in [Investigations -> 0..(MaxFaults + 1)]
  /\ session \in [Investigations -> 0..(MaxFaults + 1)]
  /\ verdict \in [Investigations -> Health]
  /\ made \in [Investigations -> 0..(MaxFaults + 1)]
  /\ row \in [Rows -> [status : {"none", "queued", "running", "completed", "failed"},
                       health : Health, session : 0..(MaxFaults + 1)]]
  /\ stamp \in [Rows -> Nat]
  /\ opened \in [Investigations -> 0..(MaxFaults + 1)]
  /\ closed \subseteq Investigations \X (1..(MaxFaults + 1))
  /\ recent \in [Actions -> SUBSET Attempts]
  /\ deleted \in BOOLEAN
  /\ tries \in [Investigations -> 0..MaxTries]
  /\ pc \in [Attempts -> {"none", "starting", "creating", "opening", "completing", "failing",
                          "acting", "logging", "over"}]
  /\ due \in [Attempts -> SUBSET Actions]
  /\ doing \in [Attempts -> Actions \cup {"none"}]
  /\ lost \subseteq Attempts
  /\ faults \in 0..MaxFaults
  /\ after \in [Investigations -> SUBSET Investigations]
  /\ logged \subseteq Investigations \X Actions
  /\ cooled \subseteq Investigations \X Actions
  /\ raced \in [Actions -> SUBSET Attempts]

\* Attempts of i that were given up.
GivenUp(i) == {r \in lost : r[1] = i}

\* update_check_execution, create_autonomous_session: an investigation has one
\* execution and one session, and one more of each only for an attempt that was
\* given up; when it ends without such an attempt its execution has ended as it
\* did (queued still, if its context could not be loaded), and so has its session.
RowsAccountedFor ==
  \A i \in Investigations :
    /\ made[i] <= 1 + Cardinality(GivenUp(i)) /\ opened[i] <= 1 + Cardinality(GivenUp(i))
    /\ stage[i] \in Final /\ GivenUp(i) = {} /\ ~deleted =>
         /\ \A x \in Rows : x[1] = i =>
              row[x].status \in IF stage[i] = "completed" THEN {"none", "completed"}
                                                          ELSE {"none", "failed", "queued"}
         /\ Cardinality({c \in closed : c[1] = i}) = opened[i]

\* ActionDispatcher, on_recovery: when a check was critical and the next
\* investigation, started after that was reported, finds it healthy, the recovery
\* is logged or the cooldown of an earlier one covers it, unless an attempt of
\* either was given up.
RecoveryNotified ==
  \A i \in Investigations : \A j \in after[i] :
    /\ stage[i] = "completed" /\ verdict[i] = "healthy" /\ verdict[j] = "critical"
    /\ GivenUp(i) = {} /\ GivenUp(j) = {} /\ ~deleted
    /\ \A k \in Investigations \ {i, j} : stage[k] = "new"
    => <<i, "on_recovery">> \in logged \cup cooled

\* ActionDispatcher._is_duplicate_suppressed: of the logs of an action within its
\* cooldown at most one was written by an attempt that met no other between its
\* check and its log.
CooldownHeld == \A a \in Actions : Cardinality(recent[a] \ raced[a]) <= 1

\* An investigation that starts ends, or is stuck on its deleted check.
InvestigationsEnd == \A i \in Investigations : stage[i] = "context" ~> stage[i] \in Final
=============================================================================
