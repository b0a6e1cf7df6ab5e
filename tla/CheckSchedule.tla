---------------------------- MODULE CheckSchedule ----------------------------
(***************************************************************************)
(* A check and its Temporal schedule (services/checks/scheduler.py): the   *)
(* requests of apps/checks/views.py and api_views.py save the check, then  *)
(* bring the schedule into line with the copy they hold; what Temporal     *)
(* raises is swallowed.  Requests overlap, each reads the whole row and    *)
(* saves the whole row, and fix_check_schedules may run beside them.       *)
(***************************************************************************)
EXTENDS Naturals, FiniteSets

CONSTANTS
  Requests,      \* the requests made
  Expressions,   \* schedule expressions, of intervals and crons alike
  Invalid,       \* those no schedule can be built from; the pages do not reject them
  MaxFailures,   \* bound on calls of Temporal that fail
  NoCheck,       \* the check does not exist
  NoSchedule     \* Temporal has no schedule of its name

ASSUME FailuresAssumption == MaxFailures \in Nat
ASSUME InvalidAssumption == Invalid \subseteq Expressions

Checks == [enabled : BOOLEAN, type : {"timed", "event"}, expression : Expressions]
Schedules == [paused : BOOLEAN, expression : Expressions \ Invalid, flow : {"old", "new"}]

ASSUME NoneAssumption == NoCheck \notin Checks /\ NoSchedule \notin Schedules

VARIABLES
  check,      \* the Check row
  schedule,   \* its schedule, and the workflow it starts
  op,         \* op[p]: what request p is
  at,         \* at[p]: what it does next
  copy,       \* copy[p]: the Check it works with
  failures,   \* failed calls so far
  \* History, read by properties only.
  removed,    \* whether the check was ever deleted
  crossed,    \* whether requests overlapped
  excuses     \* why check and schedule may disagree since they last agreed at rest

scheduleVars == <<check, schedule, op, at, copy, failures, removed, crossed, excuses>>

-----------------------------------------------------------------------------

UnderWay == {p \in Requests : at[p] \notin {"new", "done"}}
Running == schedule # NoSchedule /\ ~schedule.paused

\* The schedule runs as the check says, and only then.
Agree ==
  IF check.enabled /\ check.type = "timed"
    THEN schedule # NoSchedule /\ ~schedule.paused /\ schedule.expression = check.expression
    ELSE ~Running

AtRest == UnderWay = {}

\* _build_schedule: not paused, whatever the check says.
Fresh(c) == [paused |-> FALSE, expression |-> c.expression, flow |-> "new"]

ScheduleInit ==
  /\ \/ check = NoCheck /\ schedule = NoSchedule
     \/ \E x \in Expressions \ Invalid, f \in {"old", "new"} :
          /\ check = [enabled |-> TRUE, type |-> "timed", expression |-> x]
          /\ schedule = [paused |-> FALSE, expression |-> x, flow |-> f]
  /\ op = [p \in Requests |-> "none"]
  /\ at = [p \in Requests |-> "new"]
  /\ copy = [p \in Requests |-> NoCheck]
  /\ failures = 0
  /\ removed = FALSE /\ crossed = FALSE /\ excuses = {}

Continue(p, l) == at' = [at EXCEPT ![p] = l]

\* A request begins; it overlaps those under way.
Arrive(p, kind, c, l) ==
  /\ at[p] = "new"
  /\ op' = [op EXCEPT ![p] = kind]
  /\ copy' = [copy EXCEPT ![p] = c]
  /\ Continue(p, l)
  /\ crossed' = (crossed \/ UnderWay # {})
  /\ excuses' = IF UnderWay # {} THEN excuses \cup {"overlap"} ELSE excuses
  /\ UNCHANGED <<check, schedule, failures, removed>>

-----------------------------------------------------------------------------
(* The requests, up to their save. *)

\* CheckCreateView, perform_create; a check may be created disabled by the API.
Create(p) ==
  /\ check = NoCheck /\ ~removed
  /\ \A q \in Requests : op[q] # "create"
  /\ \E c \in Checks : Arrive(p, "create", c, "saving")

\* import_check: the row alone, enabled as the column's default has it; the
\* schedule is left to a later request.
Import(p) ==
  /\ at[p] = "new"
  /\ check = NoCheck /\ ~removed
  /\ \A q \in Requests : op[q] # "create"
  /\ op' = [op EXCEPT ![p] = "import"] /\ Continue(p, "done")
  /\ \E c \in Checks :
       /\ c.enabled /\ check' = c
       /\ excuses' = IF c.type = "timed" THEN excuses \cup {"imported"} ELSE excuses
  /\ UNCHANGED <<schedule, copy, failures, removed, crossed>>

\* CheckEditView and perform_update: the row is read and changed, enabled too.
Edit(p) ==
  /\ check # NoCheck
  /\ \E c \in Checks : Arrive(p, "edit", c, "saving")

\* CheckToggleView, enable, disable: the row is read, one column changed.
Toggle(p) ==
  /\ check # NoCheck
  /\ \E on \in BOOLEAN : Arrive(p, "toggle", [check EXCEPT !.enabled = on], "saving")

\* CheckDeleteView, perform_destroy: the schedule goes first.
Delete(p) ==
  /\ check # NoCheck
  /\ Arrive(p, "delete", check, "dropping")

\* fix_check_schedules: a schedule that starts the workflow of old is replaced.
Migrate(p) ==
  /\ check # NoCheck /\ schedule # NoSchedule
  /\ schedule.flow = "old"
  /\ Arrive(p, "migrate", check, "dropping")

\* The whole row, created again if it was deleted since it was read.
SaveCheck(p) ==
  /\ at[p] = "saving"
  /\ check' = copy[p]
  /\ Continue(p, CASE op[p] = "create" -> "creating" [] op[p] = "edit" -> "describing"
               [] op[p] = "toggle" -> "switching")
  /\ UNCHANGED <<schedule, op, copy, failures, removed, crossed, excuses>>

-----------------------------------------------------------------------------
(* The calls of Temporal, with the copy that was saved. *)

\* A request ends, for a reason to disagree or for none; at rest and in agreement
\* all reasons are forgotten.
Done(p, reasons) ==
  /\ Continue(p, "done")
  /\ excuses' = IF UnderWay = {p} /\ check' # NoCheck /\ Agree' THEN {} ELSE excuses \cup reasons
  /\ UNCHANGED <<op, copy, removed, crossed>>

\* A call fails, having had its effect or not.  An edit goes on to create the
\* schedule, any other request ends.
Fails(p, effect) ==
  /\ failures < MaxFailures /\ failures' = failures + 1
  /\ UNCHANGED check
  /\ schedule' \in {schedule, effect}
  /\ IF op[p] = "edit" /\ at[p] # "creating"
       THEN /\ Continue(p, "creating")
            /\ excuses' = excuses \cup {"failure"}
            /\ UNCHANGED <<op, copy, removed, crossed>>
       ELSE Done(p, {"failure"})

\* Mutant: a disabled check gets its schedule all the same.
Schedulable_Disabled(c) == c.type = "timed"

\* create_schedule skips disabled checks and those without a schedule.
Schedulable(c) == c.enabled /\ c.type = "timed"

\* _build_spec raises on an expression that is not valid for its type.
Buildable(c) == c.expression \notin Invalid

\* create_schedule; it raises if the schedule is there.
CreateSchedule(p) ==
  /\ at[p] = "creating"
  /\ LET wanted == IF Schedulable(copy[p]) /\ Buildable(copy[p]) /\ schedule = NoSchedule
                     THEN Fresh(copy[p]) ELSE schedule IN
     \/ /\ UNCHANGED <<check, failures>>
        /\ schedule' = wanted
        /\ Done(p, IF Buildable(copy[p]) THEN {} ELSE {"invalid"})
     \/ Schedulable(copy[p]) /\ Fails(p, wanted)

\* update_schedule leaves event checks alone, the schedule of an earlier type
\* included; it pauses a running schedule, resumes a paused one as it is, and
\* replaces any other.  A description that fails is one of no schedule; without
\* a client there is none, and the request ends.
Describe(p) ==
  /\ at[p] = "describing"
  /\ UNCHANGED <<check, schedule>>
  /\ \/ /\ copy[p].type = "event"
        /\ Done(p, {"event"}) /\ UNCHANGED failures
     \/ /\ copy[p].type = "timed"
        /\ Continue(p, CASE schedule = NoSchedule -> "creating"
                     [] Running /\ ~copy[p].enabled -> "pausing"
                     [] ~Running /\ schedule # NoSchedule /\ copy[p].enabled -> "resuming"
                     [] OTHER -> "updating")
        /\ UNCHANGED <<op, copy, failures, removed, crossed, excuses>>
     \/ /\ copy[p].type = "timed" /\ failures < MaxFailures
        /\ failures' = failures + 1
        /\ \/ /\ Continue(p, "creating")
              /\ excuses' = excuses \cup {"failure"}
              /\ UNCHANGED <<op, copy, removed, crossed>>
           \/ Done(p, {"failure"})

\* enable, disable and the toggle do not look first.
Switch(p) ==
  /\ at[p] = "switching"
  /\ Continue(p, IF copy[p].enabled THEN "resuming" ELSE "pausing")
  /\ UNCHANGED <<check, schedule, op, copy, failures, removed, crossed, excuses>>

\* A pause, resumption or update that raises because the schedule is gone: an
\* edit goes on to create it, a toggle reports the error.
NoneThere(p) ==
  /\ schedule = NoSchedule
  /\ UNCHANGED <<check, schedule, failures>>
  /\ \/ op[p] = "edit" /\ Continue(p, "creating")
        /\ UNCHANGED <<op, copy, removed, crossed, excuses>>
     \/ op[p] = "toggle" /\ Done(p, {"no schedule"})

Pause(p) ==
  /\ at[p] = "pausing"
  /\ \/ NoneThere(p)
     \/ /\ schedule # NoSchedule
        /\ LET wanted == [schedule EXCEPT !.paused = TRUE] IN
           \/ UNCHANGED <<check, failures>> /\ schedule' = wanted /\ Done(p, {})
           \/ Fails(p, wanted)

Resume(p) ==
  /\ at[p] = "resuming"
  /\ \/ NoneThere(p)
     \/ /\ schedule # NoSchedule
        /\ LET wanted == [schedule EXCEPT !.paused = FALSE] IN
           \/ UNCHANGED <<check, failures>> /\ schedule' = wanted /\ Done(p, {"resumed as it was"})
           \/ Fails(p, wanted)

\* The schedule is replaced by one that is not paused.
Update(p) ==
  /\ at[p] = "updating"
  /\ \/ NoneThere(p)
     \/ /\ schedule # NoSchedule /\ ~Buildable(copy[p])
        /\ Continue(p, "creating")
        /\ UNCHANGED <<check, schedule, op, copy, failures, removed, crossed, excuses>>
     \/ /\ schedule # NoSchedule /\ Buildable(copy[p])
        /\ \/ /\ UNCHANGED <<check, failures>>
              /\ schedule' = Fresh(copy[p])
              /\ Done(p, IF copy[p].enabled THEN {} ELSE {"edited while paused"})
           \/ Fails(p, Fresh(copy[p]))

\* Mutant: the schedule is paused, not deleted.
DropSchedule_Pauses(p) ==
  /\ at[p] = "dropping"
  /\ \/ /\ schedule' = IF schedule = NoSchedule THEN schedule ELSE [schedule EXCEPT !.paused = TRUE]
        /\ UNCHANGED <<failures, excuses>>
     \/ /\ failures < MaxFailures /\ failures' = failures + 1
        /\ schedule' \in {schedule, NoSchedule}
        /\ excuses' = excuses \cup {"failure"}
  /\ Continue(p, IF op[p] = "delete" THEN "removing" ELSE "recreating")
  /\ UNCHANGED <<check, op, copy, removed, crossed>>

\* delete_schedule, whose errors do not stop a deletion; a migration they stop.
DropSchedule(p) ==
  /\ at[p] = "dropping"
  /\ UNCHANGED check
  /\ \/ /\ schedule' = NoSchedule
        /\ UNCHANGED <<failures, excuses>>
        /\ Continue(p, IF op[p] = "delete" THEN "removing" ELSE "recreating")
        /\ UNCHANGED <<op, copy, removed, crossed>>
     \/ /\ failures < MaxFailures /\ failures' = failures + 1
        /\ schedule' \in {schedule, NoSchedule}
        /\ IF op[p] = "migrate" THEN Done(p, {"failure"})
           ELSE /\ Continue(p, "removing")
                /\ excuses' = excuses \cup {"failure"}
                /\ UNCHANGED <<op, copy, removed, crossed>>

\* The migrated schedule is a new one, for a check that is disabled too.
Recreate(p) ==
  /\ at[p] = "recreating"
  /\ LET wanted == IF schedule = NoSchedule /\ Buildable(copy[p])
                     THEN Fresh(copy[p]) ELSE schedule IN
     \/ UNCHANGED <<check, failures>> /\ schedule' = wanted /\ Done(p, {"migrated"})
     \/ Fails(p, wanted)

Remove(p) ==
  /\ at[p] = "removing"
  /\ check' = NoCheck
  /\ Continue(p, "done")
  /\ removed' = TRUE
  /\ UNCHANGED <<schedule, op, copy, failures, crossed, excuses>>

-----------------------------------------------------------------------------

ScheduleNext == \E p \in Requests :
  \/ Create(p) \/ Import(p) \/ Edit(p) \/ Toggle(p) \/ Delete(p) \/ Migrate(p)
  \/ SaveCheck(p) \/ CreateSchedule(p) \/ Describe(p) \/ Switch(p)
  \/ Pause(p) \/ Resume(p) \/ Update(p) \/ DropSchedule(p) \/ Recreate(p) \/ Remove(p)

ScheduleSpec == ScheduleInit /\ [][ScheduleNext]_scheduleVars

-----------------------------------------------------------------------------
(* Properties *)

Excuses == {"overlap", "failure", "event", "no schedule", "resumed as it was",
            "edited while paused", "migrated", "invalid", "imported"}

ScheduleTypeOK ==
  /\ check \in Checks \cup {NoCheck}
  /\ schedule \in Schedules \cup {NoSchedule}
  /\ op \in [Requests -> {"none", "create", "import", "edit", "toggle", "delete", "migrate"}]
  /\ at \in [Requests -> {"new", "saving", "creating", "describing", "switching", "pausing",
                          "resuming", "updating", "dropping", "recreating", "removing", "done"}]
  /\ copy \in [Requests -> Checks \cup {NoCheck}]
  /\ failures \in 0..MaxFailures
  /\ removed \in BOOLEAN /\ crossed \in BOOLEAN /\ excuses \subseteq Excuses

\* CheckScheduler: with no request under way the schedule runs as the check says,
\* unless since they last agreed requests overlapped, a call failed, the check was
\* imported, edited as an event check or with an invalid expression, enabled without having
\* a schedule, resumed with the schedule it was paused with, edited while its
\* schedule was paused, or migrated.
DriftExplained == AtRest /\ check # NoCheck /\ excuses = {} => Agree

\* A deleted check is gone for good, and its schedule with it, unless another
\* request overlapped the deletion or a call of Temporal failed.
DeletedLeavesNothing ==
  removed => \/ check = NoCheck /\ schedule = NoSchedule
             \/ crossed \/ failures > 0
=============================================================================
