------------------------------ MODULE CheckProofs ------------------------------
(***************************************************************************)
(* Proofs about the checks.  Of CheckSchedule, for any requests,           *)
(* expressions and number of failing calls: the type invariant, that a     *)
(* deletion leaves nothing behind, and that check and schedule disagree at *)
(* rest only for a reason.  Of CheckInvestigation, for any investigations  *)
(* of a check and any number of faults: the type invariant, that every row *)
(* and session is accounted for, that the cooldown is held, that a         *)
(* recovery is reported, and that an investigation under way can always go *)
(* on and is never taken back.  The two share nothing but this module.     *)
(***************************************************************************)
EXTENDS CheckSchedule, CheckInvestigation, FiniteSetTheorems, TLAPS

USE DEF Continue, Buildable, Schedulable, Fresh, Running, Agree

-----------------------------------------------------------------------------
(* CheckSchedule: the inductive invariant. *)

Busy(p) == at[p] \notin {"new", "done"}

\* A request works with a check it has read, and saves it if it is to save one.
Held ==
  \A p \in Requests :
    /\ Busy(p) => copy[p] \in Checks
    /\ at[p] = "saving" => op[p] \in {"create", "edit", "toggle"}
    /\ at[p] = "dropping" => op[p] \in {"delete", "migrate"}
    /\ at[p] = "removing" => op[p] = "delete"

\* Requests overlapped, or there is one at most, and none before there was a check
\* but the one that creates it.
Alone ==
  /\ ~crossed \/ excuses = {} => \A p, q \in Requests : Busy(p) /\ Busy(q) => p = q
  /\ check = NoCheck /\ ~removed =>
       schedule = NoSchedule /\ \A p \in Requests : Busy(p) => at[p] = "saving" /\ op[p] = "create"

\* A deletion that overlapped with nothing and met no failure.
Deletions ==
  ~crossed =>
    /\ removed => check = NoCheck /\ \A p \in Requests : ~Busy(p)
    /\ removed /\ failures = 0 => schedule = NoSchedule
    /\ failures = 0 => \A p \in Requests : at[p] = "removing" => schedule = NoSchedule

\* How far a request that has no reason to leave them apart is with bringing
\* check and schedule together.
Progress ==
  excuses = {} =>
    /\ (\A p \in Requests : ~Busy(p)) /\ check # NoCheck => Agree
    /\ \A p \in Requests :
         /\ at[p] = "saving" /\ op[p] = "create" => schedule = NoSchedule
         /\ at[p] \in {"describing", "switching", "creating", "pausing", "resuming",
                        "updating"} => check = copy[p]
         /\ at[p] = "creating" => schedule = NoSchedule \/ ~Buildable(copy[p])
         /\ at[p] = "pausing" => ~copy[p].enabled
         /\ at[p] = "updating" => copy[p].type = "timed"

ScheduleInv == ScheduleTypeOK /\ Held /\ Alone /\ Deletions /\ Progress

LEMMA ScheduleInitInv == ScheduleInit => ScheduleInv
<1> SUFFICES ASSUME ScheduleInit PROVE ScheduleInv
  OBVIOUS
<1>1. \/ check = NoCheck /\ schedule = NoSchedule
      \/ check \in Checks /\ schedule \in Schedules /\ Agree
  <2>1. CASE check = NoCheck /\ schedule = NoSchedule
    BY <2>1
  <2>2. ASSUME NEW x \in Expressions \ Invalid, NEW f \in {"old", "new"},
               check = [enabled |-> TRUE, type |-> "timed", expression |-> x],
               schedule = [paused |-> FALSE, expression |-> x, flow |-> f]
        PROVE  check \in Checks /\ schedule \in Schedules /\ Agree
    <3>1. check \in Checks /\ schedule \in Schedules
      BY <2>2 DEF Checks, Schedules
    <3>2. schedule # NoSchedule
      BY <3>1, NoneAssumption
    <3>3. schedule.paused = FALSE /\ check.enabled = TRUE /\ check.type = "timed"
          /\ schedule.expression = check.expression
      BY <2>2
    <3>4. QED
      BY <3>1, <3>2, <3>3
  <2>3. QED
    BY <2>1, <2>2 DEF ScheduleInit
<1>2. \A p \in Requests : at[p] = "new" /\ op[p] = "none" /\ copy[p] = NoCheck
  BY DEF ScheduleInit
<1>3. ScheduleTypeOK
  <2>1. check \in Checks \cup {NoCheck} /\ schedule \in Schedules \cup {NoSchedule}
    BY <1>1
  <2>2. failures \in 0..MaxFailures
    BY FailuresAssumption DEF ScheduleInit
  <2>3. /\ op \in [Requests -> {"none"}] /\ at \in [Requests -> {"new"}]
        /\ copy \in [Requests -> {NoCheck}]
        /\ removed \in BOOLEAN /\ crossed \in BOOLEAN /\ excuses \subseteq Excuses
    BY DEF ScheduleInit
  <2>4. QED
    BY <2>1, <2>2, <2>3 DEF ScheduleTypeOK
<1>4. Held /\ Alone /\ Deletions
  BY <1>1, <1>2, NoneAssumption DEF ScheduleInit, Held, Alone, Deletions, Busy
<1>5. Progress
  BY <1>1, <1>2 DEF Progress, Busy
<1>6. QED
  BY <1>3, <1>4, <1>5 DEF ScheduleInv

-----------------------------------------------------------------------------
(* The beginnings and the end of a request. *)

\* A request that arrives with a check it has read, at its first stage.
LEMMA ArriveStep ==
  ASSUME ScheduleInv, NEW p \in Requests, NEW kind, NEW c \in Checks, NEW l, Arrive(p, kind, c, l),
         \/ l = "saving" /\ kind \in {"edit", "toggle"} /\ check # NoCheck
         \/ l = "saving" /\ kind = "create" /\ check = NoCheck /\ ~removed
         \/ l = "dropping" /\ kind \in {"delete", "migrate"} /\ check # NoCheck
  PROVE  ScheduleInv'
<1> USE DEF ScheduleInv, Arrive
<1>1. ScheduleTypeOK'
  BY DEF ScheduleTypeOK, Excuses
<1>2. Held'
  BY DEF ScheduleTypeOK, Held, Busy
<1>3. crossed' = (crossed \/ \E q \in Requests : Busy(q))
  BY DEF UnderWay, Busy, ScheduleTypeOK
<1>4. (\E q \in Requests : Busy(q)) => excuses' # {}
  BY DEF UnderWay, Busy
<1>5. \A q \in Requests : Busy(q)' <=> Busy(q) \/ q = p
  BY DEF Busy, ScheduleTypeOK
<1>6. excuses' = {} => excuses = {}
  BY DEF UnderWay
<1>7. Alone'
  <2>1. ~crossed' \/ excuses' = {} => \A q, r \in Requests : Busy(q)' /\ Busy(r)' => q = r
    BY <1>3, <1>4, <1>5
  <2>2. check = NoCheck /\ ~removed =>
          /\ schedule = NoSchedule
          /\ \A q \in Requests : Busy(q)' => at'[q] = "saving" /\ op'[q] = "create"
    BY <1>5 DEF Alone, ScheduleTypeOK
  <2>3. QED
    BY <2>1, <2>2 DEF Alone, Busy
<1>8. Deletions'
  <2>1. at'[p] # "removing" /\ \A q \in Requests : q # p => at'[q] = at[q]
    BY DEF ScheduleTypeOK
  <2>2. ~crossed' => check # NoCheck \/ ~removed
    BY <1>3 DEF Deletions
  <2>3. QED
    BY <1>3, <2>1, <2>2 DEF Deletions
<1>9. Progress'
  <2>1. at'[p] = l /\ op'[p] = kind /\ \A q \in Requests : q # p => at'[q] = at[q]
    BY DEF ScheduleTypeOK
  <2>2. excuses' = {} => \A q \in Requests : q # p => ~Busy(q)'
    BY <1>4, <1>5
  <2>3. kind = "create" => schedule = NoSchedule
    BY DEF Alone
  <2>4. QED
    BY <2>1, <2>2, <2>3 DEF Progress, Busy
<1>10. QED
  BY <1>1, <1>2, <1>7, <1>8, <1>9

\* A request ends: it was alone and left check and schedule in agreement, or all
\* earlier reasons stay and its own are added.
LEMMA DoneOutcome ==
  ASSUME NEW p \in Requests, NEW R, Done(p, R), ScheduleTypeOK, Busy(p)
  PROVE  /\ \A q \in Requests : Busy(q)' <=> Busy(q) /\ q # p
         /\ \/ excuses' = {} /\ check' # NoCheck /\ Agree' /\ \A q \in Requests : ~Busy(q)'
            \/ /\ excuses' = excuses \cup R
               /\ R = {} => \/ check' = NoCheck \/ ~Agree'
                           \/ \E q \in Requests : Busy(q)'
<1>1. \A q \in Requests : Busy(q)' <=> Busy(q) /\ q # p
  BY DEF Done, Busy, ScheduleTypeOK
<1>2. UnderWay = {p} => \A q \in Requests : ~Busy(q)'
  BY <1>1 DEF UnderWay, Busy
<1>3. UnderWay # {p} /\ Busy(p) => \E q \in Requests : Busy(q)'
  BY <1>1 DEF UnderWay, Busy
<1>4. QED
  BY <1>1, <1>2, <1>3 DEF Done

\* What the call of a request may do to the rows, whatever follows.
Called(p) ==
  /\ schedule' \in Schedules \cup {NoSchedule}
  /\ failures' \in failures .. MaxFailures
  /\ UNCHANGED <<op, copy, removed, crossed>>

\* A request that goes on with its next call.
LEMMA StageStep ==
  ASSUME ScheduleInv, NEW p \in Requests, Busy(p), NEW l, Continue(p, l), Called(p),
         l \in {"creating", "describing", "switching", "pausing", "resuming", "updating",
               "recreating", "removing"},
         excuses \subseteq excuses', excuses' \subseteq Excuses,
         \/ at[p] = "saving" /\ check' = copy[p]
         \/ at[p] # "saving" /\ check' = check,
         l = "removing" => op[p] = "delete" /\ (failures' = 0 => schedule' = NoSchedule),
         excuses' = {} =>
           /\ l \in {"describing", "switching", "creating", "pausing", "resuming", "updating"} =>
                check' = copy[p]
           /\ l = "creating" => schedule' = NoSchedule \/ ~Buildable(copy[p])
           /\ l = "pausing" => ~copy[p].enabled
           /\ l = "updating" => copy[p].type = "timed"
  PROVE  ScheduleInv'
<1>1. at' = [at EXCEPT ![p] = l] /\ at'[p] = l /\ \A q \in Requests : q # p => at'[q] = at[q]
  BY DEF ScheduleInv, ScheduleTypeOK
<1>2. \A q \in Requests : Busy(q)' <=> Busy(q)
  BY <1>1 DEF Busy
<1>3. copy[p] \in Checks
  BY DEF ScheduleInv, Held
<1>4. ScheduleTypeOK'
  <2>1. at' \in [Requests -> {"new", "saving", "creating", "describing", "switching", "pausing",
                              "resuming", "updating", "dropping", "recreating", "removing",
                              "done"}]
    BY <1>1 DEF ScheduleInv, ScheduleTypeOK
  <2>2. failures' \in 0..MaxFailures
    BY FailuresAssumption DEF ScheduleInv, ScheduleTypeOK, Called
  <2>3. check' \in Checks \cup {NoCheck}
    BY <1>3 DEF ScheduleInv, ScheduleTypeOK
  <2>4. QED
    BY <2>1, <2>2, <2>3 DEF ScheduleInv, ScheduleTypeOK, Called
<1>5. Held'
  BY <1>1, <1>2 DEF ScheduleInv, Held, Called
<1>6. Alone'
  <2>1. ~crossed' \/ excuses' = {} => \A q, r \in Requests : Busy(q)' /\ Busy(r)' => q = r
    BY <1>2 DEF ScheduleInv, Alone, Called
  <2>2. ~(check' = NoCheck /\ ~removed')
    BY <1>3, NoneAssumption DEF ScheduleInv, Alone, Called
  <2>3. QED
    BY <2>1, <2>2 DEF Alone, Busy
<1>7. Deletions'
  <2>1. ~crossed => ~removed
    BY DEF ScheduleInv, Deletions
  <2>2. ~crossed => \A q \in Requests : q # p => ~Busy(q)
    BY DEF ScheduleInv, Alone
  <2>3. QED
    BY <1>1, <2>1, <2>2 DEF Deletions, Called, Busy
<1>8. Progress'
  <2>1. excuses' = {} => \A q \in Requests : q # p => ~Busy(q)'
    BY <1>2 DEF ScheduleInv, Alone
  <2>2. Busy(p)'
    BY <1>2
  <2>3. QED
    BY <1>1, <2>1, <2>2 DEF Progress, Called, Busy
<1>9. QED
  BY <1>4, <1>5, <1>6, <1>7, <1>8 DEF ScheduleInv

\* A request that is done: what it adds to the reasons explains what it leaves.
LEMMA DoneStep ==
  ASSUME ScheduleInv, NEW p \in Requests, Busy(p), at[p] \notin {"saving", "removing"},
         NEW R \in SUBSET Excuses, Done(p, R), Called(p), check' = check,
         R = {} /\ excuses = {} => check' = NoCheck \/ Agree'
  PROVE  ScheduleInv'
<1>1. /\ \A q \in Requests : Busy(q)' <=> Busy(q) /\ q # p
      /\ \/ excuses' = {} /\ check' # NoCheck /\ Agree' /\ \A q \in Requests : ~Busy(q)'
         \/ /\ excuses' = excuses \cup R
            /\ R = {} => \/ check' = NoCheck \/ ~Agree'
                        \/ \E q \in Requests : Busy(q)'
  BY DoneOutcome DEF ScheduleInv
<1>2. at' = [at EXCEPT ![p] = "done"] /\ at'[p] = "done"
      /\ \A q \in Requests : q # p => at'[q] = at[q]
  BY DEF ScheduleInv, ScheduleTypeOK, Done
<1>3. ScheduleTypeOK'
  <2>1. at' \in [Requests -> {"new", "saving", "creating", "describing", "switching", "pausing",
                              "resuming", "updating", "dropping", "recreating", "removing",
                              "done"}]
    BY <1>2 DEF ScheduleInv, ScheduleTypeOK
  <2>2. failures' \in 0..MaxFailures
    BY FailuresAssumption DEF ScheduleInv, ScheduleTypeOK, Called
  <2>3. excuses' \subseteq Excuses
    BY <1>1 DEF ScheduleInv, ScheduleTypeOK
  <2>4. QED
    BY <2>1, <2>2, <2>3 DEF ScheduleInv, ScheduleTypeOK, Called
<1>4. Held'
  BY <1>1, <1>2 DEF ScheduleInv, Held, Called
<1>5. Alone'
  <2>1. ~crossed' \/ excuses' = {} => \A q, r \in Requests : Busy(q)' /\ Busy(r)' => q = r
    <3>1. CASE \A q \in Requests : ~Busy(q)'
      BY <3>1
    <3>2. CASE excuses' = excuses \cup R
      BY <1>1, <3>2 DEF ScheduleInv, Alone, Called
    <3>3. QED
      BY <1>1, <3>1, <3>2
  <2>2. ~(check' = NoCheck /\ ~removed')
    BY DEF ScheduleInv, Alone, Called
  <2>3. QED
    BY <2>1, <2>2 DEF Alone, Busy
<1>6. Deletions'
  <2>1. ~crossed => ~removed
    BY DEF ScheduleInv, Deletions
  <2>2. ~crossed => \A q \in Requests : q # p => ~Busy(q)
    BY DEF ScheduleInv, Alone
  <2>3. QED
    BY <1>2, <2>1, <2>2 DEF Deletions, Called, Busy
<1>7. Progress'
  <2>1. CASE excuses' = {} /\ check' # NoCheck /\ Agree' /\ \A q \in Requests : ~Busy(q)'
    BY <2>1 DEF Progress, Busy
  <2>2. CASE excuses' = excuses \cup R
    <3>1. excuses' = {} => excuses = {} /\ R = {}
      BY <2>2
    <3>2. excuses' = {} => \A q \in Requests : ~Busy(q)'
      BY <1>1, <3>1 DEF ScheduleInv, Alone
    <3>3. QED
      BY <3>1, <3>2 DEF Progress, Busy
  <2>3. QED
    BY <1>1, <2>1, <2>2
<1>8. QED
  BY <1>3, <1>4, <1>5, <1>6, <1>7 DEF ScheduleInv

LEMMA RemoveStep ==
  ASSUME ScheduleInv, NEW p \in Requests, Remove(p)
  PROVE  ScheduleInv'
<1>1. at' = [at EXCEPT ![p] = "done"] /\ at'[p] = "done" /\ at[p] = "removing"
      /\ \A q \in Requests : q # p => at'[q] = at[q]
  BY DEF ScheduleInv, ScheduleTypeOK, Remove
<1>2. \A q \in Requests : Busy(q)' <=> Busy(q) /\ q # p
  BY <1>1 DEF Busy
<1>3. ScheduleTypeOK'
  BY <1>1 DEF ScheduleInv, ScheduleTypeOK, Remove
<1>4. Held'
  BY <1>1, <1>2 DEF ScheduleInv, Held, Remove
<1>5. Alone'
  BY <1>2 DEF ScheduleInv, Alone, Remove
<1>6. Deletions'
  <2>1. ~crossed => \A q \in Requests : q # p => ~Busy(q)
    BY <1>1 DEF ScheduleInv, Alone, Busy
  <2>2. QED
    BY <1>1, <1>2, <2>1 DEF ScheduleInv, Deletions, Remove, Busy
<1>7. Progress'
  <2>1. excuses' = {} => \A q \in Requests : ~Busy(q)'
    BY <1>1, <1>2 DEF ScheduleInv, Alone, Remove, Busy
  <2>2. QED
    BY <2>1 DEF Progress, Busy, Remove
<1>8. QED
  BY <1>3, <1>4, <1>5, <1>6, <1>7 DEF ScheduleInv

-----------------------------------------------------------------------------
(* The calls of Temporal. *)

LEMMA FreshType ==
  ASSUME NEW c \in Checks, Buildable(c)
  PROVE  Fresh(c) \in Schedules
BY DEF Checks, Schedules

LEMMA FaultsWithin ==
  ASSUME ScheduleInv
  PROVE  /\ failures \in failures .. MaxFailures
         /\ failures < MaxFailures => failures + 1 \in failures .. MaxFailures
BY FailuresAssumption DEF ScheduleInv, ScheduleTypeOK

LEMMA ReasonsType == \A r \in Excuses : {r} \in SUBSET Excuses
  OBVIOUS

LEMMA CopyHeld ==
  ASSUME ScheduleInv, NEW p \in Requests, Busy(p)
  PROVE  /\ copy[p] \in Checks /\ copy[p] # NoCheck
         /\ excuses = {} => \A q \in Requests : Busy(q) => q = p
BY NoneAssumption DEF ScheduleInv, Held, Alone

LEMMA FailsStep ==
  ASSUME ScheduleInv, NEW p \in Requests, Busy(p), at[p] \notin {"saving", "removing"},
         NEW effect \in Schedules \cup {NoSchedule}, Fails(p, effect)
  PROVE  ScheduleInv'
<1>1. failures' \in failures .. MaxFailures /\ failures' # 0 /\ check' = check
      /\ schedule' \in Schedules \cup {NoSchedule}
  BY FailuresAssumption DEF Fails, ScheduleInv, ScheduleTypeOK
<1>2. CASE op[p] = "edit" /\ at[p] # "creating"
  <2>1. Continue(p, "creating") /\ excuses' = excuses \cup {"failure"} /\ Called(p)
    BY <1>1, <1>2 DEF Fails, Called
  <2>2. excuses' \subseteq Excuses
    BY <2>1 DEF ScheduleInv, ScheduleTypeOK, Excuses
  <2>3. QED
    BY <1>1, <2>1, <2>2, StageStep
<1>3. CASE ~(op[p] = "edit" /\ at[p] # "creating")
  <2>1. Done(p, {"failure"})
    BY <1>3 DEF Fails
  <2>2. Called(p)
    BY <1>1, <2>1 DEF Done, Called
  <2>3. {"failure"} \in SUBSET Excuses
    BY DEF Excuses
  <2>4. QED
    BY <1>1, <2>1, <2>2, <2>3, DoneStep
<1>4. QED
  BY <1>2, <1>3

LEMMA CreateScheduleStep ==
  ASSUME ScheduleInv, NEW p \in Requests, CreateSchedule(p)
  PROVE  ScheduleInv'
<1> DEFINE wanted == IF Schedulable(copy[p]) /\ Buildable(copy[p]) /\ schedule = NoSchedule
                       THEN Fresh(copy[p]) ELSE schedule
           reasons == IF Buildable(copy[p]) THEN {} ELSE {"invalid"}
<1>1. at[p] = "creating" /\ Busy(p)
  BY DEF CreateSchedule, Busy
<1>2. copy[p] \in Checks
  BY <1>1, CopyHeld
<1>3. wanted \in Schedules \cup {NoSchedule}
  BY <1>2, FreshType DEF ScheduleInv, ScheduleTypeOK
<1>4. CASE UNCHANGED <<check, failures>> /\ schedule' = wanted /\ Done(p, reasons)
  <2>1. Called(p)
    BY <1>3, <1>4, FailuresAssumption DEF Called, Done, ScheduleInv, ScheduleTypeOK
  <2>2. ASSUME reasons = {}, excuses = {}
        PROVE  Agree'
    <3>1. Buildable(copy[p])
      BY <2>2
    <3>2. check' = copy[p] /\ schedule = NoSchedule
      BY <1>1, <1>4, <2>2, <3>1 DEF ScheduleInv, Progress
    <3>3. CASE Schedulable(copy[p])
      <4>1. schedule' = Fresh(copy[p]) /\ schedule' # NoSchedule
        BY <1>2, <1>4, <3>1, <3>2, <3>3, FreshType, NoneAssumption
      <4>2. schedule'.paused = FALSE /\ schedule'.expression = copy[p].expression
        BY <4>1
      <4>3. QED
        BY <3>2, <3>3, <4>1, <4>2
    <3>4. CASE ~Schedulable(copy[p])
      BY <1>4, <3>2, <3>4
    <3>5. QED
      BY <3>3, <3>4
  <2>3. reasons \in SUBSET Excuses
    BY DEF Excuses
  <2> HIDE DEF reasons
  <2>4. QED
    BY <1>1, <1>4, <2>1, <2>2, <2>3, DoneStep
<1>5. CASE Fails(p, wanted)
  <2> HIDE DEF wanted
  <2>1. QED
    BY <1>1, <1>3, <1>5, FailsStep
<1>6. QED
  BY <1>4, <1>5 DEF CreateSchedule

LEMMA DescribeStep ==
  ASSUME ScheduleInv, NEW p \in Requests, Describe(p)
  PROVE  ScheduleInv'
<1>1. at[p] = "describing" /\ Busy(p) /\ UNCHANGED <<check, schedule>>
  BY DEF Describe, Busy
<1>2. excuses = {} => check = copy[p]
  BY <1>1 DEF ScheduleInv, Progress
<1>3. schedule' \in Schedules \cup {NoSchedule}
  BY <1>1 DEF ScheduleInv, ScheduleTypeOK
<1>4. CASE Done(p, {"event"}) /\ UNCHANGED failures
  <2>1. Called(p) /\ {"event"} \in SUBSET Excuses
    BY <1>3, <1>4, FaultsWithin, ReasonsType DEF Called, Done, Excuses
  <2>2. QED
    BY <1>1, <1>4, <2>1, DoneStep
<1>5. CASE /\ copy[p].type = "timed"
           /\ Continue(p, CASE schedule = NoSchedule -> "creating"
                        [] Running /\ ~copy[p].enabled -> "pausing"
                        [] ~Running /\ schedule # NoSchedule /\ copy[p].enabled -> "resuming"
                        [] OTHER -> "updating")
           /\ UNCHANGED <<op, copy, failures, removed, crossed, excuses>>
  <2>1. Called(p) /\ excuses' = excuses /\ excuses' \subseteq Excuses
    BY <1>3, <1>5, FailuresAssumption DEF Called, ScheduleInv, ScheduleTypeOK
  <2>2. CASE schedule = NoSchedule
    <3>1. Continue(p, "creating")
      BY <1>5, <2>2
    <3>2. QED
      BY <1>1, <1>2, <2>1, <2>2, <3>1, StageStep
  <2>3. CASE schedule # NoSchedule /\ Running /\ ~copy[p].enabled
    <3>1. Continue(p, "pausing")
      BY <1>5, <2>3
    <3>2. QED
      BY <1>1, <1>2, <2>1, <2>3, <3>1, StageStep
  <2>4. CASE schedule # NoSchedule /\ ~Running /\ copy[p].enabled
    <3>1. Continue(p, "resuming")
      BY <1>5, <2>4
    <3>2. QED
      BY <1>1, <1>2, <2>1, <3>1, StageStep
  <2>5. CASE schedule # NoSchedule /\ (Running <=> copy[p].enabled)
    <3>1. Continue(p, "updating")
      BY <1>5, <2>5
    <3>2. QED
      BY <1>1, <1>2, <1>5, <2>1, <3>1, StageStep
  <2>6. QED
    BY <2>2, <2>3, <2>4, <2>5
<1>6. CASE failures < MaxFailures /\ failures' = failures + 1 /\ Continue(p, "creating")
           /\ excuses' = excuses \cup {"failure"} /\ UNCHANGED <<op, copy, removed, crossed>>
  <2>1. Called(p)
    BY <1>3, <1>6, FaultsWithin DEF Called
  <2>2. excuses' \subseteq Excuses /\ excuses' # {}
    BY <1>6 DEF ScheduleInv, ScheduleTypeOK, Excuses
  <2>3. QED
    BY <1>1, <1>6, <2>1, <2>2, StageStep
<1>7. CASE failures < MaxFailures /\ failures' = failures + 1 /\ Done(p, {"failure"})
  <2>1. Called(p) /\ {"failure"} \in SUBSET Excuses
    BY <1>3, <1>7, FaultsWithin, ReasonsType DEF Called, Done, Excuses
  <2>2. QED
    BY <1>1, <1>7, <2>1, DoneStep
<1>8. QED
  BY <1>4, <1>5, <1>6, <1>7 DEF Describe

LEMMA SwitchStep ==
  ASSUME ScheduleInv, NEW p \in Requests, Switch(p)
  PROVE  ScheduleInv'
<1>1. at[p] = "switching" /\ Busy(p) /\ check' = check /\ excuses' = excuses
  BY DEF Switch, Busy
<1>2. Called(p) /\ excuses' \subseteq Excuses
  BY FaultsWithin DEF Switch, Called, ScheduleInv, ScheduleTypeOK
<1>3. excuses = {} => check = copy[p]
  BY <1>1 DEF ScheduleInv, Progress
<1>4. CASE copy[p].enabled
  <2>1. Continue(p, "resuming")
    BY <1>4 DEF Switch
  <2>2. QED
    BY <1>1, <1>2, <1>3, <2>1, StageStep
<1>5. CASE ~copy[p].enabled
  <2>1. Continue(p, "pausing")
    BY <1>5 DEF Switch
  <2>2. QED
    BY <1>1, <1>2, <1>3, <1>5, <2>1, StageStep
<1>6. QED
  BY <1>4, <1>5

LEMMA NoneThereStep ==
  ASSUME ScheduleInv, NEW p \in Requests, at[p] \in {"pausing", "resuming", "updating"}, NoneThere(p)
  PROVE  ScheduleInv'
<1>1. Busy(p) /\ UNCHANGED <<check, schedule, failures>> /\ schedule = NoSchedule
  BY DEF NoneThere, Busy
<1>2. schedule' \in Schedules \cup {NoSchedule}
  BY <1>1
<1>3. CASE Continue(p, "creating") /\ UNCHANGED <<op, copy, removed, crossed, excuses>>
  <2>1. Called(p) /\ excuses' \subseteq Excuses /\ excuses' = excuses
    BY <1>1, <1>2, <1>3, FaultsWithin DEF Called, ScheduleInv, ScheduleTypeOK
  <2>2. excuses = {} => check = copy[p]
    BY DEF ScheduleInv, Progress
  <2>3. QED
    BY <1>1, <1>3, <2>1, <2>2, StageStep
<1>4. CASE Done(p, {"no schedule"})
  <2>1. Called(p) /\ {"no schedule"} \in SUBSET Excuses
    BY <1>1, <1>2, <1>4, FaultsWithin, ReasonsType DEF Called, Done, Excuses
  <2>2. QED
    BY <1>1, <1>4, <2>1, DoneStep
<1>5. QED
  BY <1>3, <1>4 DEF NoneThere

LEMMA PausedType ==
  ASSUME NEW s \in Schedules, NEW b \in BOOLEAN
  PROVE  [s EXCEPT !.paused = b] \in Schedules /\ [s EXCEPT !.paused = b].paused = b
BY DEF Schedules

LEMMA PauseStep ==
  ASSUME ScheduleInv, NEW p \in Requests, Pause(p)
  PROVE  ScheduleInv'
<1> DEFINE wanted == [schedule EXCEPT !.paused = TRUE]
<1>1. at[p] = "pausing" /\ Busy(p)
  BY DEF Pause, Busy
<1>2. CASE NoneThere(p)
  BY <1>1, <1>2, NoneThereStep
<1>3. ASSUME schedule # NoSchedule
      PROVE  wanted \in Schedules /\ wanted.paused = TRUE
  BY <1>3, PausedType DEF ScheduleInv, ScheduleTypeOK
<1> HIDE DEF wanted
<1>4. CASE schedule # NoSchedule /\ UNCHANGED <<check, failures>> /\ schedule' = wanted
           /\ Done(p, {})
  <2>1. Called(p)
    BY <1>3, <1>4, FaultsWithin DEF Called, Done
  <2>2. ASSUME excuses = {}
        PROVE  Agree'
    <3>1. check' = copy[p] /\ ~copy[p].enabled
      BY <1>1, <1>4, <2>2 DEF ScheduleInv, Progress
    <3>2. QED
      BY <1>3, <1>4, <3>1
  <2>3. QED
    BY <1>1, <1>4, <2>1, <2>2, DoneStep
<1>5. CASE schedule # NoSchedule /\ Fails(p, wanted)
  BY <1>1, <1>3, <1>5, FailsStep
<1>6. QED
  BY <1>2, <1>4, <1>5 DEF Pause, wanted

LEMMA ResumeStep ==
  ASSUME ScheduleInv, NEW p \in Requests, Resume(p)
  PROVE  ScheduleInv'
<1> DEFINE wanted == [schedule EXCEPT !.paused = FALSE]
<1>1. at[p] = "resuming" /\ Busy(p)
  BY DEF Resume, Busy
<1>2. CASE NoneThere(p)
  BY <1>1, <1>2, NoneThereStep
<1>3. ASSUME schedule # NoSchedule
      PROVE  wanted \in Schedules
  BY <1>3, PausedType DEF ScheduleInv, ScheduleTypeOK
<1> HIDE DEF wanted
<1>4. CASE schedule # NoSchedule /\ UNCHANGED <<check, failures>> /\ schedule' = wanted
           /\ Done(p, {"resumed as it was"})
  <2>1. Called(p) /\ {"resumed as it was"} \in SUBSET Excuses
    BY <1>3, <1>4, FaultsWithin, ReasonsType DEF Called, Done, Excuses
  <2>2. QED
    BY <1>1, <1>4, <2>1, DoneStep
<1>5. CASE schedule # NoSchedule /\ Fails(p, wanted)
  BY <1>1, <1>3, <1>5, FailsStep
<1>6. QED
  BY <1>2, <1>4, <1>5 DEF Resume, wanted

LEMMA UpdateStep ==
  ASSUME ScheduleInv, NEW p \in Requests, Update(p)
  PROVE  ScheduleInv'
<1>1. at[p] = "updating" /\ Busy(p) /\ copy[p] \in Checks
  BY CopyHeld DEF Update, Busy
<1>2. excuses = {} => check = copy[p] /\ copy[p].type = "timed"
  BY <1>1 DEF ScheduleInv, Progress
<1>3. CASE NoneThere(p)
  BY <1>1, <1>3, NoneThereStep
<1>4. CASE ~Buildable(copy[p]) /\ Continue(p, "creating")
           /\ UNCHANGED <<check, schedule, op, copy, failures, removed, crossed, excuses>>
  <2>1. Called(p) /\ excuses' \subseteq Excuses /\ excuses' = excuses
    BY <1>4, FaultsWithin DEF Called, ScheduleInv, ScheduleTypeOK
  <2>2. QED
    BY <1>1, <1>2, <1>4, <2>1, StageStep
<1>5. CASE Buildable(copy[p]) /\ UNCHANGED <<check, failures>> /\ schedule' = Fresh(copy[p])
           /\ Done(p, IF copy[p].enabled THEN {} ELSE {"edited while paused"})
  <2> DEFINE reasons == IF copy[p].enabled THEN {} ELSE {"edited while paused"}
  <2>1. schedule' \in Schedules /\ schedule' # NoSchedule
        /\ schedule'.paused = FALSE /\ schedule'.expression = copy[p].expression
    BY <1>1, <1>5, FreshType, NoneAssumption
  <2>2. Called(p) /\ reasons \in SUBSET Excuses
    BY <1>5, <2>1, FaultsWithin DEF Called, Done, Excuses
  <2>3. reasons = {} /\ excuses = {} => Agree'
    BY <1>2, <1>5, <2>1
  <2> HIDE DEF reasons
  <2>4. Done(p, reasons)
    BY <1>5 DEF reasons
  <2>5. QED
    BY <1>1, <1>5, <2>2, <2>3, <2>4, DoneStep
<1>6. CASE Buildable(copy[p]) /\ Fails(p, Fresh(copy[p]))
  <2> DEFINE effect == Fresh(copy[p])
  <2>1. effect \in Schedules \cup {NoSchedule}
    BY <1>1, <1>6, FreshType
  <2> HIDE DEF effect
  <2>2. Fails(p, effect)
    BY <1>6 DEF effect
  <2>3. QED
    BY <1>1, <2>1, <2>2, FailsStep
<1>7. QED
  BY <1>3, <1>4, <1>5, <1>6 DEF Update

LEMMA DropScheduleStep ==
  ASSUME ScheduleInv, NEW p \in Requests, DropSchedule(p)
  PROVE  ScheduleInv'
<1>1. at[p] = "dropping" /\ Busy(p) /\ check' = check
  BY DEF DropSchedule, Busy
<1>2. CASE /\ schedule' = NoSchedule /\ UNCHANGED <<failures, excuses, op, copy, removed, crossed>>
           /\ Continue(p, IF op[p] = "delete" THEN "removing" ELSE "recreating")
  <2>1. Called(p) /\ excuses' \subseteq Excuses /\ excuses' = excuses
    BY <1>2, FaultsWithin DEF Called, ScheduleInv, ScheduleTypeOK
  <2>2. CASE op[p] = "delete"
    <3>1. Continue(p, "removing")
      BY <1>2, <2>2
    <3>2. QED
      BY <1>1, <1>2, <2>1, <2>2, <3>1, StageStep
  <2>3. CASE op[p] # "delete"
    <3>1. Continue(p, "recreating")
      BY <1>2, <2>3
    <3>2. QED
      BY <1>1, <1>2, <2>1, <3>1, StageStep
  <2>4. QED
    BY <2>2, <2>3
<1>3. CASE failures < MaxFailures /\ failures' = failures + 1 /\ schedule' \in {schedule, NoSchedule}
  <2>1. schedule' \in Schedules \cup {NoSchedule} /\ failures' \in failures .. MaxFailures
        /\ failures' # 0
    BY <1>3, FaultsWithin, FailuresAssumption DEF ScheduleInv, ScheduleTypeOK
  <2>2. CASE Done(p, {"failure"})
    <3>1. Called(p) /\ {"failure"} \in SUBSET Excuses
      BY <2>1, <2>2, ReasonsType DEF Called, Done, Excuses
    <3>2. QED
      BY <1>1, <2>2, <3>1, DoneStep
  <2>3. CASE Continue(p, "removing") /\ excuses' = excuses \cup {"failure"}
             /\ UNCHANGED <<op, copy, removed, crossed>> /\ op[p] # "migrate"
    <3>1. Called(p) /\ excuses \subseteq excuses' /\ excuses' # {}
      BY <2>1, <2>3 DEF Called
    <3>2. excuses' \subseteq Excuses
      BY <2>3 DEF ScheduleInv, ScheduleTypeOK, Excuses
    <3>3. op[p] = "delete"
      BY <1>1, <2>3 DEF ScheduleInv, Held
    <3>4. QED
      BY <1>1, <2>1, <2>3, <3>1, <3>2, <3>3, StageStep
  <2>4. QED
    BY <1>3, <2>2, <2>3 DEF DropSchedule
<1>4. QED
  BY <1>2, <1>3 DEF DropSchedule

LEMMA RecreateStep ==
  ASSUME ScheduleInv, NEW p \in Requests, Recreate(p)
  PROVE  ScheduleInv'
<1> DEFINE wanted == IF schedule = NoSchedule /\ Buildable(copy[p])
                       THEN Fresh(copy[p]) ELSE schedule
<1>1. at[p] = "recreating" /\ Busy(p) /\ copy[p] \in Checks
  BY CopyHeld DEF Recreate, Busy
<1>2. wanted \in Schedules \cup {NoSchedule}
  BY <1>1, FreshType DEF ScheduleInv, ScheduleTypeOK
<1> HIDE DEF wanted
<1>3. CASE UNCHANGED <<check, failures>> /\ schedule' = wanted /\ Done(p, {"migrated"})
  <2>1. Called(p) /\ {"migrated"} \in SUBSET Excuses
    BY <1>2, <1>3, FaultsWithin, ReasonsType DEF Called, Done, Excuses
  <2>2. QED
    BY <1>1, <1>3, <2>1, DoneStep
<1>4. CASE Fails(p, wanted)
  BY <1>1, <1>2, <1>4, FailsStep
<1>5. QED
  BY <1>3, <1>4 DEF Recreate, wanted

LEMMA SaveStep ==
  ASSUME ScheduleInv, NEW p \in Requests, SaveCheck(p)
  PROVE  ScheduleInv'
<1>1. at[p] = "saving" /\ Busy(p) /\ check' = copy[p] /\ UNCHANGED schedule
      /\ op[p] \in {"create", "edit", "toggle"}
  BY DEF SaveCheck, Busy, ScheduleInv, Held
<1>2. Called(p) /\ excuses' \subseteq Excuses /\ excuses' = excuses
  BY FaultsWithin DEF SaveCheck, Called, ScheduleInv, ScheduleTypeOK
<1>3. CASE op[p] = "create"
  <2>1. Continue(p, "creating")
    BY <1>3 DEF SaveCheck
  <2>2. excuses = {} => schedule = NoSchedule
    BY <1>1, <1>3 DEF ScheduleInv, Progress
  <2>3. QED
    BY <1>1, <1>2, <2>1, <2>2, StageStep
<1>4. CASE op[p] = "edit"
  <2>1. Continue(p, "describing")
    BY <1>4 DEF SaveCheck
  <2>2. QED
    BY <1>1, <1>2, <2>1, StageStep
<1>5. CASE op[p] = "toggle"
  <2>1. Continue(p, "switching")
    BY <1>5 DEF SaveCheck
  <2>2. QED
    BY <1>1, <1>2, <2>1, StageStep
<1>6. QED
  BY <1>1, <1>3, <1>4, <1>5

-----------------------------------------------------------------------------

LEMMA ArrivalStep ==
  ASSUME ScheduleInv, NEW p \in Requests,
         Create(p) \/ Edit(p) \/ Toggle(p) \/ Delete(p) \/ Migrate(p)
  PROVE  ScheduleInv'
<1>1. CASE Create(p)
  BY <1>1, ArriveStep DEF Create
<1>2. CASE Edit(p)
  BY <1>2, ArriveStep DEF Edit
<1>3. CASE Toggle(p)
  <2>1. PICK on \in BOOLEAN :
          Arrive(p, "toggle", [check EXCEPT !.enabled = on], "saving") /\ check # NoCheck
    BY <1>3 DEF Toggle
  <2>2. [check EXCEPT !.enabled = on] \in Checks
    BY <2>1 DEF ScheduleInv, ScheduleTypeOK, Checks
  <2>3. QED
    BY <2>1, <2>2, ArriveStep
<1>4. CASE Delete(p) \/ Migrate(p)
  <2>1. check \in Checks /\ check # NoCheck
    BY <1>4 DEF Delete, Migrate, ScheduleInv, ScheduleTypeOK
  <2>2. QED
    BY <1>4, <2>1, ArriveStep DEF Delete, Migrate
<1>5. QED
  BY <1>1, <1>2, <1>3, <1>4

\* An imported check has no schedule, and nothing else is under way.
LEMMA Imported ==
  ASSUME ScheduleInv, NEW p \in Requests, NEW c \in Checks,
         check = NoCheck, ~removed, \A q \in Requests : op[q] # "create",
         op' = [op EXCEPT ![p] = "import"], at' = [at EXCEPT ![p] = "done"], check' = c,
         UNCHANGED <<schedule, copy, failures, removed, crossed>>,
         \/ excuses' = excuses \cup {"imported"}
         \/ excuses' = excuses /\ c.type # "timed"
  PROVE  ScheduleInv'
<1> USE DEF ScheduleInv
<1>1. schedule' = NoSchedule /\ \A q \in Requests : ~Busy(q)
  BY DEF Alone
<1>2. \A q \in Requests : ~Busy(q)'
  BY <1>1 DEF Busy, ScheduleTypeOK
<1>3. check' # NoCheck
  BY NoneAssumption
<1>4. ScheduleTypeOK'
  <2>1. "imported" \in Excuses
    BY DEF Excuses
  <2>2. excuses' \subseteq Excuses
    BY <2>1 DEF ScheduleTypeOK
  <2>3. QED
    BY <2>2 DEF ScheduleTypeOK
<1>5. Held' /\ Alone' /\ Deletions'
  BY <1>1, <1>2, <1>3 DEF Held, Alone, Deletions, Busy
<1>6. Progress'
  BY <1>1, <1>2 DEF Progress, Busy
<1>7. QED
  BY <1>4, <1>5, <1>6

LEMMA ImportStep ==
  ASSUME ScheduleInv, NEW p \in Requests, Import(p)
  PROVE  ScheduleInv'
<1> USE DEF ScheduleInv
<1>1. /\ at[p] = "new" /\ check = NoCheck /\ ~removed
      /\ \A q \in Requests : op[q] # "create"
      /\ op' = [op EXCEPT ![p] = "import"] /\ at' = [at EXCEPT ![p] = "done"]
      /\ UNCHANGED <<schedule, copy, failures, removed, crossed>>
  BY DEF Import
<1>2. PICK c \in Checks :
        /\ c.enabled /\ check' = c
        /\ excuses' = IF c.type = "timed" THEN excuses \cup {"imported"} ELSE excuses
  BY DEF Import
<1>3. CASE c.type = "timed"
  <2>1. excuses' = excuses \cup {"imported"}
    BY <1>2, <1>3
  <2>2. QED
    BY <1>1, <1>2, <2>1, Imported
<1>4. CASE c.type # "timed"
  <2>1. excuses' = excuses
    BY <1>2, <1>4
  <2>2. QED
    BY <1>1, <1>2, <1>4, <2>1, Imported
<1>5. QED
  BY <1>3, <1>4

LEMMA ScheduleStep ==
  ASSUME ScheduleInv, ScheduleNext
  PROVE  ScheduleInv'
<1>1. PICK p \in Requests :
        \/ Create(p) \/ Import(p) \/ Edit(p) \/ Toggle(p) \/ Delete(p) \/ Migrate(p)
        \/ SaveCheck(p) \/ CreateSchedule(p) \/ Describe(p) \/ Switch(p)
        \/ Pause(p) \/ Resume(p) \/ Update(p) \/ DropSchedule(p) \/ Recreate(p) \/ Remove(p)
  BY DEF ScheduleNext
<1>2. QED
  BY <1>1, ArrivalStep, ImportStep, SaveStep, CreateScheduleStep, DescribeStep, SwitchStep,
     PauseStep, ResumeStep, UpdateStep, DropScheduleStep, RecreateStep, RemoveStep

LEMMA ScheduleStutter ==
  ASSUME ScheduleInv, UNCHANGED scheduleVars
  PROVE  ScheduleInv'
BY DEF scheduleVars, ScheduleInv, ScheduleTypeOK, Held, Alone, Deletions, Progress, Busy

LEMMA ScheduleInvariant == ScheduleSpec => []ScheduleInv
<1>1. ScheduleInv /\ [ScheduleNext]_scheduleVars => ScheduleInv'
  BY ScheduleStep, ScheduleStutter
<1>2. QED
  BY <1>1, ScheduleInitInv, PTL DEF ScheduleSpec

-----------------------------------------------------------------------------

\* Every variable of a check and its schedule keeps its type; in particular a
\* schedule is only ever built from a valid expression (_build_spec).
THEOREM ScheduleTypeCorrect == ScheduleSpec => []ScheduleTypeOK
<1>1. ScheduleInv => ScheduleTypeOK
  BY DEF ScheduleInv
<1>2. QED
  BY <1>1, ScheduleInvariant, PTL

\* A deleted check stays deleted and its schedule with it, unless requests
\* overlapped or a call failed (CheckDeleteView, delete_schedule).
THEOREM NothingLeft == ScheduleSpec => []DeletedLeavesNothing
<1>1. ScheduleInv => DeletedLeavesNothing
  BY DEF ScheduleInv, ScheduleTypeOK, Deletions, DeletedLeavesNothing
<1>2. QED
  BY <1>1, ScheduleInvariant, PTL

\* At rest, check and schedule disagree only for a reason the requests left
\* since they last agreed (CheckScheduler and its callers).
THEOREM DriftHasReason == ScheduleSpec => []DriftExplained
<1>1. ScheduleInv => DriftExplained
  BY DEF ScheduleInv, Progress, Busy, UnderWay, AtRest, DriftExplained
<1>2. QED
  BY <1>1, ScheduleInvariant, PTL

-----------------------------------------------------------------------------
HIDE DEF Continue, Buildable, Schedulable, Fresh, Running, Agree
USE DEF Goto, Stage, Answer

-----------------------------------------------------------------------------
(* CheckInvestigation: the inductive invariant of the types. *)

\* Attempt r is under way; Temporal waits for one of i.
Here(r) == pc[r] \notin {"none", "over"}
Mine(i) == tries[i] > 0 /\ Heard(Current(i)) /\ Here(Current(i))
Slack(i) == IF deleted \/ Mine(i) THEN 1 ELSE 0

\* The activities behind a workflow, and where it waits for an attempt.
Behind(s) == CASE s \in {"new", "context", "run"} -> 0
               [] s = "session" -> 1
               [] s \in {"investigate", "complete", "fail"} -> 2
               [] s \in {"close", "close_failed", "actions"} -> 3
               [] OTHER -> 4
PlaceOf(p) == CASE p \in {"starting", "creating"} -> "run"
                [] p = "opening" -> "session"
                [] p = "completing" -> "complete"
                [] p = "failing" -> "fail"
                [] OTHER -> "actions"

\* Every attempt given up, and the deletion, were faults.
FaultsCounted ==
  /\ IsFiniteSet(lost)
  /\ Cardinality(lost) + (IF deleted THEN 1 ELSE 0) <= faults

\* Of the attempts of an investigation the current one may be under way, at the
\* stage that began it, and otherwise only those given up.
Placed ==
  \A r \in Attempts :
    /\ r[2] > tries[r[1]] => pc[r] = "none" /\ r \notin lost
    /\ Here(r) /\ Heard(r) =>
         /\ r[2] = tries[r[1]] /\ stage[r[1]] = PlaceOf(pc[r])
         /\ pc[r] = "creating" => own[r[1]] = 0

\* An attempt is for the next activity, or for one that was given up or deleted.
Tried ==
  \A i \in Investigations :
    tries[i] <= Behind(stage[i]) + Cardinality(GivenUp(i)) + Slack(i)

\* The first row and session become those of the workflow, the others are each of
\* an attempt that was given up.
Past(i, p) == {r \in GivenUp(i) : pc[r] # p}
Made ==
  \A i \in Investigations :
    /\ made[i] <= (IF own[i] = 0 THEN 0 ELSE 1) + Cardinality(Past(i, "creating"))
    /\ opened[i] <= (IF session[i] = 0 THEN 0 ELSE 1) + Cardinality(Past(i, "opening"))
    /\ stage[i] = "new" => own[i] = 0 /\ made[i] = 0 /\ tries[i] = 0
    /\ stage[i] \in {"new", "context", "run", "session"} => session[i] = 0

Logging == \A r \in Attempts : pc[r] = "logging" => doing[r] \in Actions

FiniteRows == IsFiniteSet({x \in Rows : row[x].status # "none"})

IInv == TypeOK /\ FaultsCounted /\ Placed /\ Tried /\ Made /\ Logging /\ FiniteRows

-----------------------------------------------------------------------------
(* Numbers and sets. *)

Bound == MaxFaults + 1

LEMMA Parts ==
  /\ MaxFaults \in Nat /\ Bound \in Nat
  /\ \A r \in Attempts : r[1] \in Investigations /\ r[2] \in 1..(4 + MaxFaults) /\ r = <<r[1], r[2]>>
  /\ \A i \in Investigations, n \in 1..(4 + MaxFaults) : <<i, n>> \in Attempts
  /\ \A i \in Investigations, n \in 1..Bound : <<i, n>> \in Rows
  /\ \A x \in Rows : x[1] \in Investigations /\ x[2] \in 1..Bound /\ x = <<x[1], x[2]>>
BY BoundsAssumption DEF Attempts, Rows, MaxTries, Bound

\* The attempts given up, and the faults there were besides.
LEMMA Numbers ==
  ASSUME IInv, NEW i \in Investigations
  PROVE  /\ IsFiniteSet(GivenUp(i)) /\ Cardinality(GivenUp(i)) \in Nat
         /\ Cardinality(GivenUp(i)) + (IF deleted THEN 1 ELSE 0) <= faults
         /\ faults \in Nat /\ faults <= MaxFaults
         /\ Behind(stage[i]) \in 0..4 /\ Slack(i) \in 0..1
         /\ tries[i] \in Nat
         /\ \A p : IsFiniteSet(Past(i, p)) /\ Cardinality(Past(i, p)) \in Nat
                   /\ Cardinality(Past(i, p)) <= Cardinality(GivenUp(i))
<1>1. GivenUp(i) \subseteq lost /\ IsFiniteSet(lost)
  BY DEF GivenUp, IInv, FaultsCounted
<1>2. /\ IsFiniteSet(GivenUp(i)) /\ Cardinality(GivenUp(i)) \in Nat
      /\ Cardinality(GivenUp(i)) <= Cardinality(lost) /\ Cardinality(lost) \in Nat
  BY <1>1, FS_Subset, FS_CardinalityType
<1>3. faults \in Nat /\ faults <= MaxFaults /\ tries[i] \in Nat
  BY BoundsAssumption DEF IInv, TypeOK, MaxTries
<1>4. Cardinality(GivenUp(i)) + (IF deleted THEN 1 ELSE 0) <= faults
  BY <1>2, <1>3 DEF IInv, FaultsCounted
<1>5. \A p : Past(i, p) \subseteq GivenUp(i)
  BY DEF Past
<1>6. ASSUME NEW p
      PROVE  /\ IsFiniteSet(Past(i, p)) /\ Cardinality(Past(i, p)) \in Nat
             /\ Cardinality(Past(i, p)) <= Cardinality(GivenUp(i))
  BY <1>2, <1>5, FS_Subset, FS_CardinalityType
<1>7. QED
  BY <1>2, <1>3, <1>4, <1>6 DEF Behind, Slack

\* A row is written, so that one more exists at most.
LEMMA RowsStayFinite ==
  ASSUME FiniteRows, NEW x, \A y \in Rows : y # x => row'[y] = row[y]
  PROVE  FiniteRows'
<1>1. {y \in Rows : row'[y].status # "none"} \subseteq {y \in Rows : row[y].status # "none"} \cup {x}
  OBVIOUS
<1>2. QED
  BY <1>1, FS_AddElement, FS_Subset DEF FiniteRows

LEMMA InitInv == Init => IInv
<1> SUFFICES ASSUME Init PROVE IInv
  OBVIOUS
<1> USE DEF Init
<1>0. IsFiniteSet({}) /\ Cardinality({}) = 0
  BY FS_EmptySet
<1>1. TypeOK
  <2>1. /\ 0 \in 0..MaxTries /\ 0 \in 0..(MaxFaults + 1) /\ 0 \in 0..MaxFaults /\ 0 \in Nat
    BY BoundsAssumption DEF MaxTries
  <2>2. row \in [Rows -> [status : {"none", "queued", "running", "completed", "failed"},
                          health : Health, session : 0..(MaxFaults + 1)]]
    BY <2>1 DEF NoRow, Health
  <2>3. QED
    BY <2>1, <2>2 DEF TypeOK, Health, Stages
<1>2. FaultsCounted
  BY <1>0 DEF FaultsCounted
<1>3. Placed
  BY Parts DEF Placed, Here
<1>L. Logging
  BY DEF Logging
<1>4. \A i \in Investigations : GivenUp(i) = {} /\ \A p : Past(i, p) = {}
  BY DEF GivenUp, Past
<1>5. Tried
  <2>1. \A i \in Investigations : Cardinality(GivenUp(i)) = 0
    BY <1>0, <1>4
  <2>2. QED
    BY <2>1 DEF Tried, Behind, Slack, Mine
<1>6. Made
  <2>1. \A i \in Investigations : Cardinality(Past(i, "creating")) = 0
                                 /\ Cardinality(Past(i, "opening")) = 0
    BY <1>0, <1>4
  <2>2. QED
    BY <2>1 DEF Made
<1>7. {x \in Rows : row[x].status # "none"} = {}
  BY DEF NoRow
<1>8. FiniteRows
  BY <1>0, <1>7 DEF FiniteRows
<1>9. QED
  BY <1>1, <1>2, <1>3, <1>5, <1>6, <1>8, <1>L DEF IInv

-----------------------------------------------------------------------------
(* The steps of a workflow between its activities. *)

LEMMA BehindAt ==
  /\ Behind("new") = 0 /\ Behind("context") = 0 /\ Behind("run") = 0 /\ Behind("session") = 1
  /\ Behind("investigate") = 2 /\ Behind("complete") = 2 /\ Behind("fail") = 2
  /\ Behind("close") = 3 /\ Behind("close_failed") = 3 /\ Behind("actions") = 3
  /\ Behind("completed") = 4 /\ Behind("failed") = 4 /\ Behind("stuck") = 4
BY DEF Behind

\* A new row of i fits in the bounds.
LEMMA NewRowTyped ==
  ASSUME IInv, NEW i \in Investigations, NEW status \in {"queued", "running"},
         NewRow(i, status), made[i] + 1 <= Bound
  PROVE  /\ made' \in [Investigations -> 0..(MaxFaults + 1)]
         /\ row' \in [Rows -> [status : {"none", "queued", "running", "completed", "failed"},
                               health : Health, session : 0..(MaxFaults + 1)]]
         /\ stamp' \in [Rows -> Nat]
         /\ FiniteRows'
         /\ \A k \in Investigations : made'[k] = IF k = i THEN made[k] + 1 ELSE made[k]
<1> DEFINE x == <<i, made[i] + 1>>
           n == Cardinality({y \in Rows : row[y].status # "none"}) + 1
<1>1. /\ made \in [Investigations -> 0..(MaxFaults + 1)]
      /\ row \in [Rows -> [status : {"none", "queued", "running", "completed", "failed"},
                           health : Health, session : 0..(MaxFaults + 1)]]
      /\ stamp \in [Rows -> Nat]
  BY DEF IInv, TypeOK
<1>2. made[i] + 1 \in 0..(MaxFaults + 1)
  BY <1>1, Parts DEF Bound
<1>3. n \in Nat
  BY FS_CardinalityType DEF IInv, FiniteRows
<1>4. [NoRow EXCEPT !.status = status] \in
        [status : {"none", "queued", "running", "completed", "failed"},
         health : Health, session : 0..(MaxFaults + 1)]
  BY Parts DEF NoRow, Health
<1>5. /\ made' = [made EXCEPT ![i] = made[i] + 1]
      /\ row' = [row EXCEPT ![x] = [NoRow EXCEPT !.status = status]]
      /\ stamp' = [stamp EXCEPT ![x] = n]
  BY DEF NewRow
<1>6. \A y \in Rows : y # x => row'[y] = row[y]
  BY <1>1, <1>5
<1>7. FiniteRows'
  BY <1>6, RowsStayFinite DEF IInv
<1> HIDE DEF x, n
<1>8. QED
  BY <1>1, <1>2, <1>3, <1>4, <1>5, <1>7

LEMMA WorkflowTypes ==
  ASSUME IInv, NEW i \in Investigations, Start(i) \/ Advance(i) \/ CannotOpen(i)
  PROVE  TypeOK' /\ FiniteRows'
<1> USE DEF IInv
<1>1. CASE Start(i)
  <2>1. after'[i] \subseteq Investigations /\ after' = [after EXCEPT ![i] = after'[i]]
        /\ stage' \in [Investigations -> Stages]
    BY <1>1 DEF Start, TypeOK, Stages
  <2>2. CASE NewRow(i, "queued") /\ own' = [own EXCEPT ![i] = 1]
    <3>1. made[i] = 0
      BY <1>1 DEF Made, Start
    <3>2. 1 \in 0..(MaxFaults + 1) /\ made[i] + 1 <= Bound
      BY <3>1, Parts DEF Bound
    <3>3. own' \in [Investigations -> 0..(MaxFaults + 1)]
      BY <2>2, <3>2 DEF TypeOK
    <3>4. QED
      BY <1>1, <2>1, <2>2, <3>2, <3>3, NewRowTyped DEF Start, TypeOK, attemptVars, sessionVars
  <2>3. CASE UNCHANGED <<rowVars, own>>
    BY <1>1, <2>1, <2>3 DEF Start, TypeOK, attemptVars, sessionVars, rowVars, FiniteRows
  <2>4. QED
    BY <1>1, <2>2, <2>3 DEF Start
<1>2. CASE LoadContext(i) \/ CannotOpen(i)
  <2>1. faults' \in 0..MaxFaults
    BY <1>2, Parts DEF LoadContext, CannotOpen, Fault, TypeOK
  <2>2. stage' \in [Investigations -> Stages]
    BY <1>2 DEF LoadContext, CannotOpen, TypeOK, Stages, Final
  <2>3. UNCHANGED <<own, session, verdict, rowVars, sessionVars, recent, deleted, attemptVars,
                    lost, historyVars>>
    BY <1>2 DEF LoadContext, CannotOpen
  <2>4. QED
    BY <2>1, <2>2, <2>3 DEF TypeOK, attemptVars, sessionVars, rowVars, historyVars, FiniteRows
<1>3. CASE Investigate(i)
  <2>1. stage' \in [Investigations -> Stages]
    BY <1>3 DEF Investigate, Evaluate, TypeOK, Stages
  <2>2. verdict' \in [Investigations -> Health]
    <3>1. verdict \in [Investigations -> Health]
      BY DEF TypeOK
    <3>2. verdict' = verdict \/ \E h \in Health : verdict' = [verdict EXCEPT ![i] = h]
      BY <1>3 DEF Investigate, Evaluate
    <3>3. QED
      BY <3>1, <3>2
  <2>3. QED
    BY <1>3, <2>1, <2>2 DEF Investigate, Evaluate, TypeOK, attemptVars, sessionVars, rowVars,
      historyVars,
                      FiniteRows
<1>4. CASE Close(i)
  <2>1. stage' \in [Investigations -> Stages]
    BY <1>4 DEF Close, TypeOK, Stages, Final
  <2>2. session[i] \in 0..(MaxFaults + 1)
    BY DEF TypeOK
  <2>3. session[i] # 0 => <<i, session[i]>> \in Investigations \X (1..(MaxFaults + 1))
    BY <2>2, Parts
  <2>4. closed' \subseteq Investigations \X (1..(MaxFaults + 1))
    BY <1>4, <2>3 DEF Close, TypeOK
  <2>5. QED
    BY <1>4, <2>1, <2>4 DEF Close, TypeOK, attemptVars, rowVars, historyVars, FiniteRows
<1>5. QED
  BY <1>1, <1>2, <1>3, <1>4 DEF Advance

LEMMA WorkflowInv ==
  ASSUME IInv, NEW i \in Investigations, Start(i) \/ Advance(i) \/ CannotOpen(i)
  PROVE  IInv'
<1> USE DEF IInv
<1>1. TypeOK' /\ FiniteRows'
  BY WorkflowTypes
<1>2. /\ UNCHANGED <<tries, pc, doing, lost, deleted, opened, session>>
      /\ \E s \in Stages \ {"new"} : stage' = [stage EXCEPT ![i] = s]
      /\ faults' = faults \/ faults' = faults + 1
  BY DEF Start, Advance, LoadContext, CannotOpen, Investigate, Evaluate, Close, attemptVars,
    sessionVars,
         Fault, Stages, Final
<1>3. PICK s \in Stages \ {"new"} : stage' = [stage EXCEPT ![i] = s]
  BY <1>2
<1>4. stage \in [Investigations -> Stages] /\ own \in [Investigations -> 0..(MaxFaults + 1)]
  BY DEF TypeOK
<1>S. \/ stage[i] = "new" /\ s = "context"
      \/ stage[i] = "context" /\ s \in {"failed", "run"}
      \/ stage[i] = "session" /\ s = "fail"
      \/ stage[i] = "investigate" /\ s \in {"complete", "fail"}
      \/ stage[i] \in {"close", "close_failed"} /\ s \in {"actions", "failed"}
  <2>1. stage'[i] = s
    BY <1>3, <1>4
  <2>2. QED
    BY <1>4, <2>1 DEF Start, Advance, LoadContext, CannotOpen, Investigate, Evaluate, Close
<1>5. Behind(stage[i]) \in Nat /\ Behind(s) \in Nat /\ Behind(stage[i]) <= Behind(s)
  <2>1. \/ Behind(stage[i]) = 0 /\ Behind(s) = 0
        \/ Behind(stage[i]) = 0 /\ Behind(s) = 4
        \/ Behind(stage[i]) = 1 /\ Behind(s) = 2
        \/ Behind(stage[i]) = 2 /\ Behind(s) = 2
        \/ Behind(stage[i]) = 3 /\ Behind(s) = 3
        \/ Behind(stage[i]) = 3 /\ Behind(s) = 4
    BY <1>S, BehindAt, Zenon
  <2> DEFINE m == Behind(stage[i])
             n == Behind(s)
  <2> HIDE DEF m, n
  <2>2. m \in Nat /\ n \in Nat /\ m <= n
    BY <2>1 DEF m, n
  <2>3. QED
    BY <2>2 DEF m, n
<1>6. FaultsCounted'
  <2>1. Cardinality(lost) \in Nat /\ faults \in Nat
    BY FS_CardinalityType, Parts DEF FaultsCounted, TypeOK
  <2>2. QED
    BY <1>2, <2>1 DEF FaultsCounted
<1>7. \A r \in Attempts : Here(r) /\ Heard(r) /\ r[1] = i => FALSE
  <2> SUFFICES ASSUME NEW r \in Attempts, Here(r), Heard(r), r[1] = i
               PROVE  FALSE
    OBVIOUS
  <2>1. r[2] = tries[i] /\ stage[i] = PlaceOf(pc[r]) /\ r = Current(i) /\ tries[i] > 0
    BY Parts DEF Placed, Current
  <2>2. stage[i] \in {"run", "session", "complete", "fail", "actions"}
    BY <2>1 DEF PlaceOf
  <2>3. CannotOpen(i)
    BY <2>2 DEF Start, Advance, LoadContext, Investigate, Evaluate, Close
  <2>4. Idle(i)
    BY <2>3 DEF CannotOpen
  <2>5. pc[r] = "over" \/ r \in lost
    BY <2>1, <2>4 DEF Idle
  <2>6. QED
    BY <2>5 DEF Here, Heard
<1>8. \A k \in Investigations : k # i => own'[k] = own[k] /\ made'[k] = made[k]
  <2>1. own' = own \/ own' = [own EXCEPT ![i] = 1]
    BY DEF Start, Advance, LoadContext, CannotOpen, Investigate, Evaluate, Close
  <2>2. made' = made \/ made' = [made EXCEPT ![i] = @ + 1]
    BY DEF Start, Advance, LoadContext, CannotOpen, Investigate, Evaluate, Close, NewRow, rowVars
  <2>3. QED
    BY <1>4, <2>1, <2>2 DEF TypeOK
<1>9. Placed'
  BY <1>2, <1>3, <1>4, <1>7, <1>8, Parts DEF Placed, Here, Heard
<1>10. Tried'
  <2> SUFFICES ASSUME NEW k \in Investigations
               PROVE  (tries[k] <= Behind(stage[k]) + Cardinality(GivenUp(k)) + Slack(k))'
    BY DEF Tried
  <2>1. tries'[k] = tries[k] /\ GivenUp(k)' = GivenUp(k) /\ Slack(k)' = Slack(k)
    BY <1>2 DEF GivenUp, Slack, Mine, Heard, Here, Current
  <2>2. Behind(stage[k]) <= Behind(stage'[k]) /\ Behind(stage'[k]) \in Nat /\ Behind(stage[k]) \in Nat
    <3>1. CASE k = i
      BY <1>3, <1>4, <1>5, <3>1
    <3>2. CASE k # i
      <4>1. stage'[k] = stage[k]
        BY <1>3, <1>4, <3>2
      <4>2. Behind(stage[k]) \in Nat
        BY Numbers
      <4>3. QED
        BY <4>1, <4>2
    <3>3. QED
      BY <3>1, <3>2
  <2>3. tries[k] <= Behind(stage[k]) + Cardinality(GivenUp(k)) + Slack(k)
    BY DEF Tried
  <2>4. Cardinality(GivenUp(k)) \in Nat /\ Slack(k) \in Nat /\ tries[k] \in Nat
    BY Numbers
  <2>5. QED
    BY <2>1, <2>2, <2>3, <2>4
<1>11. Made'
  <2>1. \A k, p : Past(k, p)' = Past(k, p)
    BY <1>2 DEF Past, GivenUp
  <2>2. UNCHANGED <<own, made>> \/ (own[i] = 0 /\ made[i] = 0 /\ made'[i] = 1 /\ own'[i] = 1)
    <3>1. CASE Start(i)
      <4>1. own[i] = 0 /\ made[i] = 0
        BY <3>1 DEF Start, Made
      <4>2. CASE NewRow(i, "queued") /\ own' = [own EXCEPT ![i] = 1]
        BY <1>4, <4>1, <4>2 DEF NewRow, TypeOK
      <4>3. QED
        BY <3>1, <4>2 DEF Start, rowVars
    <3>2. QED
      BY <3>1 DEF Advance, LoadContext, CannotOpen, Investigate, Evaluate, Close, rowVars
  <2>3. \A k \in Investigations :
          made'[k] <= (IF own'[k] = 0 THEN 0 ELSE 1) + Cardinality(Past(k, "creating"))
    <3> SUFFICES ASSUME NEW k \in Investigations
                 PROVE  made'[k] <= (IF own'[k] = 0 THEN 0 ELSE 1) + Cardinality(Past(k, "creating"))
      OBVIOUS
    <3>1. /\ made[k] <= (IF own[k] = 0 THEN 0 ELSE 1) + Cardinality(Past(k, "creating"))
          /\ Cardinality(Past(k, "creating")) \in Nat
      BY Numbers DEF Made
    <3>2. \/ made'[k] = made[k] /\ own'[k] = own[k]
          \/ made'[k] = 1 /\ own'[k] = 1
      BY <1>8, <2>2
    <3>3. QED
      BY <3>1, <3>2
  <2>4. s \in {"new", "context", "run", "session"} => session[i] = 0
    BY <1>S DEF Made
  <2>5. \A k \in Investigations : stage'[k] \in {"new", "context", "run", "session"} => session[k] = 0
    BY <1>3, <1>4, <2>4 DEF Made
  <2>6. \A k \in Investigations : stage'[k] = "new" => own'[k] = 0 /\ made'[k] = 0 /\ tries[k] = 0
    BY <1>3, <1>4, <1>8 DEF Made
  <2>7. \A k \in Investigations :
          opened'[k] <= (IF session'[k] = 0 THEN 0 ELSE 1) + Cardinality(Past(k, "opening"))
    BY <1>2 DEF Made
  <2>8. QED
    BY <1>2, <2>1, <2>3, <2>5, <2>6, <2>7 DEF Made
<1>12. Logging'
  BY <1>2 DEF Logging
<1>13. QED
  BY <1>1, <1>6, <1>9, <1>10, <1>11, <1>12

-----------------------------------------------------------------------------
(* The steps that begin an attempt. *)

Waits == {"starting", "creating", "opening", "completing", "failing", "acting"}
Passes == {<<"run", "session">>, <<"session", "fail">>, <<"session", "investigate">>,
           <<"complete", "close">>, <<"fail", "close_failed">>}

\* An attempt of i begins at p; the workflow goes to s.
Begun(i, p, s) ==
  /\ Idle(i) /\ NextAttempt(i, p) /\ stage' = [stage EXCEPT ![i] = s]
  /\ \/ p = "over" /\ <<stage[i], s>> \in Passes
     \/ /\ p \in Waits /\ ~deleted /\ s = stage[i] /\ s = PlaceOf(p)
        /\ p = "creating" => own[i] = 0

\* The workflow of i has met its deleted check.
Stuck(i) ==
  /\ Idle(i) /\ stage[i] = "actions" /\ stage' = [stage EXCEPT ![i] = "stuck"]
  /\ UNCHANGED <<tries, pc, due, session>>

LEMMA BeginEffect ==
  ASSUME IInv, NEW i \in Investigations, Begin(i)
  PROVE  /\ UNCHANGED <<own, verdict, rowVars, sessionVars, recent, deleted, doing, lost, faults,
                        historyVars>>
         /\ Stuck(i) \/ \E p \in Waits \cup {"over"}, s \in Stages : Begun(i, p, s)
         /\ \/ session' = session
            \/ /\ stage[i] = "session" /\ stage'[i] # "session" /\ Present(i)
               /\ session' = [session EXCEPT ![i] = row[Own(i)].session]
         /\ \/ due' = due
            \/ due' = [due EXCEPT ![<<i, tries[i] + 1>>] = Wanted(i)]
<1>1. stage \in [Investigations -> Stages]
  BY DEF IInv, TypeOK
<1>2. stage' = stage => stage' = [stage EXCEPT ![i] = stage[i]]
  BY <1>1
<1>3. CASE BeginRun(i)
  <2>1. CASE NextAttempt(i, "over") /\ Stage(i, "session")
    <3>1. Begun(i, "over", "session")
      BY <1>3, <2>1 DEF BeginRun, Begun, Passes
    <3>2. QED
      BY <1>3, <3>1 DEF BeginRun, Stages
  <2>2. CASE ~deleted /\ NextAttempt(i, IF own[i] = 0 THEN "creating" ELSE "starting")
             /\ UNCHANGED stage
    <3> DEFINE p == IF own[i] = 0 THEN "creating" ELSE "starting"
    <3>1. Begun(i, p, stage[i])
      BY <1>2, <1>3, <2>2 DEF BeginRun, Begun, Waits, PlaceOf
    <3>2. p \in Waits /\ stage[i] \in Stages
      BY <1>1 DEF Waits
    <3>3. QED
      BY <1>3, <3>1, <3>2 DEF BeginRun
  <2>3. QED
    BY <1>3, <2>1, <2>2 DEF BeginRun
<1>4. CASE BeginOpen(i)
  <2>1. CASE NextAttempt(i, "over") /\ Stage(i, "fail") /\ UNCHANGED session
    <3>1. Begun(i, "over", "fail")
      BY <1>4, <2>1 DEF BeginOpen, Begun, Passes
    <3>2. QED
      BY <1>4, <2>1, <3>1 DEF BeginOpen, Stages
  <2>2. CASE /\ Present(i) /\ NextAttempt(i, "over") /\ Stage(i, "investigate")
             /\ session' = [session EXCEPT ![i] = row[Own(i)].session]
    <3>1. Begun(i, "over", "investigate")
      BY <1>4, <2>2 DEF BeginOpen, Begun, Passes
    <3>2. stage[i] = "session" /\ stage'[i] = "investigate"
      BY <1>1, <1>4, <2>2 DEF BeginOpen
    <3>3. QED
      BY <1>4, <2>2, <3>1, <3>2 DEF BeginOpen, Stages
  <2>3. CASE Present(i) /\ NextAttempt(i, "opening") /\ UNCHANGED <<stage, session>>
    <3>1. Begun(i, "opening", stage[i])
      BY <1>2, <1>4, <2>3 DEF BeginOpen, Begun, Waits, PlaceOf, Present
    <3>2. QED
      BY <1>1, <1>4, <2>3, <3>1 DEF BeginOpen, Waits
  <2>4. QED
    BY <1>4, <2>1, <2>2, <2>3 DEF BeginOpen
<1>5. CASE BeginReport(i)
  <2>1. ASSUME NEW p, p = IF stage[i] = "complete" THEN "completing" ELSE "failing",
               Present(i), NextAttempt(i, p), UNCHANGED stage
        PROVE  p \in Waits /\ Begun(i, p, stage[i])
    BY <1>2, <1>5, <2>1 DEF BeginReport, Begun, Waits, PlaceOf, Present
  <2>2. ASSUME NEW s, s = IF stage[i] = "complete" THEN "close" ELSE "close_failed",
               NextAttempt(i, "over"), Stage(i, s)
        PROVE  s \in Stages /\ Begun(i, "over", s)
    BY <1>5, <2>2 DEF BeginReport, Begun, Passes, Stages
  <2>3. QED
    BY <1>1, <1>5, <2>1, <2>2 DEF BeginReport
<1>6. CASE BeginActions(i)
  <2>1. CASE deleted
    BY <1>6, <2>1 DEF BeginActions, Stuck, attemptVars
  <2>2. CASE ~deleted
    <3>1. Begun(i, "acting", stage[i])
      BY <1>2, <1>6, <2>2 DEF BeginActions, Begun, Waits, PlaceOf
    <3>2. QED
      BY <1>1, <1>6, <2>2, <3>1 DEF BeginActions, Waits
  <2>3. QED
    BY <2>1, <2>2
<1>7. QED
  BY <1>3, <1>4, <1>5, <1>6 DEF Begin

\* No attempt of an idle workflow is under way but those given up.
LEMMA IdleNone ==
  ASSUME IInv, NEW i \in Investigations, Idle(i)
  PROVE  /\ ~Mine(i)
         /\ \A r \in Attempts : Here(r) /\ Heard(r) => r[1] # i
<1>1. ~Mine(i)
  BY DEF Idle, Mine, Heard, Here
<1>2. \A r \in Attempts : Here(r) /\ Heard(r) /\ r[1] = i => r = Current(i) /\ tries[i] > 0
  BY Parts DEF IInv, Placed, Current
<1>3. QED
  BY <1>1, <1>2 DEF Mine

\* There is an attempt left.
LEMMA AttemptLeft ==
  ASSUME IInv, NEW i \in Investigations, NEW p, NEW s, Begun(i, p, s)
  PROVE  /\ tries[i] + 1 \in 0..MaxTries /\ <<i, tries[i] + 1>> \in Attempts
         /\ (tries[i] <= Behind(stage[i]) + Cardinality(GivenUp(i)) + (IF deleted THEN 1 ELSE 0))
         /\ IF p = "over" THEN Behind(s) = Behind(stage[i]) + 1 ELSE Behind(s) = Behind(stage[i])
<1> DEFINE d == Behind(stage[i])
           e == Behind(s)
           g == Cardinality(GivenUp(i))
<1>1. Slack(i) = IF deleted THEN 1 ELSE 0
  BY IdleNone DEF Slack, Begun
<1>2. /\ d \in 0..3 /\ e \in 0..3
      /\ IF p = "over" THEN e = d + 1 ELSE e = d /\ ~deleted
  <2>1. CASE p = "over"
    <3>1. \/ Behind(stage[i]) = 0 /\ Behind(s) = 1
          \/ Behind(stage[i]) = 1 /\ Behind(s) = 2
          \/ Behind(stage[i]) = 2 /\ Behind(s) = 3
      <4>1. <<stage[i], s>> \in Passes
        BY <2>1 DEF Begun, Waits
      <4>2. \/ stage[i] = "run" /\ s = "session"
            \/ stage[i] = "session" /\ s \in {"fail", "investigate"}
            \/ stage[i] = "complete" /\ s = "close"
            \/ stage[i] = "fail" /\ s = "close_failed"
        BY <4>1 DEF Passes
      <4>3. QED
        BY <4>2, BehindAt, Zenon
    <3> HIDE DEF d, e
    <3>2. \/ d = 0 /\ e = 1
          \/ d = 1 /\ e = 2
          \/ d = 2 /\ e = 3
      BY <3>1 DEF d, e
    <3>3. QED
      BY <2>1, <3>2
  <2>2. CASE p # "over"
    <3>1. s = stage[i] /\ ~deleted /\ s \in {"run", "session", "complete", "fail", "actions"}
      BY <2>2 DEF Begun, PlaceOf
    <3>2. e = d /\ (d = 0 \/ d = 1 \/ d = 2 \/ d = 3)
      BY <3>1, BehindAt, Zenon
    <3> HIDE DEF d, e
    <3>3. QED
      BY <2>2, <3>1, <3>2
  <2>3. QED
    BY <2>1, <2>2
<1>3. tries[i] <= d + g + (IF deleted THEN 1 ELSE 0)
  BY <1>1 DEF IInv, Tried
<1>4. /\ g \in Nat /\ tries[i] \in Nat /\ faults \in Nat /\ faults <= MaxFaults
      /\ g + (IF deleted THEN 1 ELSE 0) <= faults
  BY Numbers
<1> HIDE DEF d, e, g
<1>5. tries[i] + 1 \in 1..(4 + MaxFaults)
  BY <1>2, <1>3, <1>4, Parts
<1>6. QED
  BY <1>2, <1>3, <1>5, Parts DEF d, e, g, MaxTries

LEMMA BegunInv ==
  ASSUME IInv, NEW i \in Investigations, NEW p \in Waits \cup {"over"}, NEW s \in Stages,
         Begin(i), Begun(i, p, s)
  PROVE  IInv'
<1> USE DEF IInv
<1> DEFINE n == <<i, tries[i] + 1>>
<1>1. /\ UNCHANGED <<own, verdict, rowVars, sessionVars, recent, deleted, doing, lost, faults,
                     historyVars>>
      /\ \/ session' = session
         \/ /\ stage[i] = "session" /\ stage'[i] # "session" /\ Present(i)
            /\ session' = [session EXCEPT ![i] = row[Own(i)].session]
      /\ due' = due \/ due' = [due EXCEPT ![n] = Wanted(i)]
  BY BeginEffect
<1>2. /\ tries' = [tries EXCEPT ![i] = @ + 1] /\ pc' = [pc EXCEPT ![n] = p]
      /\ stage' = [stage EXCEPT ![i] = s]
  BY DEF Begun, NextAttempt
<1>3. /\ tries[i] + 1 \in 0..MaxTries /\ n \in Attempts
      /\ n[1] = i /\ n[2] = tries[i] + 1 /\ n \notin lost
  <2>1. tries[i] + 1 \in 0..MaxTries /\ n \in Attempts
    BY AttemptLeft
  <2>2. n[2] > tries[i]
    BY Numbers
  <2>3. QED
    BY <2>1, <2>2 DEF Placed
<1> HIDE DEF n
<1>4. TypeOK'
  <2>1. stage' \in [Investigations -> Stages] /\ tries' \in [Investigations -> 0..MaxTries]
    BY <1>2, <1>3 DEF TypeOK
  <2>2. pc' \in [Attempts -> {"none", "starting", "creating", "opening", "completing", "failing",
                              "acting", "logging", "over"}]
    BY <1>2 DEF TypeOK, Waits
  <2>3. Wanted(i) \in SUBSET Actions
    BY DEF Wanted
  <2>4. due' \in [Attempts -> SUBSET Actions]
    BY <1>1, <2>3 DEF TypeOK
  <2>5. session' \in [Investigations -> 0..(MaxFaults + 1)]
    <3>1. CASE session' = session
      BY <3>1 DEF TypeOK
    <3>2. CASE Present(i) /\ session' = [session EXCEPT ![i] = row[Own(i)].session]
      <4>1. own[i] \in 1..Bound
        BY <3>2, Parts DEF Present, TypeOK, Bound
      <4>2. Own(i) \in Rows
        BY <4>1, Parts DEF Own
      <4>3. row[Own(i)].session \in 0..(MaxFaults + 1)
        BY <4>2 DEF TypeOK
      <4>4. QED
        BY <3>2, <4>3 DEF TypeOK
    <3>3. QED
      BY <1>1, <3>1, <3>2
  <2>6. QED
    BY <1>1, <2>1, <2>2, <2>4, <2>5 DEF TypeOK, rowVars, sessionVars, historyVars
<1>5. FaultsCounted'
  BY <1>1 DEF FaultsCounted
<1>6. FiniteRows'
  BY <1>1 DEF FiniteRows, rowVars
<1>7. \A r \in Attempts : /\ pc'[r] = IF r = n THEN p ELSE pc[r]
                          /\ tries'[r[1]] = IF r[1] = i THEN tries[i] + 1 ELSE tries[r[1]]
                          /\ stage'[r[1]] = IF r[1] = i THEN s ELSE stage[r[1]]
  BY <1>2, Parts DEF TypeOK
<1>8. Placed'
  <2> SUFFICES ASSUME NEW r \in Attempts
               PROVE  /\ r[2] > tries'[r[1]] => pc'[r] = "none" /\ r \notin lost
                      /\ Here(r)' /\ r \notin lost =>
                           /\ r[2] = tries'[r[1]] /\ stage'[r[1]] = PlaceOf(pc'[r])
                           /\ pc'[r] = "creating" => own[r[1]] = 0
    BY <1>1 DEF Placed, Heard
  <2>0. tries[r[1]] \in Nat /\ r[2] \in Nat /\ tries[i] \in Nat
    BY Parts, Numbers
  <2>1. CASE r = n
    <3>1. Here(r)' => s = PlaceOf(p) /\ (p = "creating" => own[i] = 0)
      BY <1>7, <2>1 DEF Here, Begun
    <3>2. r[2] = tries'[r[1]] /\ stage'[r[1]] = s /\ pc'[r] = p /\ r[1] = i
      BY <1>3, <1>7, <2>1
    <3>3. QED
      BY <1>3, <2>0, <2>1, <3>1, <3>2
  <2>2. CASE r # n /\ r[1] = i
    <3>1. ~(Here(r) /\ Heard(r))
      BY <2>2, IdleNone DEF Begun
    <3>2. pc'[r] = pc[r] /\ tries'[r[1]] = tries[r[1]] + 1
      BY <1>7, <2>2
    <3>3. r[2] > tries'[r[1]] => r[2] > tries[r[1]]
      BY <2>0, <3>2
    <3>4. QED
      BY <3>1, <3>2, <3>3 DEF Placed, Here, Heard
  <2>3. CASE r[1] # i
    <3>1. r # n /\ pc'[r] = pc[r] /\ tries'[r[1]] = tries[r[1]] /\ stage'[r[1]] = stage[r[1]]
      BY <1>3, <1>7, <2>3
    <3>2. QED
      BY <3>1 DEF Placed, Here, Heard
  <2>4. QED
    BY <2>1, <2>2, <2>3
<1>9. \A k \in Investigations : GivenUp(k)' = GivenUp(k)
  BY <1>1 DEF GivenUp
<1>10. Tried'
  <2> SUFFICES ASSUME NEW k \in Investigations
               PROVE  tries'[k] <= Behind(stage'[k]) + Cardinality(GivenUp(k)) + Slack(k)'
    BY <1>9 DEF Tried
  <2>1. CASE k = i
    <3> DEFINE d == Behind(stage[i])
               e == Behind(s)
               g == Cardinality(GivenUp(i))
               z == Slack(i)'
    <3>1. /\ tries[i] <= d + g + (IF deleted THEN 1 ELSE 0)
          /\ IF p = "over" THEN e = d + 1 ELSE e = d
      BY AttemptLeft
    <3>2. p # "over" => Mine(i)' /\ ~deleted
      <4>1. ASSUME p # "over"
            PROVE  Mine(i)' /\ ~deleted
        <5>1. tries'[i] = tries[i] + 1 /\ tries[i] \in Nat
          BY <1>2, Numbers DEF TypeOK
        <5>2. Current(i)' = n
          BY <5>1 DEF Current, n
        <5>3. pc'[n] = p /\ p \in Waits /\ ~deleted
          BY <1>3, <1>7, <4>1 DEF Begun
        <5>4. QED
          BY <1>1, <1>3, <5>1, <5>2, <5>3 DEF Mine, Heard, Here, Waits
      <4>2. QED
        BY <4>1
    <3>3. z \in 0..1 /\ (p # "over" \/ deleted => z = 1)
      BY <1>1, <3>2 DEF Slack
    <3>4. d \in Nat /\ g \in Nat /\ tries[i] \in Nat
      BY Numbers
    <3>5. tries'[i] = tries[i] + 1 /\ stage'[i] = s
      BY <1>2 DEF TypeOK
    <3>6. ~deleted \/ p = "over"
      BY <3>2
    <3> HIDE DEF d, e, g, z
    <3>7. tries[i] + 1 <= e + g + z
      BY <3>1, <3>3, <3>4, <3>6
    <3>8. QED
      BY <2>1, <3>5, <3>7 DEF e, g, z
  <2>2. CASE k # i
    <3>1. tries'[k] = tries[k] /\ stage'[k] = stage[k]
      BY <1>2, <2>2 DEF TypeOK
    <3>2. Current(k)' = Current(k) /\ Current(k) # n
      BY <1>3, <2>2, <3>1 DEF Current
    <3>3. pc'[Current(k)] = pc[Current(k)]
      BY <1>2, <3>2 DEF TypeOK
    <3>4. Mine(k)' <=> Mine(k)
      BY <1>1, <3>1, <3>2, <3>3 DEF Mine, Heard, Here
    <3>5. Slack(k)' = Slack(k)
      BY <1>1, <3>4 DEF Slack
    <3>6. tries[k] <= Behind(stage[k]) + Cardinality(GivenUp(k)) + Slack(k)
      BY DEF Tried
    <3>7. QED
      BY <3>1, <3>5, <3>6
  <2>3. QED
    BY <2>1, <2>2
<1>11. Made'
  <2>1. \A k \in Investigations : \A q : Past(k, q)' = Past(k, q)
    <3> SUFFICES ASSUME NEW k \in Investigations, NEW q PROVE Past(k, q)' = Past(k, q)
      OBVIOUS
    <3>1. \A r \in lost : r \in Attempts /\ r # n
      BY <1>3 DEF TypeOK
    <3>2. \A r \in GivenUp(k) : pc'[r] = pc[r]
      BY <1>7, <3>1 DEF GivenUp
    <3>3. QED
      BY <1>9, <3>2 DEF Past
  <2>2. stage[i] # "new" /\ s # "new"
        /\ (s \in {"context", "run", "session"} => stage[i] \in {"new", "context", "run", "session"})
    BY DEF Begun, Passes, Waits, PlaceOf
  <2>3. \A k \in Investigations : session[k] # 0 => stage[k] \notin {"new", "context", "run", "session"}
    BY DEF Made
  <2>4. \A k \in Investigations :
          session'[k] = session[k] \/ (k = i /\ session[k] = 0
                                       /\ s \notin {"new", "context", "run", "session"})
    <3>1. CASE session' = session
      BY <3>1
    <3>2. CASE /\ stage[i] = "session" /\ stage'[i] # "session"
               /\ session' = [session EXCEPT ![i] = row[Own(i)].session]
      <4>1. s \notin {"new", "context", "run", "session"} /\ session[i] = 0
        <5>1. <<"session", s>> \in Passes
          BY <1>2, <3>2 DEF Begun, TypeOK
        <5>2. s \in {"fail", "investigate"}
          BY <5>1 DEF Passes
        <5>3. QED
          BY <2>3, <3>2, <5>2
      <4>2. QED
        BY <3>2, <4>1 DEF TypeOK
    <3>3. QED
      BY <1>1, <3>1, <3>2
  <2>5. \A k \in Investigations :
          opened[k] <= (IF session'[k] = 0 THEN 0 ELSE 1) + Cardinality(Past(k, "opening"))
    <3> SUFFICES ASSUME NEW k \in Investigations
                 PROVE  opened[k] <= (IF session'[k] = 0 THEN 0 ELSE 1) + Cardinality(Past(k, "opening"))
      OBVIOUS
    <3> DEFINE a == Cardinality(Past(k, "opening"))
    <3>1. opened[k] <= (IF session[k] = 0 THEN 0 ELSE 1) + a /\ a \in Nat /\ opened[k] \in Nat
      BY Numbers, Parts DEF Made, TypeOK
    <3> HIDE DEF a
    <3>2. session'[k] = session[k] \/ session[k] = 0
      BY <2>4
    <3>3. opened[k] <= (IF session'[k] = 0 THEN 0 ELSE 1) + a
      BY <3>1, <3>2
    <3>4. QED
      BY <3>3 DEF a
  <2>6. \A k \in Investigations : stage'[k] = IF k = i THEN s ELSE stage[k]
    BY <1>2 DEF TypeOK
  <2>7. \A k \in Investigations : stage'[k] = "new" => own[k] = 0 /\ made[k] = 0 /\ tries'[k] = 0
    BY <1>2, <2>2, <2>6 DEF Made, TypeOK
  <2>8. \A k \in Investigations : stage'[k] \in {"new", "context", "run", "session"} => session'[k] = 0
    BY <2>2, <2>3, <2>4, <2>6
  <2>9. \A k \in Investigations :
          made[k] <= (IF own[k] = 0 THEN 0 ELSE 1) + Cardinality(Past(k, "creating"))
    BY DEF Made
  <2>10. QED
    BY <1>1, <2>1, <2>5, <2>7, <2>8, <2>9 DEF Made, rowVars, sessionVars
<1>12. Logging'
  BY <1>1, <1>7 DEF Logging, Waits
<1>13. QED
  BY <1>4, <1>5, <1>6, <1>8, <1>10, <1>11, <1>12

-----------------------------------------------------------------------------
(* The faults. *)

LEMMA GiveUpInv ==
  ASSUME IInv, NEW i \in Investigations, GiveUp(i)
  PROVE  IInv'
<1> USE DEF IInv
<1> DEFINE n == Current(i)
<1>1. /\ UNCHANGED <<workflowVars, rowVars, sessionVars, recent, deleted, attemptVars, historyVars>>
      /\ lost' = lost \cup {n} /\ n \notin lost /\ tries[i] > 0
      /\ faults' = faults + 1 /\ faults < MaxFaults
  BY DEF GiveUp, Fault
<1>2. n \in Attempts /\ n[1] = i /\ n[2] = tries[i]
  BY <1>1, Parts, Numbers DEF Current, TypeOK, MaxTries
<1> HIDE DEF n
<1>3. TypeOK'
  <2>1. faults' \in 0..MaxFaults /\ lost' \subseteq Attempts
    BY <1>1, <1>2, Parts DEF TypeOK
  <2>2. QED
    BY <1>1, <2>1 DEF TypeOK, workflowVars, rowVars, sessionVars, attemptVars, historyVars
<1>4. /\ IsFiniteSet(lost') /\ Cardinality(lost') = Cardinality(lost) + 1
      /\ Cardinality(lost) \in Nat
  BY <1>1, FS_AddElement, FS_CardinalityType DEF FaultsCounted
<1>5. FaultsCounted'
  BY <1>1, <1>4, Numbers DEF FaultsCounted
<1>6. FiniteRows'
  BY <1>1 DEF FiniteRows, rowVars
<1>7. Placed'
  BY <1>1, <1>2, Parts, Numbers DEF Placed, Here, Heard, workflowVars, attemptVars
<1>8. \A k \in Investigations : GivenUp(k)' = IF k = i THEN GivenUp(i) \cup {n} ELSE GivenUp(k)
  BY <1>1, <1>2 DEF GivenUp
<1>9. Cardinality(GivenUp(i)') = Cardinality(GivenUp(i)) + 1
  <2>1. n \notin GivenUp(i) /\ IsFiniteSet(GivenUp(i))
    BY <1>1, Numbers DEF GivenUp
  <2>2. QED
    BY <1>8, <2>1, FS_AddElement
<1>10. Tried'
  <2> SUFFICES ASSUME NEW k \in Investigations
               PROVE  tries[k] <= Behind(stage[k]) + Cardinality(GivenUp(k)') + Slack(k)'
    BY <1>1 DEF Tried, workflowVars, attemptVars
  <2> DEFINE d == Behind(stage[k])
             g == Cardinality(GivenUp(k))
             h == Cardinality(GivenUp(k)')
             y == Slack(k)
             z == Slack(k)'
  <2>1. tries[k] <= d + g + y
    BY DEF Tried
  <2>2. d \in Nat /\ g \in Nat /\ y \in 0..1 /\ z \in 0..1 /\ tries[k] \in Nat
    BY Numbers DEF Slack
  <2>3. IF k = i THEN h = g + 1 ELSE h = g /\ z = y
    <3>1. CASE k = i
      BY <1>9, <3>1
    <3>2. CASE k # i
      <4>1. Current(k) # n /\ Current(k)' = Current(k)
        BY <1>1, <1>2, <3>2 DEF Current, attemptVars
      <4>2. QED
        BY <1>1, <1>8, <3>2, <4>1 DEF Slack, Mine, Heard, Here, attemptVars
    <3>3. QED
      BY <3>1, <3>2
  <2> HIDE DEF d, g, h, y, z
  <2>4. tries[k] <= d + h + z
    BY <2>1, <2>2, <2>3
  <2>5. QED
    BY <2>4 DEF d, h, z
<1>11. Made'
  <2>1. \A k \in Investigations : \A q :
          /\ Cardinality(Past(k, q)) \in Nat /\ Cardinality(Past(k, q)') \in Nat
          /\ Cardinality(Past(k, q)) <= Cardinality(Past(k, q)')
    <3> SUFFICES ASSUME NEW k \in Investigations, NEW q
                 PROVE  /\ Cardinality(Past(k, q)) \in Nat /\ Cardinality(Past(k, q)') \in Nat
                        /\ Cardinality(Past(k, q)) <= Cardinality(Past(k, q)')
      OBVIOUS
    <3>1. Past(k, q) \subseteq Past(k, q)' /\ Past(k, q)' \subseteq lost'
      BY <1>1, <1>8 DEF Past, GivenUp, attemptVars
    <3>2. IsFiniteSet(Past(k, q)')
      BY <1>4, <3>1, FS_Subset
    <3>3. QED
      BY <3>1, <3>2, FS_Subset, FS_CardinalityType
  <2> SUFFICES ASSUME NEW k \in Investigations
               PROVE  /\ made[k] <= (IF own[k] = 0 THEN 0 ELSE 1) + Cardinality(Past(k, "creating")')
                      /\ opened[k] <= (IF session[k] = 0 THEN 0 ELSE 1) + Cardinality(Past(k, "opening")')
    BY <1>1 DEF Made, workflowVars, attemptVars, sessionVars, rowVars
  <2> DEFINE a == Cardinality(Past(k, "creating"))
             b == Cardinality(Past(k, "creating")')
             c == Cardinality(Past(k, "opening"))
             d == Cardinality(Past(k, "opening")')
  <2>2. a \in Nat /\ b \in Nat /\ a <= b /\ c \in Nat /\ d \in Nat /\ c <= d
    BY <2>1
  <2>3. /\ made[k] <= (IF own[k] = 0 THEN 0 ELSE 1) + a /\ made[k] \in Nat
        /\ opened[k] <= (IF session[k] = 0 THEN 0 ELSE 1) + c /\ opened[k] \in Nat
    BY Parts DEF Made, TypeOK
  <2> HIDE DEF a, b, c, d
  <2>4. /\ made[k] <= (IF own[k] = 0 THEN 0 ELSE 1) + b
        /\ opened[k] <= (IF session[k] = 0 THEN 0 ELSE 1) + d
    BY <2>2, <2>3
  <2>5. QED
    BY <2>4 DEF b, d
<1>12. Logging'
  BY <1>1 DEF Logging, attemptVars
<1>13. QED
  BY <1>3, <1>5, <1>6, <1>7, <1>10, <1>11, <1>12

LEMMA DeleteInv ==
  ASSUME IInv, DeleteCheck
  PROVE  IInv'
<1> USE DEF IInv
<1>1. /\ UNCHANGED <<workflowVars, rowVars, sessionVars, recent, attemptVars, lost, historyVars>>
      /\ ~deleted /\ deleted' = TRUE /\ faults' = faults + 1 /\ faults < MaxFaults
  BY DEF DeleteCheck, Fault
<1>2. TypeOK'
  <2>1. faults' \in 0..MaxFaults
    BY <1>1, Parts DEF TypeOK
  <2>2. QED
    BY <1>1, <2>1 DEF TypeOK, workflowVars, rowVars, sessionVars, attemptVars, historyVars
<1>3. FaultsCounted'
  <2>1. Cardinality(lost) \in Nat /\ faults \in Nat
    BY FS_CardinalityType, Parts DEF FaultsCounted, TypeOK
  <2>2. QED
    BY <1>1, <2>1 DEF FaultsCounted
<1>4. FiniteRows' /\ Placed' /\ Logging'
  BY <1>1 DEF FiniteRows, Placed, Logging, Here, Heard, rowVars, attemptVars, workflowVars
<1>5. Tried'
  <2> SUFFICES ASSUME NEW k \in Investigations
               PROVE  tries[k] <= Behind(stage[k]) + Cardinality(GivenUp(k)) + 1
    BY <1>1 DEF Tried, GivenUp, Slack, workflowVars, attemptVars
  <2> DEFINE d == Behind(stage[k])
             g == Cardinality(GivenUp(k))
             y == Slack(k)
  <2>1. tries[k] <= d + g + y
    BY DEF Tried
  <2>2. d \in Nat /\ g \in Nat /\ y \in 0..1 /\ tries[k] \in Nat
    BY Numbers
  <2> HIDE DEF d, g, y
  <2>3. tries[k] <= d + g + 1
    BY <2>1, <2>2
  <2>4. QED
    BY <2>3 DEF d, g
<1>6. Made'
  BY <1>1 DEF Made, Past, GivenUp, workflowVars, rowVars, sessionVars, attemptVars
<1>7. QED
  BY <1>2, <1>3, <1>4, <1>5, <1>6

-----------------------------------------------------------------------------
(* The writes of an attempt. *)

\* Attempt r of i goes on or ends, and the workflow, if it waits for r, with it;
\* only without its check does it end and leave the workflow where it is.
Moves(r, q, s) ==
  /\ Here(r) /\ pc' = [pc EXCEPT ![r] = q] /\ stage' = [stage EXCEPT ![r[1]] = s]
  /\ \/ s = stage[r[1]]
     \/ Heard(r) /\ q = "over" /\ <<stage[r[1]], s>> \in Passes \cup {<<"actions", "completed">>}
  /\ q = "over" /\ s = stage[r[1]] => deleted \/ ~Heard(r)
  /\ q # "over" => q \in {"acting", "logging"} /\ pc[r] \in {"acting", "logging"}

LEMMA StepEffect ==
  ASSUME IInv, NEW r \in Attempts, Step(r)
  PROVE  /\ UNCHANGED <<tries, lost, faults, deleted, closed, verdict, after>>
         /\ \E q \in {"over", "acting", "logging"}, s \in Stages : Moves(r, q, s)
<1> DEFINE i == r[1]
<1>1. stage \in [Investigations -> Stages] /\ i \in Investigations
      /\ pc \in [Attempts -> {"none", "starting", "creating", "opening", "completing", "failing",
                              "acting", "logging", "over"}]
  BY Parts DEF IInv, TypeOK
<1>2. stage' = stage => stage' = [stage EXCEPT ![i] = stage[i]]
  BY <1>1
<1>3. Here(r) /\ Heard(r) => stage[i] = PlaceOf(pc[r])
  BY DEF IInv, Placed
<1>4. ASSUME NEW p \in {"starting", "completing", "failing"}, NEW status, NEW health,
             NEW next, WriteRow(r, p, status, health, next),
             <<PlaceOf(p), next>> \in Passes, next \in Stages
      PROVE  /\ UNCHANGED <<tries, lost, faults, deleted, closed, verdict, after>>
             /\ \E s \in Stages : Moves(r, "over", s)
  <2>1. UNCHANGED <<tries, lost, faults, deleted, closed, verdict, after>> /\ Here(r)
        /\ pc' = [pc EXCEPT ![r] = "over"] /\ pc[r] = p
    BY <1>4 DEF WriteRow, sessionVars, historyVars, Here
  <2>2. CASE deleted \/ ~Heard(r)
    <3>1. stage' = stage
      BY <1>4, <2>2 DEF WriteRow
    <3>2. Moves(r, "over", stage[i])
      BY <1>2, <2>1, <2>2, <3>1 DEF Moves
    <3>3. QED
      BY <1>1, <2>1, <3>2
  <2>3. CASE ~deleted /\ Heard(r)
    <3>1. stage' = [stage EXCEPT ![i] = next]
      BY <1>4, <2>3 DEF WriteRow
    <3>2. <<stage[i], next>> \in Passes
      BY <1>3, <1>4, <2>1, <2>3
    <3>3. next # stage[i]
      BY <3>2 DEF Passes
    <3>4. Moves(r, "over", next)
      BY <2>1, <2>3, <3>1, <3>2, <3>3 DEF Moves
    <3>5. QED
      BY <1>4, <2>1, <3>4
  <2>4. QED
    BY <2>2, <2>3
<1>5. CASE SaveRunning(r)
  BY <1>4, <1>5 DEF SaveRunning, PlaceOf, Passes, Stages
<1>6. CASE SaveCompleted(r)
  BY <1>4, <1>6 DEF SaveCompleted, PlaceOf, Passes, Stages
<1>7. CASE SaveFailed(r)
  BY <1>4, <1>7 DEF SaveFailed, PlaceOf, Passes, Stages
<1>8. CASE CreateRow(r) \/ OpenSession(r)
  <2> DEFINE next == IF pc[r] = "creating" THEN "session" ELSE "investigate"
  <2>1. UNCHANGED <<tries, lost, faults, deleted, closed, verdict, after>> /\ Here(r)
        /\ pc' = [pc EXCEPT ![r] = "over"] /\ pc[r] \in {"creating", "opening"}
        /\ stage' = IF deleted \/ ~Heard(r) THEN stage ELSE [stage EXCEPT ![i] = next]
    BY <1>8 DEF CreateRow, OpenSession, sessionVars, historyVars, Here
  <2>2. Heard(r) => <<stage[i], next>> \in Passes /\ next # stage[i]
    BY <1>3, <2>1 DEF PlaceOf, Passes
  <2>3. Moves(r, "over", IF deleted \/ ~Heard(r) THEN stage[i] ELSE next)
    BY <1>2, <2>1, <2>2 DEF Moves
  <2>4. next \in Stages
    BY DEF Stages
  <2>5. QED
    BY <1>1, <2>1, <2>3, <2>4
<1>9. CASE CheckCooldown(r)
  <2>1. UNCHANGED <<stage, tries, lost, faults, deleted, closed, verdict, after>> /\ pc[r] = "acting"
        /\ (pc' = pc \/ pc' = [pc EXCEPT ![r] = "logging"])
    BY <1>9 DEF CheckCooldown, workflowVars, sessionVars
  <2>2. pc' = pc => pc' = [pc EXCEPT ![r] = "acting"]
    BY <1>1, <2>1
  <2>3. \E q \in {"acting", "logging"} : Moves(r, q, stage[i])
    BY <1>2, <2>1, <2>2 DEF Moves, Here
  <2>4. QED
    BY <1>1, <2>1, <2>3
<1>10. CASE CreateActionLog(r)
  <2>1. UNCHANGED <<stage, tries, lost, faults, deleted, closed, verdict, after>> /\ pc[r] = "logging"
        /\ pc' = [pc EXCEPT ![r] = IF deleted THEN "over" ELSE "acting"]
    BY <1>10 DEF CreateActionLog, workflowVars, sessionVars
  <2>2. Moves(r, IF deleted THEN "over" ELSE "acting", stage[i])
    BY <1>2, <2>1 DEF Moves, Here
  <2>3. QED
    BY <1>1, <2>1, <2>2
<1>11. CASE Notify(r)
  <2>1. UNCHANGED <<tries, lost, faults, deleted, closed, verdict, after>> /\ pc[r] = "acting"
        /\ pc' = [pc EXCEPT ![r] = "over"]
        /\ stage' = IF Heard(r) THEN [stage EXCEPT ![i] = "completed"] ELSE stage
    BY <1>11 DEF Notify, sessionVars, historyVars
  <2>2. Heard(r) => stage[i] = "actions"
    BY <1>3, <2>1 DEF Here, PlaceOf
  <2>3. Moves(r, "over", IF Heard(r) THEN "completed" ELSE stage[i])
    BY <1>2, <2>1, <2>2 DEF Moves, Here
  <2>4. QED
    BY <1>1, <2>1, <2>3 DEF Stages, Final
<1>12. QED
  BY <1>5, <1>6, <1>7, <1>8, <1>9, <1>10, <1>11 DEF Step

\* A row and a session more are within the bounds.
LEMMA RoomLeft ==
  ASSUME IInv, NEW r \in Attempts
  PROVE  /\ pc[r] = "creating" => made[r[1]] + 1 \in 1..Bound
         /\ pc[r] = "opening" => opened[r[1]] + 1 \in 1..Bound
<1> USE DEF IInv
<1> DEFINE i == r[1]
           g == Cardinality(GivenUp(i))
<1>1. i \in Investigations /\ MaxFaults \in Nat
  BY Parts
<1>2. g \in Nat /\ faults \in Nat /\ faults <= MaxFaults /\ g <= faults
  BY <1>1, Numbers
<1>3. ASSUME NEW q, pc[r] = q, r \in lost
      PROVE  Cardinality(Past(i, q)) \in Nat /\ Cardinality(Past(i, q)) + 1 <= g
  <2>1. Past(i, q) \cup {r} \subseteq GivenUp(i) /\ r \notin Past(i, q)
    BY <1>3 DEF Past, GivenUp
  <2>2. IsFiniteSet(GivenUp(i)) /\ IsFiniteSet(Past(i, q)) /\ Cardinality(Past(i, q)) \in Nat
    BY <1>1, Numbers
  <2>3. Cardinality(Past(i, q) \cup {r}) = Cardinality(Past(i, q)) + 1
    BY <2>1, <2>2, FS_AddElement
  <2>4. Cardinality(Past(i, q) \cup {r}) <= g
    BY <2>1, <2>2, FS_Subset
  <2>5. QED
    BY <2>2, <2>3, <2>4
<1>4. \A q : Cardinality(Past(i, q)) \in Nat /\ Cardinality(Past(i, q)) <= g
  BY <1>1, Numbers
<1>5. Here(r) /\ Heard(r) => /\ pc[r] = "creating" => own[i] = 0
                             /\ pc[r] = "opening" => session[i] = 0
  BY <1>1 DEF Placed, PlaceOf, Made
<1>6. ASSUME pc[r] = "creating"
      PROVE  made[i] + 1 \in 1..Bound
  <2> DEFINE a == Cardinality(Past(i, "creating"))
  <2>1. made[i] \in Nat /\ made[i] <= (IF own[i] = 0 THEN 0 ELSE 1) + a
    BY <1>1 DEF Made, TypeOK
  <2>2. a \in Nat /\ a <= g
    BY <1>4
  <2>3. own[i] = 0 \/ a + 1 <= g
    BY <1>3, <1>5, <1>6 DEF Here, Heard
  <2> HIDE DEF a, g
  <2>4. QED
    BY <1>1, <1>2, <2>1, <2>2, <2>3 DEF Bound
<1>7. ASSUME pc[r] = "opening"
      PROVE  opened[i] + 1 \in 1..Bound
  <2> DEFINE a == Cardinality(Past(i, "opening"))
  <2>1. opened[i] \in Nat /\ opened[i] <= (IF session[i] = 0 THEN 0 ELSE 1) + a
    BY <1>1 DEF Made, TypeOK
  <2>2. a \in Nat /\ a <= g
    BY <1>4
  <2>3. session[i] = 0 \/ a + 1 <= g
    BY <1>3, <1>5, <1>7 DEF Here, Heard
  <2> HIDE DEF a, g
  <2>4. QED
    BY <1>1, <1>2, <2>1, <2>2, <2>3 DEF Bound
<1>8. QED
  BY <1>6, <1>7

\* A row that names a session is a row still, and no row more.
LEMMA OneRowTyped ==
  ASSUME IInv, NEW x, NEW n \in 0..(MaxFaults + 1), row' = [row EXCEPT ![x].session = n]
  PROVE  /\ row' \in [Rows -> [status : {"none", "queued", "running", "completed", "failed"},
                               health : Health, session : 0..(MaxFaults + 1)]]
         /\ FiniteRows'
<1> USE DEF IInv
<1>1. row' \in [Rows -> [status : {"none", "queued", "running", "completed", "failed"},
                         health : Health, session : 0..(MaxFaults + 1)]]
  <2> DEFINE R == [status : {"none", "queued", "running", "completed", "failed"},
                   health : Health, session : 0..(MaxFaults + 1)]
  <2>1. row \in [Rows -> R]
    BY DEF TypeOK
  <2>2. \A y \in R : [y EXCEPT !.session = n] \in R
    OBVIOUS
  <2> HIDE DEF R
  <2>3. row' = [row EXCEPT ![x] = [row[x] EXCEPT !.session = n]]
    OBVIOUS
  <2>4. row' \in [Rows -> R]
    BY <2>1, <2>2, <2>3
  <2>5. QED
    BY <2>4 DEF R
<1>2. \A y \in Rows : y # x => row'[y] = row[y]
  BY DEF TypeOK
<1>3. QED
  BY <1>1, <1>2, RowsStayFinite

LEMMA StepTypes ==
  ASSUME IInv, NEW r \in Attempts, Step(r)
  PROVE  TypeOK' /\ FiniteRows'
<1> USE DEF IInv
<1> DEFINE i == r[1]
<1>1. i \in Investigations /\ Bound \in Nat
  BY Parts
<1>2. UNCHANGED <<tries, lost, faults, deleted, closed, verdict, after>>
      /\ \E q \in {"over", "acting", "logging"}, s \in Stages : Moves(r, q, s)
  BY StepEffect
<1>3. stage' \in [Investigations -> Stages]
      /\ pc' \in [Attempts -> {"none", "starting", "creating", "opening", "completing", "failing",
                               "acting", "logging", "over"}]
  <2>1. PICK q \in {"over", "acting", "logging"}, s \in Stages : Moves(r, q, s)
    BY <1>2
  <2>2. stage' = [stage EXCEPT ![i] = s] /\ pc' = [pc EXCEPT ![r] = q]
    BY <2>1 DEF Moves
  <2>3. stage' \in [Investigations -> Stages]
    BY <2>2 DEF TypeOK
  <2>4. QED
    BY <2>2, <2>3 DEF TypeOK
<1>4. CASE SaveRunning(r) \/ SaveCompleted(r) \/ SaveFailed(r)
  <2>1. PICK st \in {"running", "completed", "failed"}, h \in Health :
          row' = row \/ row' = [row EXCEPT ![Own(i)] = [status |-> st, health |-> h, session |-> 0]]
    <3>1. verdict[i] \in Health /\ "unknown" \in Health
      BY <1>1 DEF TypeOK, Health
    <3>2. QED
      BY <1>4, <3>1 DEF SaveRunning, SaveCompleted, SaveFailed, WriteRow, Save
  <2>2. row' \in [Rows -> [status : {"none", "queued", "running", "completed", "failed"},
                           health : Health, session : 0..(MaxFaults + 1)]]
    BY <2>1, Parts DEF TypeOK
  <2>3. FiniteRows'
    BY <2>1, RowsStayFinite DEF TypeOK
  <2>4. UNCHANGED <<own, session, made, stamp, opened, recent, due, doing, logged, cooled, raced>>
    BY <1>4 DEF SaveRunning, SaveCompleted, SaveFailed, WriteRow, sessionVars, historyVars
  <2>5. QED
    BY <1>2, <1>3, <2>2, <2>3, <2>4 DEF TypeOK
<1>5. CASE CreateRow(r)
  <2>1. UNCHANGED <<session, opened, recent, due, doing, logged, cooled, raced>>
    BY <1>5 DEF CreateRow, sessionVars, historyVars
  <2>2. CASE deleted
    <3>1. UNCHANGED <<rowVars, own>>
      BY <1>5, <2>2 DEF CreateRow
    <3>2. QED
      BY <1>2, <1>3, <2>1, <3>1 DEF TypeOK, rowVars, FiniteRows
  <2>3. CASE ~deleted
    <3>1. NewRow(i, "running") /\ made[i] + 1 \in 0..Bound /\ made[i] + 1 <= Bound
      BY <1>1, <1>5, <2>3, RoomLeft DEF CreateRow
    <3>2. own' = own \/ own' = [own EXCEPT ![i] = made[i] + 1]
      BY <1>5, <2>3 DEF CreateRow
    <3>3. own' \in [Investigations -> 0..(MaxFaults + 1)]
      BY <3>1, <3>2 DEF TypeOK, Bound
    <3>4. QED
      BY <1>1, <1>2, <1>3, <2>1, <3>1, <3>3, NewRowTyped DEF TypeOK
  <2>4. QED
    BY <2>2, <2>3
<1>6. CASE OpenSession(r)
  <2>1. UNCHANGED <<own, made, stamp, recent, due, doing, logged, cooled, raced>>
    BY <1>6 DEF OpenSession, historyVars
  <2>2. opened[i] + 1 \in 0..(MaxFaults + 1)
    BY <1>1, <1>6, RoomLeft DEF OpenSession, Bound
  <2>3. /\ opened' = opened \/ opened' = [opened EXCEPT ![i] = opened[i] + 1]
        /\ session' = session \/ session' = [session EXCEPT ![i] = opened[i] + 1]
        /\ row' = row \/ row' = [row EXCEPT ![Own(i)].session = opened[i] + 1]
    BY <1>6 DEF OpenSession
  <2>4. opened' \in [Investigations -> 0..(MaxFaults + 1)]
    BY <2>2, <2>3 DEF TypeOK
  <2>5. session' \in [Investigations -> 0..(MaxFaults + 1)]
    BY <2>2, <2>3 DEF TypeOK
  <2>6. /\ row' \in [Rows -> [status : {"none", "queued", "running", "completed", "failed"},
                              health : Health, session : 0..(MaxFaults + 1)]]
        /\ FiniteRows'
    <3>1. CASE row' = row
      BY <3>1 DEF TypeOK, FiniteRows
    <3>2. CASE row' = [row EXCEPT ![Own(i)].session = opened[i] + 1]
      BY <2>2, <3>2, OneRowTyped
    <3>3. QED
      BY <2>3, <3>1, <3>2
  <2>7. QED
    BY <1>2, <1>3, <2>1, <2>4, <2>5, <2>6 DEF TypeOK
<1>7. CASE CheckCooldown(r)
  <2>1. UNCHANGED <<own, session, rowVars, opened, logged>>
    BY <1>7 DEF CheckCooldown, workflowVars, sessionVars
  <2>2. PICK a \in due[r] :
       /\ \E keep \in SUBSET recent[a] : recent' = [recent EXCEPT ![a] = keep]
       /\ due' = due \/ due' = [due EXCEPT ![r] = @ \ {a}]
       /\ cooled' = cooled \/ cooled' = cooled \cup {<<i, a>>}
       /\ doing' = doing \/ doing' = [doing EXCEPT ![r] = a]
       /\ raced' = raced \/ raced' = [raced EXCEPT ![a] = @ \cup {r}]
    BY <1>7 DEF CheckCooldown
  <2>3. a \in Actions
    BY DEF TypeOK
  <2>4. recent' \in [Actions -> SUBSET Attempts] /\ raced' \in [Actions -> SUBSET Attempts]
    BY <2>2, <2>3 DEF TypeOK
  <2>5. due' \in [Attempts -> SUBSET Actions] /\ doing' \in [Attempts -> Actions \cup {"none"}]
        /\ cooled' \subseteq Investigations \X Actions
    <3>1. due' \in [Attempts -> SUBSET Actions]
      BY <2>2, <2>3 DEF TypeOK
    <3>2. doing' \in [Attempts -> Actions \cup {"none"}]
      BY <2>2, <2>3 DEF TypeOK
    <3>3. <<i, a>> \in Investigations \X Actions
      BY <1>1, <2>3
    <3>4. QED
      BY <2>2, <3>1, <3>2, <3>3 DEF TypeOK
  <2>6. QED
    BY <1>2, <1>3, <2>1, <2>4, <2>5 DEF TypeOK, rowVars, FiniteRows
<1>8. CASE CreateActionLog(r)
  <2>1. UNCHANGED <<own, session, rowVars, opened, doing, cooled, raced>>
    BY <1>8 DEF CreateActionLog, workflowVars, sessionVars
  <2>2. UNCHANGED <<due, recent, logged>>
        \/ /\ due' = [due EXCEPT ![r] = @ \ {doing[r]}]
           /\ recent' = [recent EXCEPT ![doing[r]] = @ \cup {r}]
           /\ logged' = logged \cup {<<i, doing[r]>>}
    BY <1>8 DEF CreateActionLog
  <2>3. doing[r] \in Actions
    BY <1>8 DEF CreateActionLog, Logging
  <2>4. due' \in [Attempts -> SUBSET Actions] /\ recent' \in [Actions -> SUBSET Attempts]
        /\ logged' \subseteq Investigations \X Actions
    <3>1. CASE UNCHANGED <<due, recent, logged>>
      BY <3>1 DEF TypeOK
    <3>2. CASE /\ due' = [due EXCEPT ![r] = @ \ {doing[r]}]
               /\ recent' = [recent EXCEPT ![doing[r]] = @ \cup {r}]
               /\ logged' = logged \cup {<<i, doing[r]>>}
      <4>1. due' \in [Attempts -> SUBSET Actions]
        BY <3>2 DEF TypeOK
      <4>2. recent' \in [Actions -> SUBSET Attempts]
        BY <3>2 DEF TypeOK
      <4>3. <<i, doing[r]>> \in Investigations \X Actions
        BY <1>1, <2>3
      <4>4. QED
        BY <3>2, <4>1, <4>2, <4>3 DEF TypeOK
    <3>3. QED
      BY <2>2, <3>1, <3>2
  <2>5. QED
    BY <1>2, <1>3, <2>1, <2>4 DEF TypeOK, rowVars, FiniteRows
<1>9. CASE Notify(r)
  <2>1. UNCHANGED <<own, session, rowVars, opened, recent, due, doing, logged, cooled, raced>>
    BY <1>9 DEF Notify, sessionVars, historyVars
  <2>2. QED
    BY <1>2, <1>3, <2>1 DEF TypeOK, rowVars, FiniteRows
<1>10. QED
  BY <1>4, <1>5, <1>6, <1>7, <1>8, <1>9 DEF Step

\* A write that was given up counts with those past, once it is over.
LEMMA PastGrows ==
  ASSUME IInv, NEW r \in Attempts, Step(r), NEW k \in Investigations,
         NEW p \in {"creating", "opening"}
  PROVE  /\ Cardinality(Past(k, p)) \in Nat /\ Cardinality(Past(k, p)') \in Nat
         /\ Cardinality(Past(k, p)') =
              Cardinality(Past(k, p)) + (IF k = r[1] /\ r \in lost /\ pc[r] = p THEN 1 ELSE 0)
<1>1. PICK q \in {"over", "acting", "logging"}, s \in Stages : Moves(r, q, s)
  BY StepEffect
<1>2. lost' = lost /\ lost \subseteq Attempts
  BY StepEffect DEF IInv, TypeOK
<1>3. \A x \in Attempts : pc'[x] = IF x = r THEN q ELSE pc[x]
  BY <1>1 DEF Moves, IInv, TypeOK
<1>4. IsFiniteSet(Past(k, p)) /\ Cardinality(Past(k, p)) \in Nat
  BY Numbers
<1>5. CASE k = r[1] /\ r \in lost /\ pc[r] = p
  <2>1. Past(k, p)' = Past(k, p) \cup {r} /\ r \notin Past(k, p)
    BY <1>2, <1>3, <1>5 DEF Past, GivenUp
  <2>2. Cardinality(Past(k, p) \cup {r}) = Cardinality(Past(k, p)) + 1
    BY <1>4, <2>1, FS_AddElement
  <2>3. QED
    BY <1>4, <1>5, <2>1, <2>2
<1>6. CASE ~(k = r[1] /\ r \in lost /\ pc[r] = p)
  <2>1. Past(k, p)' = Past(k, p)
    BY <1>2, <1>3, <1>6 DEF Past, GivenUp
  <2>2. QED
    BY <1>4, <1>6, <2>1
<1>7. QED
  BY <1>5, <1>6

LEMMA StepMade ==
  ASSUME IInv, NEW r \in Attempts, Step(r)
  PROVE  Made'
<1> USE DEF IInv
<1> DEFINE i == r[1]
<1>1. PICK q \in {"over", "acting", "logging"}, s \in Stages : Moves(r, q, s)
  BY StepEffect
<1>2. /\ Here(r) /\ i \in Investigations /\ tries' = tries
      /\ \A k \in Investigations : stage'[k] = IF k = i THEN s ELSE stage[k]
  BY <1>1, StepEffect, Parts DEF Moves, TypeOK
<1>3. made \in [Investigations -> 0..(MaxFaults + 1)] /\ opened \in [Investigations -> 0..(MaxFaults + 1)]
      /\ own \in [Investigations -> 0..(MaxFaults + 1)] /\ session \in [Investigations -> 0..(MaxFaults + 1)]
  BY DEF TypeOK
<1>4. tries[i] > 0 /\ stage[i] # "new" /\ s # "new"
      /\ (s \in {"context", "run", "session"} => stage[i] \in {"context", "run", "session"})
  <2>1. tries[i] > 0
    BY <1>2, Parts, Numbers DEF Placed, Here
  <2>2. stage[i] # "new"
    BY <1>2, <2>1 DEF Made
  <2>3. QED
    BY <1>1, <2>1, <2>2 DEF Moves, Passes
<1>5. \/ UNCHANGED <<made, own>>
      \/ /\ pc[r] = "creating" /\ made' = [made EXCEPT ![i] = @ + 1]
         /\ own' = IF Heard(r) THEN [own EXCEPT ![i] = made[i] + 1] ELSE own
  BY DEF Step, SaveRunning, SaveCompleted, SaveFailed, WriteRow, CreateRow, OpenSession, NewRow,
         CheckCooldown, CreateActionLog, Notify, workflowVars, rowVars
<1>6. \/ UNCHANGED <<opened, session>>
      \/ /\ pc[r] = "opening" /\ opened' = [opened EXCEPT ![i] = @ + 1]
         /\ session' = IF Heard(r) THEN [session EXCEPT ![i] = opened[i] + 1] ELSE session
         /\ Heard(r) => s = "investigate"
  <2>1. CASE OpenSession(r) /\ ~deleted
    <3>1. Heard(r) => stage'[i] = "investigate"
      BY <1>2, <2>1 DEF OpenSession, TypeOK
    <3>2. QED
      BY <1>2, <2>1, <3>1 DEF OpenSession
  <2>2. CASE OpenSession(r) /\ deleted
    BY <2>2 DEF OpenSession
  <2>3. CASE ~OpenSession(r)
    <3>1. CASE SaveRunning(r) \/ SaveCompleted(r) \/ SaveFailed(r)
      BY <3>1 DEF SaveRunning, SaveCompleted, SaveFailed, WriteRow, sessionVars
    <3>2. CASE CreateRow(r) \/ Notify(r)
      BY <3>2 DEF CreateRow, Notify, sessionVars
    <3>3. CASE CheckCooldown(r) \/ CreateActionLog(r)
      BY <3>3 DEF CheckCooldown, CreateActionLog, workflowVars, sessionVars
    <3>4. QED
      BY <2>3, <3>1, <3>2, <3>3 DEF Step
  <2>4. QED
    BY <2>1, <2>2, <2>3
<1> HIDE DEF i
<1>7. /\ pc[r] = "creating" /\ Heard(r) => own[i] = 0
      /\ pc[r] = "opening" /\ Heard(r) => session[i] = 0
  BY <1>2 DEF Placed, PlaceOf, Made, Here, i
<1>8. ASSUME NEW k \in Investigations
      PROVE  made'[k] <= (IF own'[k] = 0 THEN 0 ELSE 1) + Cardinality(Past(k, "creating")')
  <2> DEFINE a == Cardinality(Past(k, "creating"))
             b == Cardinality(Past(k, "creating")')
  <2>1. a \in Nat /\ b \in Nat
        /\ b = a + (IF k = i /\ r \in lost /\ pc[r] = "creating" THEN 1 ELSE 0)
    BY PastGrows DEF i
  <2>2. made[k] <= (IF own[k] = 0 THEN 0 ELSE 1) + a
    BY DEF Made
  <2>3. made[k] \in Nat /\ own[k] \in Nat /\ made[i] \in Nat
    BY <1>2, <1>3, Parts
  <2> HIDE DEF a, b
  <2>4. CASE UNCHANGED <<made, own>>
    <3>1. made[k] <= (IF own[k] = 0 THEN 0 ELSE 1) + b
      BY <2>1, <2>2, <2>3
    <3>2. QED
      BY <2>4, <3>1 DEF b
  <2>5. CASE /\ pc[r] = "creating" /\ made' = [made EXCEPT ![i] = @ + 1]
             /\ own' = IF Heard(r) THEN [own EXCEPT ![i] = made[i] + 1] ELSE own
    <3>1. CASE k # i
      <4>1. made'[k] = made[k] /\ own'[k] = own[k]
        BY <1>3, <2>5, <3>1
      <4>2. made[k] <= (IF own[k] = 0 THEN 0 ELSE 1) + b
        BY <2>1, <2>2, <2>3
      <4>3. QED
        BY <4>1, <4>2 DEF b
    <3>2. CASE k = i /\ Heard(r)
      <4>1. made'[k] = made[k] + 1 /\ own'[k] = made[k] + 1 /\ own[k] = 0 /\ own'[k] # 0
        BY <1>2, <1>3, <1>7, <2>3, <2>5, <3>2
      <4>2. made[k] + 1 <= 1 + b
        BY <2>1, <2>2, <2>3, <4>1
      <4>3. QED
        BY <4>1, <4>2 DEF b
    <3>3. CASE k = i /\ ~Heard(r)
      <4>1. made'[k] = made[k] + 1 /\ own'[k] = own[k] /\ b = a + 1
        BY <1>2, <1>3, <2>1, <2>5, <3>3 DEF Heard
      <4>2. made[k] + 1 <= (IF own[k] = 0 THEN 0 ELSE 1) + b
        BY <2>1, <2>2, <2>3, <4>1
      <4>3. QED
        BY <4>1, <4>2 DEF b
    <3>4. QED
      BY <3>1, <3>2, <3>3
  <2>6. QED
    BY <1>5, <2>4, <2>5
<1>9. ASSUME NEW k \in Investigations
      PROVE  opened'[k] <= (IF session'[k] = 0 THEN 0 ELSE 1) + Cardinality(Past(k, "opening")')
  <2> DEFINE a == Cardinality(Past(k, "opening"))
             b == Cardinality(Past(k, "opening")')
  <2>1. a \in Nat /\ b \in Nat
        /\ b = a + (IF k = i /\ r \in lost /\ pc[r] = "opening" THEN 1 ELSE 0)
    BY PastGrows DEF i
  <2>2. opened[k] <= (IF session[k] = 0 THEN 0 ELSE 1) + a
    BY DEF Made
  <2>3. opened[k] \in Nat /\ session[k] \in Nat /\ opened[i] \in Nat
    BY <1>2, <1>3, Parts
  <2> HIDE DEF a, b
  <2>4. CASE UNCHANGED <<opened, session>>
    <3>1. opened[k] <= (IF session[k] = 0 THEN 0 ELSE 1) + b
      BY <2>1, <2>2, <2>3
    <3>2. QED
      BY <2>4, <3>1 DEF b
  <2>5. CASE /\ pc[r] = "opening" /\ opened' = [opened EXCEPT ![i] = @ + 1]
             /\ session' = IF Heard(r) THEN [session EXCEPT ![i] = opened[i] + 1] ELSE session
    <3>1. CASE k # i
      <4>1. opened'[k] = opened[k] /\ session'[k] = session[k]
        BY <1>3, <2>5, <3>1
      <4>2. opened[k] <= (IF session[k] = 0 THEN 0 ELSE 1) + b
        BY <2>1, <2>2, <2>3
      <4>3. QED
        BY <4>1, <4>2 DEF b
    <3>2. CASE k = i /\ Heard(r)
      <4>1. opened'[k] = opened[k] + 1 /\ session'[k] = opened[k] + 1 /\ session[k] = 0
            /\ session'[k] # 0
        BY <1>2, <1>3, <1>7, <2>3, <2>5, <3>2
      <4>2. opened[k] + 1 <= 1 + b
        BY <2>1, <2>2, <2>3, <4>1
      <4>3. QED
        BY <4>1, <4>2 DEF b
    <3>3. CASE k = i /\ ~Heard(r)
      <4>1. opened'[k] = opened[k] + 1 /\ session'[k] = session[k] /\ b = a + 1
        BY <1>2, <1>3, <2>1, <2>5, <3>3 DEF Heard
      <4>2. opened[k] + 1 <= (IF session[k] = 0 THEN 0 ELSE 1) + b
        BY <2>1, <2>2, <2>3, <4>1
      <4>3. QED
        BY <4>1, <4>2 DEF b
    <3>4. QED
      BY <3>1, <3>2, <3>3
  <2>6. QED
    BY <1>6, <2>4, <2>5
<1>10. \A k \in Investigations : stage'[k] = "new" => own'[k] = 0 /\ made'[k] = 0 /\ tries'[k] = 0
  BY <1>2, <1>3, <1>4, <1>5 DEF Made
<1>11. \A k \in Investigations :
         stage'[k] \in {"new", "context", "run", "session"} => session'[k] = 0
  BY <1>2, <1>3, <1>4, <1>6 DEF Made
<1>12. QED
  BY <1>8, <1>9, <1>10, <1>11 DEF Made

LEMMA StepInv ==
  ASSUME IInv, NEW r \in Attempts, Step(r)
  PROVE  IInv'
<1> USE DEF IInv
<1> DEFINE i == r[1]
<1>1. TypeOK' /\ FiniteRows'
  BY StepTypes
<1>2. UNCHANGED <<tries, lost, faults, deleted>>
  BY StepEffect
<1>3. PICK q \in {"over", "acting", "logging"}, s \in Stages : Moves(r, q, s)
  BY StepEffect
<1>4. /\ Here(r) /\ i \in Investigations
      /\ \A x \in Attempts : pc'[x] = IF x = r THEN q ELSE pc[x]
      /\ \A k \in Investigations : stage'[k] = IF k = i THEN s ELSE stage[k]
  BY <1>3, Parts DEF Moves, TypeOK
<1>5. FaultsCounted'
  BY <1>2 DEF FaultsCounted
<1>6. Heard(r) => /\ r = Current(i) /\ tries[i] > 0 /\ Mine(i)
                  /\ \A x \in Attempts : x[1] = i /\ Here(x) /\ Heard(x) => x = r
  BY <1>4, Parts DEF Placed, Current, Mine
<1>7. \A k \in Investigations : own'[k] = own[k] \/ (k = i /\ Heard(r))
  BY DEF Step, SaveRunning, SaveCompleted, SaveFailed, WriteRow, CreateRow, OpenSession,
         CheckCooldown, CreateActionLog, Notify, workflowVars, IInv, TypeOK
<1>8. Placed'
  <2> SUFFICES ASSUME NEW x \in Attempts
               PROVE  /\ x[2] > tries[x[1]] => pc'[x] = "none" /\ x \notin lost
                      /\ Here(x)' /\ x \notin lost =>
                           /\ x[2] = tries[x[1]] /\ stage'[x[1]] = PlaceOf(pc'[x])
                           /\ pc'[x] = "creating" => own'[x[1]] = 0
    BY <1>2 DEF Placed, Heard
  <2>1. CASE x = r
    <3>1. x[2] <= tries[x[1]]
      BY <1>4, <2>1, Parts, Numbers DEF Placed, Here
    <3>2. pc'[x] = q /\ (q # "over" => s = stage[i] /\ PlaceOf(q) = PlaceOf(pc[r]))
      BY <1>3, <1>4, <2>1 DEF Moves, PlaceOf
    <3>3. QED
      BY <1>3, <1>4, <2>1, <3>1, <3>2, Parts, Numbers DEF Placed, Here, Heard
  <2>2. CASE x # r
    <3>1. pc'[x] = pc[x]
      BY <1>4, <2>2
    <3>2. CASE Here(x) /\ Heard(x)
      <4>1. x[1] = i => ~Heard(r)
        BY <1>6, <2>2, <3>2
      <4>2. stage'[x[1]] = stage[x[1]] /\ own'[x[1]] = own[x[1]]
        BY <1>3, <1>4, <1>7, <4>1, Parts DEF Moves
      <4>3. QED
        BY <3>1, <3>2, <4>2 DEF Placed
    <3>3. CASE ~(Here(x) /\ Heard(x))
      BY <3>1, <3>3 DEF Placed, Here, Heard
    <3>4. QED
      BY <3>2, <3>3
  <2>3. QED
    BY <2>1, <2>2
<1>9. Tried'
  <2> SUFFICES ASSUME NEW k \in Investigations
               PROVE  tries[k] <= Behind(stage'[k]) + Cardinality(GivenUp(k)) + Slack(k)'
    BY <1>2 DEF Tried, GivenUp
  <2> DEFINE d == Behind(stage[k])
             e == Behind(stage'[k])
             g == Cardinality(GivenUp(k))
             y == Slack(k)
             z == Slack(k)'
  <2>1. tries[k] <= d + g + y /\ tries[k] \in Nat /\ d \in Nat /\ g \in Nat /\ y \in 0..1
    BY Numbers DEF Tried
  <2>2. z \in 0..1 /\ (deleted => y = 1 /\ z = 1)
    BY <1>2 DEF Slack
  <2>3. \/ e = d /\ z = y
        \/ e = d + 1
    <3>1. CASE stage'[k] = stage[k]
      <4>1. CASE deleted
        BY <2>2, <3>1, <4>1
      <4>2. CASE ~deleted /\ k = i /\ Heard(r)
        <5>1. q # "over"
          <6>1. s = stage[i]
            BY <1>4, <3>1, <4>2
          <6>2. QED
            BY <1>3, <4>2, <6>1 DEF Moves
        <5>2. Current(i)' = r /\ pc'[r] = q
          BY <1>2, <1>4, <1>6, <4>2 DEF Current
        <5>3. Mine(i) /\ Mine(i)'
          BY <1>2, <1>6, <4>2, <5>1, <5>2 DEF Mine, Here, Heard
        <5>4. QED
          BY <3>1, <4>2, <5>3 DEF Slack
      <4>3. CASE ~deleted /\ ~(k = i /\ Heard(r))
        <5>1. Current(k)' = Current(k) /\ (Current(k) = r => ~Heard(r))
          BY <1>2, <4>3 DEF Current
        <5>2. Mine(k)' <=> Mine(k)
          <6>1. CASE Current(k) = r
            BY <1>2, <5>1, <6>1 DEF Mine, Heard
          <6>2. CASE Current(k) # r
            <7>1. tries[k] > 0 => Current(k) \in Attempts
              <8>1. tries[k] \in 0..(4 + MaxFaults)
                BY DEF TypeOK, MaxTries
              <8>2. QED
                BY <8>1, Parts DEF Current
            <7>2. tries[k] > 0 => pc'[Current(k)] = pc[Current(k)]
              BY <1>4, <6>2, <7>1
            <7>3. QED
              BY <1>2, <5>1, <7>2 DEF Mine, Heard, Here
          <6>3. QED
            BY <6>1, <6>2
        <5>3. QED
          BY <1>2, <3>1, <5>2 DEF Slack
      <4>4. QED
        BY <4>1, <4>2, <4>3
    <3>2. CASE stage'[k] # stage[k]
      <4>1. k = i /\ stage'[k] = s /\ <<stage[k], s>> \in Passes \cup {<<"actions", "completed">>}
        BY <1>3, <1>4, <3>2 DEF Moves
      <4>2. \/ stage[k] = "run" /\ s = "session"
            \/ stage[k] = "session" /\ s \in {"fail", "investigate"}
            \/ stage[k] = "complete" /\ s = "close"
            \/ stage[k] = "fail" /\ s = "close_failed"
            \/ stage[k] = "actions" /\ s = "completed"
        BY <4>1 DEF Passes
      <4>3. \/ Behind(stage[k]) = 0 /\ Behind(s) = 1
            \/ Behind(stage[k]) = 1 /\ Behind(s) = 2
            \/ Behind(stage[k]) = 2 /\ Behind(s) = 3
            \/ Behind(stage[k]) = 3 /\ Behind(s) = 4
        BY <4>2, BehindAt, Zenon
      <4>4. \/ d = 0 /\ e = 1
            \/ d = 1 /\ e = 2
            \/ d = 2 /\ e = 3
            \/ d = 3 /\ e = 4
        BY <4>1, <4>3
      <4> HIDE DEF d, e
      <4>5. QED
        BY <4>4
    <3>3. QED
      BY <3>1, <3>2
  <2> HIDE DEF d, e, g, y, z
  <2>4. tries[k] <= e + g + z
    BY <2>1, <2>2, <2>3
  <2>5. QED
    BY <2>4 DEF e, g, z
<1>10. Logging'
  <2>1. \A x \in Attempts : x # r => doing'[x] = doing[x]
    BY DEF Step, SaveRunning, SaveCompleted, SaveFailed, WriteRow, CreateRow, OpenSession,
           CheckCooldown, CreateActionLog, Notify, TypeOK
  <2>2. q = "logging" => doing'[r] \in Actions
    <3>1. ASSUME q = "logging"
          PROVE  CheckCooldown(r)
      BY <1>4, <3>1 DEF Step, SaveRunning, SaveCompleted, SaveFailed, WriteRow, CreateRow,
                        OpenSession, CreateActionLog, Notify, TypeOK
    <3>2. ASSUME q = "logging"
          PROVE  \E a \in due[r] : doing' = [doing EXCEPT ![r] = a]
      <4>1. pc[r] = "acting" /\ pc'[r] = "logging"
        BY <1>4, <3>1, <3>2 DEF CheckCooldown
      <4>2. QED
        BY <3>1, <3>2, <4>1 DEF CheckCooldown
    <3>3. QED
      BY <3>2 DEF TypeOK
  <2>3. QED
    BY <1>4, <2>1, <2>2 DEF Logging
<1>11. Made'
  BY StepMade
<1>12. QED
  BY <1>1, <1>5, <1>8, <1>9, <1>10, <1>11

-----------------------------------------------------------------------------
(* Every step. *)

LEMMA StuckInv ==
  ASSUME IInv, NEW i \in Investigations, Begin(i), Stuck(i)
  PROVE  IInv'
<1> USE DEF IInv
<1>1. /\ UNCHANGED <<own, verdict, rowVars, sessionVars, recent, deleted, doing, lost, faults,
                     historyVars>>
      /\ UNCHANGED <<tries, pc, due, session>>
      /\ stage' = [stage EXCEPT ![i] = "stuck"] /\ stage[i] = "actions" /\ Idle(i)
  BY BeginEffect DEF Stuck
<1>2. \A k \in Investigations : stage'[k] = IF k = i THEN "stuck" ELSE stage[k]
  BY <1>1 DEF TypeOK
<1>3. TypeOK'
  <2>1. stage' \in [Investigations -> Stages]
    BY <1>1 DEF TypeOK, Stages, Final
  <2>2. QED
    BY <1>1, <2>1 DEF TypeOK, rowVars, sessionVars, historyVars
<1>4. FaultsCounted' /\ FiniteRows' /\ Logging'
  BY <1>1 DEF FaultsCounted, FiniteRows, Logging, rowVars
<1>5. Placed'
  <2>1. \A r \in Attempts : Here(r) /\ Heard(r) => r[1] # i
    BY <1>1, IdleNone
  <2>2. QED
    BY <1>1, <1>2, <2>1, Parts DEF Placed, Here, Heard
<1>6. Tried'
  <2> SUFFICES ASSUME NEW k \in Investigations
               PROVE  tries[k] <= Behind(stage'[k]) + Cardinality(GivenUp(k)) + Slack(k)
    BY <1>1 DEF Tried, GivenUp, Slack, Mine, Heard, Here, Current
  <2> DEFINE d == Behind(stage[k])
             e == Behind(stage'[k])
             g == Cardinality(GivenUp(k))
             y == Slack(k)
  <2>1. tries[k] <= d + g + y /\ tries[k] \in Nat /\ d \in Nat /\ g \in Nat /\ y \in 0..1
    BY Numbers DEF Tried
  <2>2. e = d \/ (d = 3 /\ e = 4)
    <3>1. CASE k = i
      <4>1. Behind("actions") = 3 /\ Behind("stuck") = 4
        BY BehindAt, Zenon
      <4>2. QED
        BY <1>1, <1>2, <3>1, <4>1
    <3>2. CASE k # i
      BY <1>2, <3>2
    <3>3. QED
      BY <3>1, <3>2
  <2> HIDE DEF d, e, g, y
  <2>3. tries[k] <= e + g + y
    BY <2>1, <2>2
  <2>4. QED
    BY <2>3 DEF e, g, y
<1>7. Made'
  <2>1. \A k \in Investigations : \A p : Past(k, p)' = Past(k, p)
    BY <1>1 DEF Past, GivenUp
  <2>2. \A k \in Investigations : stage'[k] \in {"new", "context", "run", "session"} =>
          stage'[k] = stage[k]
    BY <1>2
  <2>3. UNCHANGED <<made, opened, own, session, tries>>
    BY <1>1 DEF rowVars, sessionVars
  <2>4. QED
    BY <2>1, <2>2, <2>3 DEF Made
<1>8. QED
  BY <1>3, <1>4, <1>5, <1>6, <1>7

LEMMA NextInv == IInv /\ [Next]_vars => IInv'
<1> SUFFICES ASSUME IInv, [Next]_vars PROVE IInv'
  OBVIOUS
<1>1. ASSUME NEW i \in Investigations, Start(i) \/ Advance(i) \/ CannotOpen(i)
      PROVE  IInv'
  BY <1>1, WorkflowInv
<1>2. ASSUME NEW i \in Investigations, Begin(i)
      PROVE  IInv'
  BY <1>2, BeginEffect, BegunInv, StuckInv
<1>3. ASSUME NEW i \in Investigations, GiveUp(i)
      PROVE  IInv'
  BY <1>3, GiveUpInv
<1>4. ASSUME NEW r \in Attempts, Step(r)
      PROVE  IInv'
  BY <1>4, StepInv
<1>5. CASE DeleteCheck
  BY <1>5, DeleteInv
<1>6. CASE UNCHANGED vars
  <2>1. UNCHANGED <<stage, own, session, verdict, made, row, stamp, opened, closed, recent, deleted,
                    tries, pc, due, doing, lost, faults, after, logged, cooled, raced>>
    BY <1>6 DEF vars, workflowVars, rowVars, sessionVars, attemptVars, historyVars
  <2>2. TypeOK' /\ FaultsCounted' /\ Placed' /\ Logging' /\ FiniteRows'
    BY <2>1 DEF IInv, TypeOK, FaultsCounted, Placed, Logging, FiniteRows, Here, Heard
  <2>3. Tried' /\ Made'
    BY <2>1 DEF IInv, Tried, Made, Past, GivenUp, Slack, Mine, Here, Heard, Current
  <2>4. QED
    BY <2>2, <2>3 DEF IInv
<1>7. QED
  BY <1>1, <1>2, <1>3, <1>4, <1>5, <1>6 DEF Next

LEMMA Invariant == Spec => []IInv
<1>1. Init => IInv
  BY InitInv
<1>2. IInv /\ [Next]_vars => IInv'
  BY NextInv
<1>3. QED
  BY <1>1, <1>2, PTL DEF Spec

\* Attempts, rows and sessions stay within the bounds of the model, whose faults
\* alone make more than one of each.
THEOREM TypeCorrect == Spec => []TypeOK
<1>1. IInv => TypeOK
  BY DEF IInv
<1>2. QED
  BY <1>1, Invariant, PTL

-----------------------------------------------------------------------------
(* The cooldown. *)

\* The attempts whose log of a is within its cooldown, or comes next, and that met
\* no other between their check and their log: one at most.
Racing(a) == (recent[a] \cup {r \in Attempts : pc[r] = "logging" /\ doing[r] = a}) \ raced[a]
Single == \A a \in Actions : \A p, q \in Racing(a) : p = q

\* A step that sends no attempt to its log.
LEMMA SingleKept ==
  ASSUME IInv, Single, UNCHANGED <<recent, doing, raced>>,
         \A r \in Attempts : pc'[r] = "logging" => pc[r] = "logging"
  PROVE  Single'
<1>1. \A a \in Actions : Racing(a)' \subseteq Racing(a)
  BY DEF Racing
<1>2. QED
  BY <1>1 DEF Single

LEMMA CheckCooldownSingle ==
  ASSUME IInv, Single, NEW r \in Attempts, CheckCooldown(r)
  PROVE  Single'
<1> USE DEF IInv
<1>1. PICK a \in due[r] :
       /\ \E keep \in SUBSET recent[a] : recent' = [recent EXCEPT ![a] = keep]
       /\ \/ UNCHANGED <<pc, doing, raced>>
          \/ /\ recent'[a] = {}
             /\ pc' = [pc EXCEPT ![r] = "logging"] /\ doing' = [doing EXCEPT ![r] = a]
             /\ raced' = IF \E q \in Attempts : pc[q] = "logging" /\ doing[q] = a
                           THEN [raced EXCEPT ![a] = @ \cup {r}] ELSE raced
  BY DEF CheckCooldown, CoolingDown
<1>2. a \in Actions /\ pc[r] = "acting"
  BY DEF TypeOK, CheckCooldown
<1>3. \A b \in Actions : recent'[b] \subseteq recent[b] /\ (b # a => recent'[b] = recent[b])
  BY <1>1, <1>2 DEF TypeOK
<1>4. CASE UNCHANGED <<pc, doing, raced>>
  <2>1. \A b \in Actions : Racing(b)' \subseteq Racing(b)
    BY <1>3, <1>4 DEF Racing
  <2>2. QED
    BY <2>1 DEF Single
<1>5. CASE /\ recent'[a] = {}
           /\ pc' = [pc EXCEPT ![r] = "logging"] /\ doing' = [doing EXCEPT ![r] = a]
           /\ raced' = IF \E q \in Attempts : pc[q] = "logging" /\ doing[q] = a
                         THEN [raced EXCEPT ![a] = @ \cup {r}] ELSE raced
  <2>1. /\ \A x \in Attempts : /\ pc'[x] = IF x = r THEN "logging" ELSE pc[x]
                               /\ doing'[x] = IF x = r THEN a ELSE doing[x]
        /\ \A b \in Actions : raced[b] \subseteq raced'[b]
    BY <1>2, <1>5 DEF TypeOK
  <2>2. \A b \in Actions : b # a => Racing(b)' \subseteq Racing(b)
    BY <1>3, <2>1 DEF Racing
  <2>3. CASE \E q \in Attempts : pc[q] = "logging" /\ doing[q] = a
    <3>1. r \in raced'[a]
      BY <1>2, <1>5, <2>3 DEF TypeOK
    <3>2. Racing(a)' \subseteq Racing(a)
      BY <1>2, <1>3, <2>1, <3>1 DEF Racing
    <3>3. QED
      BY <2>2, <3>2 DEF Single
  <2>4. CASE ~\E q \in Attempts : pc[q] = "logging" /\ doing[q] = a
    <3>1. Racing(a)' \subseteq {r}
      BY <1>5, <2>1, <2>4 DEF Racing
    <3>2. QED
      BY <2>2, <3>1 DEF Single
  <2>5. QED
    BY <2>3, <2>4
<1>6. QED
  BY <1>1, <1>4, <1>5

LEMMA CreateActionLogSingle ==
  ASSUME IInv, Single, NEW r \in Attempts, CreateActionLog(r)
  PROVE  Single'
<1> USE DEF IInv
<1>1. pc[r] = "logging" /\ doing[r] \in Actions /\ UNCHANGED <<doing, raced>>
  BY DEF CreateActionLog, Logging
<1>2. \/ pc' = [pc EXCEPT ![r] = "over"] /\ UNCHANGED recent
      \/ pc' = [pc EXCEPT ![r] = "acting"] /\ recent' = [recent EXCEPT ![doing[r]] = @ \cup {r}]
  BY DEF CreateActionLog
<1>3. \A x \in Attempts : pc'[x] = "logging" => pc[x] = "logging"
  BY <1>2 DEF TypeOK
<1>4. \A b \in Actions : recent'[b] \subseteq recent[b] \cup (IF b = doing[r] THEN {r} ELSE {})
  BY <1>1, <1>2 DEF TypeOK
<1>5. \A b \in Actions : Racing(b)' \subseteq Racing(b)
  BY <1>1, <1>3, <1>4 DEF Racing
<1>6. QED
  BY <1>5 DEF Single

LEMMA NextSingle == IInv /\ Single /\ [Next]_vars => Single'
<1> SUFFICES ASSUME IInv, Single, [Next]_vars PROVE Single'
  OBVIOUS
<1> USE DEF IInv
<1>1. ASSUME NEW i \in Investigations,
             Start(i) \/ Advance(i) \/ CannotOpen(i) \/ GiveUp(i)
      PROVE  Single'
  <2>1. UNCHANGED <<recent, doing, raced, pc>>
    BY <1>1 DEF Start, Advance, LoadContext, Investigate, Evaluate, Close, CannotOpen, GiveUp,
      attemptVars,
                historyVars
  <2>2. QED
    BY <2>1, SingleKept
<1>2. ASSUME NEW i \in Investigations, Begin(i)
      PROVE  Single'
  <2>1. UNCHANGED <<recent, doing, raced>>
    BY <1>2, BeginEffect DEF historyVars
  <2>2. \A r \in Attempts : pc'[r] = "logging" => pc[r] = "logging"
    <3>1. Stuck(i) \/ \E p \in Waits \cup {"over"}, s \in Stages : Begun(i, p, s)
      BY <1>2, BeginEffect
    <3>2. pc' = pc \/ \E p \in Waits \cup {"over"} : pc' = [pc EXCEPT ![<<i, tries[i] + 1>>] = p]
      BY <3>1 DEF Stuck, Begun, NextAttempt
    <3>3. "logging" \notin Waits \cup {"over"}
      BY DEF Waits
    <3>4. QED
      BY <3>2, <3>3 DEF TypeOK
  <2>3. QED
    BY <2>1, <2>2, SingleKept
<1>3. ASSUME NEW r \in Attempts, Step(r)
      PROVE  Single'
  <2>1. CASE CheckCooldown(r)
    BY <2>1, CheckCooldownSingle
  <2>2. CASE CreateActionLog(r)
    BY <2>2, CreateActionLogSingle
  <2>3. CASE ~(CheckCooldown(r) \/ CreateActionLog(r))
    <3>1. UNCHANGED <<recent, doing, raced>> /\ pc' = [pc EXCEPT ![r] = "over"]
      BY <1>3, <2>3 DEF Step, SaveRunning, SaveCompleted, SaveFailed, WriteRow, CreateRow,
                        OpenSession, Notify, historyVars
    <3>2. \A x \in Attempts : pc'[x] = "logging" => pc[x] = "logging"
      BY <3>1 DEF TypeOK
    <3>3. QED
      BY <3>1, <3>2, SingleKept
  <2>4. QED
    BY <2>1, <2>2, <2>3
<1>4. CASE DeleteCheck \/ UNCHANGED vars
  <2>1. UNCHANGED <<recent, doing, raced, pc>>
    BY <1>4 DEF DeleteCheck, vars, attemptVars, historyVars
  <2>2. QED
    BY <2>1, SingleKept
<1>5. QED
  BY <1>1, <1>2, <1>3, <1>4 DEF Next

\* ActionDispatcher._is_duplicate_suppressed: any number of overlapping
\* investigations log an action once within its cooldown, but for the attempts
\* that met another between its check and its log.
THEOREM CooldownKept == Spec => []CooldownHeld
<1>1. Init => Single
  BY DEF Init, Single, Racing
<1>2. IInv /\ Single => CooldownHeld
  <2> SUFFICES ASSUME Single, NEW a \in Actions
               PROVE  Cardinality(recent[a] \ raced[a]) <= 1
    BY DEF CooldownHeld
  <2> DEFINE S == recent[a] \ raced[a]
  <2>1. \A p, q \in S : p = q
    BY DEF Single, Racing
  <2>2. CASE S = {}
    BY <2>2, FS_EmptySet
  <2>3. CASE S # {}
    <3>1. PICK p : p \in S
      BY <2>3
    <3>2. S = {p}
      BY <2>1, <3>1
    <3>3. Cardinality({p}) = 1
      BY FS_Singleton
    <3>4. QED
      BY <3>2, <3>3
  <2>4. QED
    BY <2>2, <2>3
<1>3. QED
  BY <1>1, <1>2, Invariant, NextSingle, PTL DEF Spec

-----------------------------------------------------------------------------
(* Investigations leave each other's rows, sessions and attempts alone. *)

\* What a step leaves of i as it was.
Same(i) ==
  /\ stage'[i] = stage[i] /\ own'[i] = own[i] /\ session'[i] = session[i]
  /\ verdict'[i] = verdict[i] /\ made'[i] = made[i] /\ opened'[i] = opened[i]
  /\ tries'[i] = tries[i] /\ after'[i] = after[i]
  /\ \A x \in Rows : x[1] = i => row'[x] = row[x]
  /\ \A c : c[1] = i => (c \in closed' <=> c \in closed)
  /\ \A r \in Attempts : r[1] = i => pc'[r] = pc[r] /\ due'[r] = due[r] /\ doing'[r] = doing[r]

LEMMA WorkflowElsewhere ==
  ASSUME IInv, NEW k \in Investigations, Start(k) \/ Advance(k) \/ CannotOpen(k),
         NEW i \in Investigations, i # k
  PROVE  Same(i)
<1>1. /\ UNCHANGED <<session, opened, tries, pc, due, doing>>
      /\ \E s : stage' = [stage EXCEPT ![k] = s]
      /\ own' = own \/ own' = [own EXCEPT ![k] = 1]
      /\ verdict' = verdict \/ \E h : verdict' = [verdict EXCEPT ![k] = h]
      /\ after' = after \/ \E s : after' = [after EXCEPT ![k] = s]
      /\ closed' = closed \/ closed' = closed \cup {<<k, session[k]>>}
      /\ \/ UNCHANGED <<made, row>>
         \/ /\ made' = [made EXCEPT ![k] = @ + 1]
            /\ \E n : row' = [row EXCEPT ![<<k, made[k] + 1>>] = n]
  BY DEF Start, Advance, LoadContext, Investigate, Evaluate, Close, CannotOpen, NewRow, attemptVars,
         sessionVars, rowVars, historyVars
<1>2. stage'[i] = stage[i] /\ own'[i] = own[i] /\ verdict'[i] = verdict[i]
      /\ after'[i] = after[i] /\ made'[i] = made[i]
  BY <1>1 DEF IInv, TypeOK
<1>3. \A x \in Rows : x[1] = i => row'[x] = row[x]
  BY <1>1 DEF IInv, TypeOK
<1>4. \A c : c[1] = i => (c \in closed' <=> c \in closed)
  BY <1>1
<1>5. QED
  BY <1>1, <1>2, <1>3, <1>4 DEF Same

LEMMA BeginElsewhere ==
  ASSUME IInv, NEW k \in Investigations, Begin(k), NEW i \in Investigations, i # k
  PROVE  Same(i)
<1>1. /\ UNCHANGED <<own, verdict, made, row, opened, closed, doing, after>>
      /\ session' = session \/ session' = [session EXCEPT ![k] = row[Own(k)].session]
      /\ due' = due \/ due' = [due EXCEPT ![<<k, tries[k] + 1>>] = Wanted(k)]
  BY BeginEffect DEF rowVars, sessionVars, historyVars
<1>2. /\ \E s : stage' = [stage EXCEPT ![k] = s]
      /\ tries' = tries \/ tries' = [tries EXCEPT ![k] = @ + 1]
      /\ pc' = pc \/ \E p : pc' = [pc EXCEPT ![<<k, tries[k] + 1>>] = p]
  <2>1. Stuck(k) \/ \E p \in Waits \cup {"over"}, s \in Stages : Begun(k, p, s)
    BY BeginEffect
  <2>2. QED
    BY <2>1 DEF Stuck, Begun, NextAttempt
<1>3. stage'[i] = stage[i] /\ tries'[i] = tries[i] /\ session'[i] = session[i]
  BY <1>1, <1>2 DEF IInv, TypeOK
<1>4. \A r \in Attempts : r[1] = i => pc'[r] = pc[r] /\ due'[r] = due[r]
  BY <1>1, <1>2 DEF IInv, TypeOK
<1>5. QED
  BY <1>1, <1>3, <1>4 DEF Same

\* The writes of an attempt, as far as the rows are concerned.
LEMMA StepRows ==
  ASSUME IInv, NEW r \in Attempts, Step(r)
  PROVE  \/ UNCHANGED <<row, made, own, opened, session>>
         \/ /\ UNCHANGED <<made, own, opened, session>> /\ ~deleted
            /\ \/ SaveRunning(r) \/ SaveCompleted(r) \/ SaveFailed(r)
            /\ \E n : row' = [row EXCEPT ![Own(r[1])] = n]
         \/ /\ UNCHANGED <<opened, session>> /\ CreateRow(r) /\ NewRow(r[1], "running") /\ ~deleted
            /\ own' = IF Heard(r) THEN [own EXCEPT ![r[1]] = made[r[1]] + 1] ELSE own
         \/ /\ UNCHANGED <<made, own>> /\ OpenSession(r) /\ ~deleted
            /\ opened' = [opened EXCEPT ![r[1]] = @ + 1]
            /\ row' = [row EXCEPT ![Own(r[1])].session = opened[r[1]] + 1]
            /\ session' = IF Heard(r) THEN [session EXCEPT ![r[1]] = opened[r[1]] + 1] ELSE session
<1>1. CASE SaveRunning(r) \/ SaveCompleted(r) \/ SaveFailed(r)
  BY <1>1 DEF SaveRunning, SaveCompleted, SaveFailed, WriteRow, Save, sessionVars
<1>2. CASE CreateRow(r)
  BY <1>2 DEF CreateRow, sessionVars, rowVars
<1>3. CASE OpenSession(r)
  BY <1>3 DEF OpenSession
<1>4. CASE CheckCooldown(r) \/ CreateActionLog(r) \/ Notify(r)
  BY <1>4 DEF CheckCooldown, CreateActionLog, Notify, workflowVars, sessionVars, rowVars
<1>5. QED
  BY <1>1, <1>2, <1>3, <1>4 DEF Step

LEMMA StepElsewhere ==
  ASSUME IInv, NEW r \in Attempts, Step(r), NEW i \in Investigations, i # r[1]
  PROVE  Same(i)
<1>1. PICK q \in {"over", "acting", "logging"}, s \in Stages : Moves(r, q, s)
  BY StepEffect
<1>2. UNCHANGED <<tries, closed, verdict, after>>
  BY StepEffect
<1>3. stage'[i] = stage[i] /\ \A x \in Attempts : x[1] = i => pc'[x] = pc[x]
  BY <1>1 DEF Moves, IInv, TypeOK
<1>4. \A x \in Attempts : x[1] = i => due'[x] = due[x] /\ doing'[x] = doing[x]
  <2>1. CASE CheckCooldown(r) \/ CreateActionLog(r)
    BY <2>1 DEF CheckCooldown, CreateActionLog, IInv, TypeOK
  <2>2. CASE ~(CheckCooldown(r) \/ CreateActionLog(r))
    BY <2>2 DEF Step, SaveRunning, SaveCompleted, SaveFailed, WriteRow, CreateRow, OpenSession,
                Notify
  <2>3. QED
    BY <2>1, <2>2
<1> DEFINE k == r[1]
<1>5. /\ own' = own \/ \E n : own' = [own EXCEPT ![k] = n]
      /\ made' = made \/ \E n : made' = [made EXCEPT ![k] = n]
      /\ opened' = opened \/ \E n : opened' = [opened EXCEPT ![k] = n]
      /\ session' = session \/ \E n : session' = [session EXCEPT ![k] = n]
      /\ row' = row \/ \E n, x : row' = [row EXCEPT ![<<k, x>>] = n]
  <2>1. CASE UNCHANGED <<row, made, own, opened, session>>
    BY <2>1
  <2>2. CASE UNCHANGED <<made, own, opened, session>> /\ \E n : row' = [row EXCEPT ![Own(k)] = n]
    BY <2>2 DEF Own
  <2>3. CASE /\ UNCHANGED <<opened, session>> /\ NewRow(k, "running")
             /\ own' = IF Heard(r) THEN [own EXCEPT ![k] = made[k] + 1] ELSE own
    BY <2>3 DEF NewRow
  <2>4. CASE /\ UNCHANGED <<made, own>> /\ opened' = [opened EXCEPT ![k] = @ + 1]
             /\ row' = [row EXCEPT ![Own(k)].session = opened[k] + 1]
             /\ session' = IF Heard(r) THEN [session EXCEPT ![k] = opened[k] + 1] ELSE session
    BY <2>4 DEF Own
  <2>5. QED
    BY <2>1, <2>2, <2>3, <2>4, StepRows
<1>6. made'[i] = made[i] /\ own'[i] = own[i] /\ opened'[i] = opened[i] /\ session'[i] = session[i]
  <2>1. own'[i] = own[i]
    BY <1>5 DEF IInv, TypeOK
  <2>2. made'[i] = made[i]
    BY <1>5 DEF IInv, TypeOK
  <2>3. opened'[i] = opened[i]
    BY <1>5 DEF IInv, TypeOK
  <2>4. session'[i] = session[i]
    BY <1>5 DEF IInv, TypeOK
  <2>5. QED
    BY <2>1, <2>2, <2>3, <2>4
<1>7. ASSUME NEW x \in Rows, x[1] = i
      PROVE  row'[x] = row[x]
  <2>1. CASE row' = row
    BY <2>1
  <2>2. ASSUME NEW n, NEW y, row' = [row EXCEPT ![<<k, y>>] = n]
        PROVE  row'[x] = row[x]
    <3>1. x # <<k, y>>
      BY <1>7
    <3>2. QED
      BY <2>2, <3>1 DEF IInv, TypeOK
  <2>3. QED
    BY <1>5, <2>1, <2>2
<1>8. QED
  BY <1>2, <1>3, <1>4, <1>6, <1>7 DEF Same

-----------------------------------------------------------------------------
(* The rows that exist. *)

\* The rows of an investigation are numbered as they were made, that of the
\* workflow among them, and only an execution that exists is started.
Filed ==
  /\ \A i \in Investigations : own[i] <= made[i]
  /\ \A x \in Rows : x[2] > made[x[1]] => row[x].status = "none"
  /\ \A r \in Attempts : pc[r] = "starting" => own[r[1]] # 0

LEMMA FiledKept ==
  ASSUME IInv, Filed, UNCHANGED <<own, made>>,
         \A x \in Rows : x[2] > made[x[1]] => row'[x] = row[x],
         \A r \in Attempts : pc'[r] = "starting" => pc[r] = "starting" \/ own[r[1]] # 0
  PROVE  Filed'
BY DEF Filed

LEMMA FiledNew ==
  ASSUME IInv, Filed, NEW k \in Investigations, NEW status, NewRow(k, status),
         own' = own \/ own' = [own EXCEPT ![k] = made[k] + 1],
         \A r \in Attempts : pc'[r] = "starting" => pc[r] = "starting"
  PROVE  Filed'
<1>1. made' = [made EXCEPT ![k] = @ + 1] /\ \A x \in Rows : x # <<k, made[k] + 1>> => row'[x] = row[x]
  BY DEF NewRow, IInv, TypeOK
<1>2. /\ made \in [Investigations -> 0..(MaxFaults + 1)] /\ own \in [Investigations -> 0..(MaxFaults + 1)]
      /\ \A i \in Investigations : made[i] \in Nat /\ own[i] \in Nat
  BY Parts DEF IInv, TypeOK
<1>3. \A i \in Investigations : own'[i] <= made'[i]
  BY <1>1, <1>2 DEF Filed
<1>4. ASSUME NEW x \in Rows, x[2] > made'[x[1]]
      PROVE  row'[x].status = "none"
  <2>1. x[1] \in Investigations /\ x[2] \in Nat
    BY Parts
  <2>2. x[2] > made[x[1]] /\ x # <<k, made[k] + 1>>
    BY <1>1, <1>2, <1>4, <2>1
  <2>3. QED
    BY <1>1, <2>2 DEF Filed
<1>5. \A r \in Attempts : r[1] \in Investigations
  BY Parts
<1>6. \A r \in Attempts : pc'[r] = "starting" => own'[r[1]] # 0
  BY <1>2, <1>5 DEF Filed
<1>7. QED
  BY <1>3, <1>4, <1>6 DEF Filed

LEMMA NextFiled == IInv /\ Filed /\ [Next]_vars => Filed'
<1> SUFFICES ASSUME IInv, Filed, [Next]_vars PROVE Filed'
  OBVIOUS
<1>1. ASSUME NEW i \in Investigations, Start(i)
      PROVE  Filed'
  <2>1. CASE NewRow(i, "queued") /\ own' = [own EXCEPT ![i] = 1]
    <3>1. made[i] = 0 /\ pc' = pc
      BY <1>1 DEF Start, IInv, Made, attemptVars
    <3>2. own' = [own EXCEPT ![i] = made[i] + 1]
      BY <2>1, <3>1
    <3>3. QED
      BY <2>1, <3>1, <3>2, FiledNew
  <2>2. CASE UNCHANGED <<rowVars, own>>
    BY <1>1, <2>2, FiledKept DEF Start, rowVars, attemptVars
  <2>3. QED
    BY <1>1, <2>1, <2>2 DEF Start
<1>2. ASSUME NEW i \in Investigations, Advance(i) \/ CannotOpen(i) \/ GiveUp(i)
      PROVE  Filed'
  <2>1. UNCHANGED <<own, made, row, pc>>
    BY <1>2 DEF Advance, LoadContext, Investigate, Evaluate, Close, CannotOpen, GiveUp, rowVars,
      attemptVars,
                workflowVars
  <2>2. QED
    BY <2>1, FiledKept
<1>3. ASSUME NEW i \in Investigations, Begin(i)
      PROVE  Filed'
  <2>1. UNCHANGED <<own, made, row>>
    BY <1>3, BeginEffect DEF rowVars
  <2>2. pc' = pc \/ \E p : pc' = [pc EXCEPT ![<<i, tries[i] + 1>>] = p] /\ (p = "starting" => own[i] # 0)
    <3> DEFINE To(p) == pc' = [pc EXCEPT ![<<i, tries[i] + 1>>] = p]
    <3>1. CASE BeginRun(i)
      <4>1. To("over") \/ To(IF own[i] = 0 THEN "creating" ELSE "starting")
        BY <3>1 DEF BeginRun, NextAttempt
      <4>2. QED
        BY <4>1
    <3>2. CASE BeginOpen(i)
      <4>1. To("over") \/ To("opening")
        BY <3>2 DEF BeginOpen, NextAttempt
      <4>2. QED
        BY <4>1
    <3>3. CASE BeginReport(i)
      <4>1. To("over") \/ To("completing") \/ To("failing")
        BY <3>3 DEF BeginReport, NextAttempt
      <4>2. QED
        BY <4>1
    <3>4. CASE BeginActions(i)
      <4>1. pc' = pc \/ To("acting")
        BY <3>4 DEF BeginActions, NextAttempt, attemptVars
      <4>2. QED
        BY <4>1
    <3>5. QED
      BY <1>3, <3>1, <3>2, <3>3, <3>4 DEF Begin
  <2>3. \A r \in Attempts : pc'[r] = "starting" => pc[r] = "starting" \/ own[r[1]] # 0
    <3>1. ASSUME NEW p, pc' = [pc EXCEPT ![<<i, tries[i] + 1>>] = p], p = "starting" => own[i] # 0,
                 NEW r \in Attempts, pc'[r] = "starting", pc[r] # "starting"
          PROVE  own[r[1]] # 0
      <4>1. r = <<i, tries[i] + 1>> /\ p = "starting"
        BY <3>1 DEF IInv, TypeOK
      <4>2. QED
        BY <3>1, <4>1
    <3>2. QED
      BY <2>2, <3>1
  <2>4. QED
    BY <2>1, <2>3, FiledKept
<1>4. ASSUME NEW r \in Attempts, Step(r)
      PROVE  Filed'
  <2>1. \A x \in Attempts : pc'[x] = "starting" => pc[x] = "starting"
    <3>1. PICK q \in {"over", "acting", "logging"}, s \in Stages : Moves(r, q, s)
      BY <1>4, StepEffect
    <3>2. QED
      BY <3>1 DEF Moves, IInv, TypeOK
  <2>2. r[1] \in Investigations /\ own[r[1]] <= made[r[1]]
    BY Parts DEF Filed
  <2>3. \A x \in Rows : x[2] > made[x[1]] => x # Own(r[1])
    <3>1. own[r[1]] \in Nat /\ made[r[1]] \in Nat
      BY <2>2, Parts DEF IInv, TypeOK
    <3>2. QED
      BY <2>2, <3>1, Parts DEF Own
  <2>4. CASE UNCHANGED <<made, own>> /\ row' = row
    BY <2>1, <2>4, FiledKept
  <2>5. CASE UNCHANGED <<made, own>> /\ \E n : row' = [row EXCEPT ![Own(r[1])] = n]
    <3>1. \A x \in Rows : x[2] > made[x[1]] => row'[x] = row[x]
      BY <2>3, <2>5 DEF IInv, TypeOK
    <3>2. QED
      BY <2>1, <2>5, <3>1, FiledKept
  <2>6. CASE /\ NewRow(r[1], "running")
             /\ own' = IF Heard(r) THEN [own EXCEPT ![r[1]] = made[r[1]] + 1] ELSE own
    BY <2>1, <2>2, <2>6, FiledNew
  <2>7. QED
    BY <1>4, <2>4, <2>5, <2>6, StepRows
<1>5. CASE DeleteCheck \/ UNCHANGED vars
  BY <1>5, FiledKept DEF DeleteCheck, vars, workflowVars, rowVars, attemptVars
<1>6. QED
  BY <1>1, <1>2, <1>3, <1>4, <1>5 DEF Next

LEMMA InitFiled == Init => Filed
BY Parts DEF Init, Filed, NoRow

-----------------------------------------------------------------------------
(* An investigation that nothing disturbs. *)

Undisturbed(i) == GivenUp(i) = {} /\ ~deleted

\* Without a fault the workflow has the one row and the one session there are, and
\* they are as far as it is.
Tidy(i) ==
  /\ own[i] = made[i] /\ made[i] <= 1 /\ opened[i] = session[i] /\ session[i] <= 1
  /\ own[i] = 0 => stage[i] \in {"new", "context", "run", "failed"}
  /\ stage[i] # "stuck"
  /\ own[i] # 0 =>
       /\ stage[i] \in {"new", "context", "run"} => row[Own(i)].status = "queued"
       /\ stage[i] \in {"session", "investigate", "complete", "fail"} => row[Own(i)].status = "running"
       /\ stage[i] \in Reported => row[Own(i)].status = "completed" /\ row[Own(i)].health = verdict[i]
       /\ stage[i] = "close_failed" => row[Own(i)].status = "failed"
       /\ stage[i] = "failed" => row[Own(i)].status \in {"failed", "queued"}
       /\ stage[i] \in {"new", "context", "run", "session"} => row[Own(i)].session = 0
  /\ \A c : c[1] = i =>
       (c \in closed <=>
          stage[i] \in {"actions", "completed", "failed"} /\ session[i] # 0 /\ c = <<i, session[i]>>)

LEMMA OwnRow ==
  ASSUME IInv, NEW i \in Investigations
  PROVE  /\ own[i] \in Nat /\ made[i] \in Nat /\ opened[i] \in Nat /\ session[i] \in Nat
         /\ own[i] # 0 => Own(i) \in Rows
         /\ \A k : Own(i) = Own(k) => i = k
<1>1. /\ own[i] \in 0..Bound /\ made[i] \in 0..Bound /\ opened[i] \in 0..Bound
      /\ session[i] \in 0..Bound
  BY DEF IInv, TypeOK, Bound
<1>2. own[i] # 0 => own[i] \in 1..Bound
  BY <1>1, Parts
<1>3. QED
  BY <1>1, <1>2, Parts DEF Own

LEMMA TidySame ==
  ASSUME IInv, NEW i \in Investigations, Tidy(i), Same(i)
  PROVE  Tidy(i)'
<1>1. own[i] # 0 => row'[Own(i)] = row[Own(i)] /\ Own(i)' = Own(i)
  BY OwnRow DEF Same, Own
<1>2. /\ own'[i] = 0 => stage'[i] \in {"new", "context", "run", "failed"}
      /\ stage'[i] # "stuck" /\ own'[i] = made'[i] /\ made'[i] <= 1
      /\ opened'[i] = session'[i] /\ session'[i] <= 1
  BY DEF Tidy, Same
<1>3. own'[i] # 0 =>
       /\ stage'[i] \in {"new", "context", "run"} => row'[Own(i)'].status = "queued"
       /\ stage'[i] \in {"session", "investigate", "complete", "fail"} => row'[Own(i)'].status = "running"
       /\ stage'[i] \in Reported => row'[Own(i)'].status = "completed" /\ row'[Own(i)'].health = verdict'[i]
       /\ stage'[i] = "close_failed" => row'[Own(i)'].status = "failed"
       /\ stage'[i] = "failed" => row'[Own(i)'].status \in {"failed", "queued"}
       /\ stage'[i] \in {"new", "context", "run", "session"} => row'[Own(i)'].session = 0
  BY <1>1 DEF Tidy, Same
<1>4. \A c : c[1] = i =>
       (c \in closed' <=>
          stage'[i] \in {"actions", "completed", "failed"} /\ session'[i] # 0 /\ c = <<i, session'[i]>>)
  BY DEF Tidy, Same
<1>5. QED
  BY <1>2, <1>3, <1>4 DEF Tidy

LEMMA TidyStart ==
  ASSUME IInv, NEW i \in Investigations, Tidy(i), Start(i)
  PROVE  Tidy(i)'
<1> USE DEF IInv
<1>1. /\ stage[i] = "new" /\ own[i] = 0 /\ made[i] = 0 /\ session[i] = 0
      /\ stage'[i] = "context" /\ UNCHANGED <<session, opened, closed>>
  BY DEF Start, Made, TypeOK, sessionVars
<1>2. CASE NewRow(i, "queued") /\ own' = [own EXCEPT ![i] = 1]
  <2>1. own'[i] = 1 /\ made'[i] = 1
    BY <1>1, <1>2 DEF NewRow, TypeOK
  <2>2. Own(i)' = <<i, made[i] + 1>> /\ Own(i)' \in Rows
    BY <1>1, <2>1, Parts DEF Own, Bound
  <2>3. row'[Own(i)'].status = "queued" /\ row'[Own(i)'].session = 0
    BY <1>2, <2>2 DEF NewRow, NoRow, TypeOK
  <2>4. QED
    BY <1>1, <2>1, <2>3 DEF Tidy, Reported
<1>3. CASE UNCHANGED <<rowVars, own>>
  BY <1>1, <1>3 DEF Tidy, rowVars
<1>4. QED
  BY <1>2, <1>3 DEF Start

LEMMA TidyWorkflow ==
  ASSUME IInv, NEW i \in Investigations, Tidy(i), Undisturbed(i), Advance(i) \/ CannotOpen(i)
  PROVE  Tidy(i)'
<1> USE DEF IInv
<1>1. UNCHANGED <<own, made, opened, session, row>> /\ ~deleted /\ Own(i)' = Own(i)
  BY DEF Advance, LoadContext, Investigate, Evaluate, Close, CannotOpen, Undisturbed, rowVars,
    sessionVars, Own
<1>2. CASE LoadContext(i) \/ CannotOpen(i) \/ Investigate(i)
  <2>1. /\ closed' = closed
        /\ verdict'[i] = verdict[i] \/ stage'[i] \in {"complete", "fail"}
        /\ \/ stage[i] = "context" /\ stage'[i] \in {"run", "failed"}
           \/ stage[i] = "session" /\ stage'[i] = "fail"
           \/ stage[i] = "investigate" /\ stage'[i] \in {"complete", "fail"}
    BY <1>2 DEF LoadContext, CannotOpen, Investigate, Evaluate, sessionVars, TypeOK
  <2>2. stage[i] = "context" => session[i] = 0
    BY DEF Made
  <2>3. QED
    BY <1>1, <2>1, <2>2 DEF Tidy, Reported
<1>3. CASE Close(i)
  <2>1. /\ verdict' = verdict
        /\ closed' = IF session[i] = 0 THEN closed ELSE closed \cup {<<i, session[i]>>}
        /\ \/ stage[i] = "close" /\ stage'[i] = "actions"
           \/ stage[i] = "close_failed" /\ stage'[i] = "failed"
    BY <1>3 DEF Close, TypeOK
  <2>2. \A c : c[1] = i => (c \in closed' <=> session[i] # 0 /\ c = <<i, session[i]>>)
    BY <2>1 DEF Tidy
  <2>3. QED
    BY <1>1, <2>1, <2>2 DEF Tidy, Reported
<1>4. QED
  BY <1>2, <1>3 DEF Advance

LEMMA TidyBegin ==
  ASSUME IInv, NEW i \in Investigations, Tidy(i), Undisturbed(i), Begin(i)
  PROVE  /\ Tidy(i)'
         /\ UNCHANGED <<stage, session>>
<1> USE DEF IInv
<1>1. UNCHANGED <<own, verdict, made, row, opened, closed>> /\ ~deleted
  BY BeginEffect DEF rowVars, sessionVars, Undisturbed
<1>2. UNCHANGED <<stage, session>>
  <2>1. CASE BeginRun(i)
    <3>1. ~(Present(i) /\ row[Own(i)].status = "running")
      BY <2>1 DEF BeginRun, Present, Tidy
    <3>2. QED
      BY <1>1, <2>1, <3>1 DEF BeginRun
  <2>2. CASE BeginOpen(i)
    <3>1. Present(i) /\ row[Own(i)].session = 0
      BY <1>1, <2>2 DEF BeginOpen, Present, Tidy
    <3>2. QED
      BY <2>2, <3>1 DEF BeginOpen
  <2>3. CASE BeginReport(i)
    <3>1. Present(i)
      BY <1>1, <2>3 DEF BeginReport, Present, Tidy
    <3>2. QED
      BY <2>3, <3>1 DEF BeginReport
  <2>4. CASE BeginActions(i)
    BY <1>1, <2>4 DEF BeginActions
  <2>5. QED
    BY <2>1, <2>2, <2>3, <2>4 DEF Begin
<1>3. Tidy(i)'
  BY <1>1, <1>2 DEF Tidy, Own
<1>4. QED
  BY <1>2, <1>3

\* A write that ends a stage before the session is closed.
LEMMA TidyWrite ==
  ASSUME NEW i, Tidy(i), closed' = closed, stage[i] \notin {"actions", "completed", "failed"},
         stage'[i] \in {"session", "investigate", "close", "close_failed"},
         own'[i] = 1, made'[i] = 1, opened'[i] = session'[i], session'[i] <= 1,
         stage'[i] \in {"session", "investigate"} => row'[Own(i)'].status = "running",
         stage'[i] = "close" => /\ row'[Own(i)'].status = "completed"
                                /\ row'[Own(i)'].health = verdict'[i],
         stage'[i] = "close_failed" => row'[Own(i)'].status = "failed",
         stage'[i] = "session" => row'[Own(i)'].session = 0
  PROVE  Tidy(i)'
<1>1. \A c : c[1] = i => c \notin closed'
  BY DEF Tidy
<1>2. own'[i] = 0 => stage'[i] \in {"new", "context", "run", "failed"}
  OBVIOUS
<1>3. /\ stage'[i] \in {"new", "context", "run"} => row'[Own(i)'].status = "queued"
      /\ stage'[i] \in {"session", "investigate", "complete", "fail"} => row'[Own(i)'].status = "running"
      /\ stage'[i] \in Reported => row'[Own(i)'].status = "completed" /\ row'[Own(i)'].health = verdict'[i]
      /\ stage'[i] = "failed" => row'[Own(i)'].status \in {"failed", "queued"}
      /\ stage'[i] \in {"new", "context", "run", "session"} => row'[Own(i)'].session = 0
  BY DEF Reported
<1>4. QED
  BY <1>1, <1>2, <1>3 DEF Tidy

\* The writes of the attempts of an undisturbed investigation, all of them heard.
LEMMA TidyStep ==
  ASSUME IInv, Filed, NEW r \in Attempts, Step(r), Tidy(r[1]), Undisturbed(r[1])
  PROVE  Tidy(r[1])'
<1> USE DEF IInv
<1> DEFINE i == r[1]
<1>0. own[i] # 0 => own[i] = 1 /\ made[i] = 1
  BY Parts, OwnRow DEF Tidy
<1>1. i \in Investigations /\ Heard(r) /\ ~deleted
  BY Parts DEF Undisturbed, GivenUp, Heard
<1>2. Here(r) => stage[i] = PlaceOf(pc[r]) /\ (pc[r] = "creating" => own[i] = 0)
  BY <1>1 DEF Placed
<1>3. UNCHANGED <<closed, verdict>>
  BY StepEffect
<1>4. own[i] \in Nat /\ (own[i] # 0 => Own(i) \in Rows)
  BY <1>1, OwnRow
<1>5. ASSUME NEW p \in {"starting", "completing", "failing"}, NEW status, NEW health, NEW next,
             WriteRow(r, p, status, health, next), own[i] # 0
      PROVE  /\ stage[i] = PlaceOf(p) /\ stage'[i] = next
             /\ UNCHANGED <<own, made, opened, session>> /\ Own(i)' = Own(i)
             /\ row'[Own(i)] = [status |-> status, health |-> health, session |-> 0]
  <2>1. stage[i] = PlaceOf(p)
    BY <1>2, <1>5 DEF WriteRow, Here
  <2>2. /\ UNCHANGED <<own, made, opened, session>>
        /\ stage' = [stage EXCEPT ![i] = next]
        /\ row' = [row EXCEPT ![Own(i)] = [status |-> status, health |-> health, session |-> 0]]
    BY <1>1, <1>5 DEF WriteRow, Save, sessionVars
  <2>3. QED
    BY <1>1, <1>4, <1>5, <2>1, <2>2 DEF TypeOK, Own
<1>6. CASE SaveRunning(r)
  <2>1. own[i] # 0
    BY <1>6 DEF SaveRunning, WriteRow, Filed
  <2>2. stage[i] = "run" /\ stage'[i] = "session"
        /\ UNCHANGED <<own, made, opened, session>> /\ Own(i)' = Own(i)
        /\ row'[Own(i)] = [status |-> "running", health |-> "unknown", session |-> 0]
    BY <1>5, <1>6, <2>1 DEF SaveRunning, PlaceOf
  <2>3. session[i] = 0
    BY <1>1, <2>2 DEF Made
  <2>4. QED
    BY <1>0, <1>3, <2>1, <2>2, <2>3, TidyWrite DEF Tidy
<1>7. CASE SaveCompleted(r)
  <2>1. own[i] # 0
    BY <1>2, <1>7 DEF SaveCompleted, WriteRow, Tidy, PlaceOf, Here
  <2>2. stage[i] = "complete" /\ stage'[i] = "close"
        /\ UNCHANGED <<own, made, opened, session>> /\ Own(i)' = Own(i)
        /\ row'[Own(i)] = [status |-> "completed", health |-> verdict[i], session |-> 0]
    BY <1>5, <1>7, <2>1 DEF SaveCompleted, PlaceOf
  <2>3. QED
    BY <1>0, <1>3, <2>1, <2>2, TidyWrite DEF Tidy
<1>8. CASE SaveFailed(r)
  <2>1. own[i] # 0
    BY <1>2, <1>8 DEF SaveFailed, WriteRow, Tidy, PlaceOf, Here
  <2>2. stage[i] = "fail" /\ stage'[i] = "close_failed"
        /\ UNCHANGED <<own, made, opened, session>> /\ Own(i)' = Own(i)
        /\ row'[Own(i)] = [status |-> "failed", health |-> "unknown", session |-> 0]
    BY <1>5, <1>8, <2>1 DEF SaveFailed, PlaceOf
  <2>3. QED
    BY <1>0, <1>3, <2>1, <2>2, TidyWrite DEF Tidy
<1>9. CASE CreateRow(r)
  <2>1. stage[i] = "run" /\ own[i] = 0 /\ made[i] = 0
    BY <1>2, <1>9 DEF CreateRow, Here, PlaceOf, Tidy
  <2>2. session[i] = 0
    BY <1>1, <2>1 DEF Made
  <2>3. /\ NewRow(i, "running") /\ stage' = [stage EXCEPT ![i] = "session"]
        /\ own' = [own EXCEPT ![i] = made[i] + 1] /\ UNCHANGED <<opened, session>>
    BY <1>1, <1>9 DEF CreateRow, sessionVars
  <2>4. own'[i] = 1 /\ made'[i] = 1 /\ stage'[i] = "session"
    BY <1>1, <2>1, <2>3 DEF NewRow, TypeOK
  <2>5. Own(i)' = <<i, made[i] + 1>> /\ Own(i)' \in Rows
    BY <1>1, <2>1, <2>4, Parts DEF Own, Bound
  <2>6. row'[Own(i)'].status = "running" /\ row'[Own(i)'].session = 0
    <3>1. row' = [row EXCEPT ![<<i, made[i] + 1>>] = [NoRow EXCEPT !.status = "running"]]
      BY <2>3 DEF NewRow
    <3>2. row'[Own(i)'] = [NoRow EXCEPT !.status = "running"]
      BY <2>5, <3>1 DEF TypeOK
    <3>3. QED
      BY <3>2 DEF NoRow
  <2>7. opened'[i] = session'[i] /\ session'[i] <= 1
    BY <2>3 DEF Tidy
  <2>8. QED
    BY <1>3, <2>1, <2>4, <2>6, <2>7, TidyWrite
<1>10. CASE OpenSession(r)
  <2>1. stage[i] = "session" /\ own[i] # 0
    BY <1>2, <1>10 DEF OpenSession, Here, PlaceOf, Tidy
  <2>2. session[i] = 0 /\ opened[i] = 0
    BY <1>1, <2>1 DEF Made, Tidy
  <2>3. /\ stage' = [stage EXCEPT ![i] = "investigate"] /\ UNCHANGED <<own, made>>
        /\ opened' = [opened EXCEPT ![i] = @ + 1] /\ session' = [session EXCEPT ![i] = opened[i] + 1]
        /\ row' = [row EXCEPT ![Own(i)].session = opened[i] + 1]
    BY <1>1, <1>10 DEF OpenSession
  <2>4. opened'[i] = 1 /\ session'[i] = 1 /\ stage'[i] = "investigate" /\ Own(i)' = Own(i)
    BY <1>1, <2>2, <2>3 DEF TypeOK, Own
  <2>5. row'[Own(i)].status = row[Own(i)].status
    <3>1. Own(i) \in Rows /\ row' = [row EXCEPT ![Own(i)] = [@ EXCEPT !.session = opened[i] + 1]]
      BY <1>4, <2>1, <2>3
    <3>2. row'[Own(i)] = [row[Own(i)] EXCEPT !.session = opened[i] + 1]
      BY <3>1 DEF TypeOK
    <3>3. row[Own(i)] \in [status : {"none", "queued", "running", "completed", "failed"},
                           health : Health, session : 0..(MaxFaults + 1)]
      BY <3>1 DEF TypeOK
    <3>4. QED
      BY <3>2, <3>3
  <2>6. row[Own(i)].status = "running" /\ own'[i] = 1 /\ made'[i] = 1
    BY <1>0, <2>1, <2>3 DEF Tidy
  <2>7. QED
    BY <1>3, <2>1, <2>4, <2>5, <2>6, TidyWrite
<1>11. CASE CheckCooldown(r) \/ CreateActionLog(r)
  BY <1>3, <1>11 DEF CheckCooldown, CreateActionLog, workflowVars, rowVars, sessionVars, Tidy, Own
<1>12. CASE Notify(r)
  <2>1. stage[i] = "actions" /\ own[i] # 0
    BY <1>2, <1>12 DEF Notify, Here, PlaceOf, Tidy
  <2>2. stage'[i] = "completed" /\ UNCHANGED <<own, made, opened, session, row>> /\ Own(i)' = Own(i)
    BY <1>1, <1>12 DEF Notify, rowVars, sessionVars, TypeOK, Own
  <2>3. QED
    BY <1>3, <2>1, <2>2 DEF Tidy, Reported
<1>13. QED
  BY <1>6, <1>7, <1>8, <1>9, <1>10, <1>11, <1>12 DEF Step

AllTidy == \A i \in Investigations : Undisturbed(i) => Tidy(i)

\* What was disturbed stays so.
LEMMA UndisturbedBefore ==
  ASSUME IInv, [Next]_vars, NEW i \in Investigations
  PROVE  /\ GivenUp(i)' = {} => GivenUp(i) = {}
         /\ Undisturbed(i)' => Undisturbed(i)
         /\ logged \cup cooled \subseteq logged' \cup cooled'
<1>1. lost \subseteq lost' /\ (deleted => deleted')
  <2>1. ASSUME NEW k \in Investigations, Begin(k)
        PROVE  UNCHANGED <<lost, deleted>>
    BY <2>1, BeginEffect
  <2>2. ASSUME NEW r \in Attempts, Step(r)
        PROVE  UNCHANGED <<lost, deleted>>
    BY <2>2, StepEffect
  <2>3. ASSUME NEW k \in Investigations, Start(k) \/ Advance(k) \/ CannotOpen(k)
        PROVE  UNCHANGED <<lost, deleted>>
    BY <2>3 DEF Start, Advance, LoadContext, Investigate, Evaluate, Close, CannotOpen
  <2>4. ASSUME NEW k \in Investigations, GiveUp(k)
        PROVE  lost \subseteq lost' /\ deleted' = deleted
    BY <2>4 DEF GiveUp
  <2>5. CASE DeleteCheck
    BY <2>5 DEF DeleteCheck
  <2>6. CASE UNCHANGED vars
    BY <2>6 DEF vars
  <2>7. QED
    BY <2>1, <2>2, <2>3, <2>4, <2>5, <2>6 DEF Next
<1>2. logged \cup cooled \subseteq logged' \cup cooled'
  <2>1. ASSUME NEW k \in Investigations, Begin(k)
        PROVE  UNCHANGED <<logged, cooled>>
    BY <2>1, BeginEffect DEF historyVars
  <2>2. ASSUME NEW r \in Attempts, Step(r)
        PROVE  logged \subseteq logged' /\ cooled \subseteq cooled'
    <3>1. CASE CheckCooldown(r)
      BY <3>1 DEF CheckCooldown
    <3>2. CASE CreateActionLog(r)
      BY <3>2 DEF CreateActionLog
    <3>3. CASE ~(CheckCooldown(r) \/ CreateActionLog(r))
      BY <2>2, <3>3 DEF Step, SaveRunning, SaveCompleted, SaveFailed, WriteRow, CreateRow,
                        OpenSession, Notify, historyVars
    <3>4. QED
      BY <3>1, <3>2, <3>3
  <2>3. ASSUME NEW k \in Investigations, Start(k) \/ Advance(k) \/ CannotOpen(k) \/ GiveUp(k)
        PROVE  UNCHANGED <<logged, cooled>>
    BY <2>3 DEF Start, Advance, LoadContext, Investigate, Evaluate, Close, CannotOpen, GiveUp,
      historyVars
  <2>4. CASE DeleteCheck \/ UNCHANGED vars
    BY <2>4 DEF DeleteCheck, vars, historyVars
  <2>5. QED
    BY <2>1, <2>2, <2>3, <2>4 DEF Next
<1>3. GivenUp(i) \subseteq GivenUp(i)'
  BY <1>1 DEF GivenUp
<1>4. QED
  BY <1>1, <1>2, <1>3 DEF Undisturbed

LEMMA NextTidy == IInv /\ Filed /\ AllTidy /\ [Next]_vars => AllTidy'
<1> SUFFICES ASSUME IInv, Filed, AllTidy, [Next]_vars, NEW i \in Investigations, Undisturbed(i)'
             PROVE  Tidy(i)'
  BY DEF AllTidy
<1>1. Undisturbed(i) /\ Tidy(i)
  BY UndisturbedBefore DEF AllTidy
<1>2. ASSUME NEW k \in Investigations, Start(k) \/ Advance(k) \/ CannotOpen(k)
      PROVE  Tidy(i)'
  <2>1. CASE k = i
    BY <1>1, <1>2, <2>1, TidyStart, TidyWorkflow
  <2>2. CASE k # i
    BY <1>1, <1>2, <2>2, WorkflowElsewhere, TidySame
  <2>3. QED
    BY <2>1, <2>2
<1>3. ASSUME NEW k \in Investigations, Begin(k)
      PROVE  Tidy(i)'
  <2>1. CASE k = i
    BY <1>1, <1>3, <2>1, TidyBegin
  <2>2. CASE k # i
    BY <1>1, <1>3, <2>2, BeginElsewhere, TidySame
  <2>3. QED
    BY <2>1, <2>2
<1>4. ASSUME NEW r \in Attempts, Step(r)
      PROVE  Tidy(i)'
  <2>1. CASE r[1] = i
    BY <1>1, <1>4, <2>1, TidyStep
  <2>2. CASE r[1] # i
    BY <1>1, <1>4, <2>2, StepElsewhere, TidySame
  <2>3. QED
    BY <2>1, <2>2
<1>5. ASSUME \/ \E k \in Investigations : GiveUp(k)
             \/ DeleteCheck
             \/ UNCHANGED vars
      PROVE  Same(i)
  BY <1>5 DEF GiveUp, DeleteCheck, vars, workflowVars, rowVars, sessionVars, attemptVars,
              historyVars, Same
<1>6. QED
  BY <1>1, <1>2, <1>3, <1>4, <1>5, TidySame DEF Next

LEMMA Order == Spec => [](IInv /\ Filed /\ AllTidy)
<1>1. Init => AllTidy
  BY DEF Init, AllTidy, Tidy
<1>2. QED
  BY <1>1, InitInv, InitFiled, NextInv, NextFiled, NextTidy, PTL DEF Spec

\* update_check_execution, create_autonomous_session: however often attempts are
\* given up and their writes land late, an investigation has a row and a session
\* more only for each, and without one its row and session end as it does.
THEOREM RowsAccounted == Spec => []RowsAccountedFor
<1>1. ASSUME IInv, Filed, AllTidy
      PROVE  RowsAccountedFor
  <2> SUFFICES ASSUME NEW i \in Investigations
               PROVE  /\ made[i] <= 1 + Cardinality(GivenUp(i))
                      /\ opened[i] <= 1 + Cardinality(GivenUp(i))
                      /\ stage[i] \in Final /\ GivenUp(i) = {} /\ ~deleted =>
                           /\ \A x \in Rows : x[1] = i =>
                                row[x].status \in IF stage[i] = "completed"
                                                    THEN {"none", "completed"}
                                                    ELSE {"none", "failed", "queued"}
                           /\ Cardinality({c \in closed : c[1] = i}) = opened[i]
    BY DEF RowsAccountedFor
  <2>1. made[i] <= 1 + Cardinality(GivenUp(i)) /\ opened[i] <= 1 + Cardinality(GivenUp(i))
    <3> DEFINE g == Cardinality(GivenUp(i))
               a == Cardinality(Past(i, "creating"))
               b == Cardinality(Past(i, "opening"))
    <3>1. g \in Nat /\ a \in Nat /\ b \in Nat /\ a <= g /\ b <= g
      BY <1>1, Numbers
    <3>2. /\ made[i] <= (IF own[i] = 0 THEN 0 ELSE 1) + a
          /\ opened[i] <= (IF session[i] = 0 THEN 0 ELSE 1) + b
      BY <1>1 DEF IInv, Made
    <3>3. made[i] \in Nat /\ opened[i] \in Nat
      BY <1>1, OwnRow
    <3> HIDE DEF g, a, b
    <3>4. made[i] <= 1 + g /\ opened[i] <= 1 + g
      BY <3>1, <3>2, <3>3
    <3>5. QED
      BY <3>4 DEF g
  <2>2. ASSUME stage[i] \in Final, GivenUp(i) = {}, ~deleted
        PROVE  /\ \A x \in Rows : x[1] = i =>
                    row[x].status \in IF stage[i] = "completed" THEN {"none", "completed"}
                                                                ELSE {"none", "failed", "queued"}
               /\ Cardinality({c \in closed : c[1] = i}) = opened[i]
    <3>1. Tidy(i) /\ stage[i] \in {"completed", "failed"}
      BY <1>1, <2>2 DEF AllTidy, Undisturbed, Tidy, Final
    <3>2. ASSUME NEW x \in Rows, x[1] = i
          PROVE  row[x].status \in IF stage[i] = "completed" THEN {"none", "completed"}
                                                             ELSE {"none", "failed", "queued"}
      <4>1. x[2] > made[i] \/ (own[i] # 0 /\ x = Own(i))
        <5>1. x[2] \in Nat /\ x[2] >= 1 /\ x = <<i, x[2]>> /\ own[i] \in Nat /\ own[i] = made[i]
              /\ made[i] <= 1
          <6>1. x[2] \in 1..Bound /\ x = <<i, x[2]>>
            BY <3>2, Parts
          <6>2. own[i] \in Nat /\ own[i] = made[i] /\ made[i] <= 1
            BY <1>1, <3>1, OwnRow DEF Tidy
          <6>3. QED
            BY <6>1, <6>2, Parts
        <5>2. QED
          BY <5>1 DEF Own
      <4>2. CASE x[2] > made[i]
        BY <1>1, <3>2, <4>2 DEF Filed
      <4>3. CASE own[i] # 0 /\ x = Own(i)
        BY <3>1, <4>3 DEF Tidy, Reported
      <4>4. QED
        BY <4>1, <4>2, <4>3
    <3>3. Cardinality({c \in closed : c[1] = i}) = opened[i]
      <4>1. opened[i] = session[i] /\ session[i] \in Nat /\ session[i] <= 1
        BY <1>1, <3>1, OwnRow DEF Tidy
      <4>2. CASE session[i] = 0
        <5>1. {c \in closed : c[1] = i} = {}
          BY <3>1, <4>2 DEF Tidy
        <5>2. Cardinality({}) = 0
          BY FS_EmptySet
        <5>3. QED
          BY <4>1, <4>2, <5>1, <5>2
      <4>3. CASE session[i] # 0
        <5>1. {c \in closed : c[1] = i} = {<<i, session[i]>>}
          <6>1. \A c : c[1] = i => (c \in closed <=> c = <<i, session[i]>>)
            BY <3>1, <4>3 DEF Tidy
          <6>2. <<i, session[i]>>[1] = i
            OBVIOUS
          <6>3. QED
            BY <6>1, <6>2
        <5>2. Cardinality({<<i, session[i]>>}) = 1
          BY FS_Singleton
        <5>3. session[i] = 1
          BY <4>1, <4>3
        <5>4. QED
          BY <4>1, <5>1, <5>2, <5>3
      <4>4. QED
        BY <4>2, <4>3
    <3>4. QED
      BY <3>2, <3>3
  <2>3. QED
    BY <2>1, <2>2
<1>2. QED
  BY <1>1, Order, PTL

-----------------------------------------------------------------------------
(* The recovery of a check. *)

\* What had reported when i started.
After ==
  \A i \in Investigations : \A j \in after[i] :
    /\ stage[i] # "new" /\ i # j
    /\ Undisturbed(j) => stage[j] \in Reported

\* i alone followed j, and found the check recovered.
Recovering(i, j) ==
  /\ verdict[i] = "healthy" /\ verdict[j] = "critical"
  /\ Undisturbed(i) /\ GivenUp(j) = {}
  /\ \A k \in Investigations \ {i, j} : stage[k] = "new"

Handled(i) == <<i, "on_recovery">> \in logged \cup cooled

\* From its first read to its last action i has the recovery before it or behind it.
Dispatched ==
  \A i \in Investigations : \A j \in after[i] : Recovering(i, j) =>
    /\ \A r \in Attempts : r[1] = i /\ pc[r] \in {"acting", "logging"} =>
         "on_recovery" \in due[r] \/ Handled(i)
    /\ stage[i] = "completed" => Handled(i)

LEMMA NewBefore ==
  ASSUME IInv, [Next]_vars, NEW k \in Investigations, stage'[k] = "new"
  PROVE  stage[k] = "new"
<1>1. ASSUME NEW i \in Investigations, Start(i) \/ Advance(i) \/ CannotOpen(i)
      PROVE  \E s \in Stages \ {"new"} : stage' = [stage EXCEPT ![i] = s]
  BY <1>1 DEF Start, Advance, LoadContext, CannotOpen, Investigate, Evaluate, Close, Stages, Final
<1>2. ASSUME NEW i \in Investigations, Begin(i)
      PROVE  \E s \in Stages \ {"new"} : stage' = [stage EXCEPT ![i] = s]
  <2>1. Stuck(i) \/ \E p \in Waits \cup {"over"}, s \in Stages : Begun(i, p, s)
    BY <1>2, BeginEffect
  <2>2. ASSUME NEW p \in Waits \cup {"over"}, NEW s \in Stages, Begun(i, p, s)
        PROVE  s # "new"
    BY <2>2 DEF Begun, Passes, Waits, PlaceOf
  <2>3. QED
    BY <2>1, <2>2 DEF Stuck, Begun, Stages, Final
<1>3. ASSUME NEW r \in Attempts, Step(r)
      PROVE  \E s \in Stages : stage' = [stage EXCEPT ![r[1]] = s] /\ (s = "new" => s = stage[r[1]])
  <2>1. PICK q \in {"over", "acting", "logging"}, s \in Stages : Moves(r, q, s)
    BY <1>3, StepEffect
  <2>2. QED
    BY <2>1 DEF Moves, Passes
<1>4. ASSUME \/ \E i \in Investigations : GiveUp(i)
             \/ DeleteCheck
             \/ UNCHANGED vars
      PROVE  stage' = stage
  BY <1>4 DEF GiveUp, DeleteCheck, vars, workflowVars
<1>5. QED
  BY <1>1, <1>2, <1>3, <1>4 DEF Next, IInv, TypeOK

\* Without a fault what has reported goes on to complete.
LEMMA ReportedStays ==
  ASSUME IInv, Filed, AllTidy, [Next]_vars, NEW j \in Investigations, Undisturbed(j)',
         stage[j] \in Reported
  PROVE  stage'[j] \in Reported /\ verdict'[j] = verdict[j]
<1>1. Undisturbed(j) /\ Tidy(j)
  BY UndisturbedBefore DEF AllTidy
<1>2. ASSUME NEW k \in Investigations, Start(k) \/ Advance(k) \/ CannotOpen(k)
      PROVE  stage'[j] \in Reported /\ verdict'[j] = verdict[j]
  <2>1. CASE k = j
    BY <1>2, <2>1 DEF Start, Advance, LoadContext, CannotOpen, Investigate, Evaluate, Close,
      Reported, IInv,
                      TypeOK
  <2>2. CASE k # j
    BY <1>2, <2>2, WorkflowElsewhere DEF Same
  <2>3. QED
    BY <2>1, <2>2
<1>3. ASSUME NEW k \in Investigations, Begin(k)
      PROVE  stage'[j] \in Reported /\ verdict'[j] = verdict[j]
  <2>1. CASE k = j
    BY <1>1, <1>3, <2>1, TidyBegin, BeginEffect
  <2>2. CASE k # j
    BY <1>3, <2>2, BeginElsewhere DEF Same
  <2>3. QED
    BY <2>1, <2>2
<1>4. ASSUME NEW r \in Attempts, Step(r)
      PROVE  stage'[j] \in Reported /\ verdict'[j] = verdict[j]
  <2>1. CASE r[1] = j
    <3>1. PICK q \in {"over", "acting", "logging"}, s \in Stages : Moves(r, q, s)
      BY <1>4, StepEffect
    <3>2. stage'[j] = s /\ verdict' = verdict
      BY <1>4, <2>1, <3>1, StepEffect DEF Moves, IInv, TypeOK
    <3>3. s = stage[j] \/ <<stage[j], s>> \in Passes \cup {<<"actions", "completed">>}
      BY <2>1, <3>1 DEF Moves
    <3>4. s \in Reported
      BY <3>3 DEF Passes, Reported
    <3>5. QED
      BY <3>2, <3>4
  <2>2. CASE r[1] # j
    BY <1>4, <2>2, StepElsewhere DEF Same
  <2>3. QED
    BY <2>1, <2>2
<1>5. ASSUME \/ \E i \in Investigations : GiveUp(i)
             \/ DeleteCheck
             \/ UNCHANGED vars
      PROVE  UNCHANGED <<stage, verdict>>
  BY <1>5 DEF GiveUp, DeleteCheck, vars, workflowVars
<1>6. QED
  BY <1>2, <1>3, <1>4, <1>5 DEF Next

\* Who had reported is settled when an investigation starts.
LEMMA AfterEffect ==
  ASSUME IInv, [Next]_vars, NEW i \in Investigations
  PROVE  \/ after'[i] = after[i]
         \/ /\ Start(i) /\ stage[i] = "new" /\ stage'[i] = "context" /\ UNCHANGED <<pc, deleted>>
            /\ after'[i] = {j \in Investigations : stage[j] \in Reported}
<1>1. ASSUME NEW k \in Investigations, Start(k)
      PROVE  \/ after'[i] = after[i]
             \/ /\ Start(i) /\ stage[i] = "new" /\ stage'[i] = "context" /\ UNCHANGED <<pc, deleted>>
                /\ after'[i] = {j \in Investigations : stage[j] \in Reported}
  BY <1>1 DEF Start, IInv, TypeOK, attemptVars
<1>2. ASSUME NEW k \in Investigations, Advance(k) \/ CannotOpen(k) \/ GiveUp(k)
      PROVE  after' = after
  BY <1>2 DEF Advance, LoadContext, CannotOpen, Investigate, Evaluate, Close, GiveUp, historyVars
<1>3. ASSUME NEW k \in Investigations, Begin(k)
      PROVE  after' = after
  BY <1>3, BeginEffect DEF historyVars
<1>4. ASSUME NEW r \in Attempts, Step(r)
      PROVE  after' = after
  BY <1>4, StepEffect
<1>5. CASE DeleteCheck \/ UNCHANGED vars
  BY <1>5 DEF DeleteCheck, vars, historyVars
<1>6. QED
  BY <1>1, <1>2, <1>3, <1>4, <1>5 DEF Next

LEMMA NextAfter == IInv /\ Filed /\ AllTidy /\ After /\ [Next]_vars => After'
<1> SUFFICES ASSUME IInv, Filed, AllTidy, After, [Next]_vars,
                    NEW i \in Investigations, NEW j \in after'[i]
             PROVE  stage'[i] # "new" /\ i # j /\ (Undisturbed(j)' => stage'[j] \in Reported)
  BY DEF After
<1>1. CASE after'[i] = after[i]
  <2>1. j \in Investigations /\ stage[i] # "new" /\ i # j /\ (Undisturbed(j) => stage[j] \in Reported)
    BY <1>1 DEF After, IInv, TypeOK
  <2>2. QED
    BY <2>1, NewBefore, ReportedStays, UndisturbedBefore
<1>2. CASE /\ stage[i] = "new" /\ stage'[i] = "context"
           /\ after'[i] = {k \in Investigations : stage[k] \in Reported}
  <2>1. j \in Investigations /\ stage[j] \in Reported /\ i # j
    BY <1>2 DEF Reported
  <2>2. QED
    BY <1>2, <2>1, ReportedStays
<1>3. QED
  BY <1>1, <1>2, AfterEffect

\* The rows a dispatch of i reads, when j alone was before it.
LEMMA RecoveryWanted ==
  ASSUME IInv, Filed, AllTidy, NEW i \in Investigations, NEW j \in Investigations, i # j,
         Recovering(i, j), stage[i] = "actions", stage[j] \in Reported
  PROVE  "on_recovery" \in Wanted(i)
<1> DEFINE Known == {x \in Rows \ {Own(i)} : row[x].status # "none" /\ row[x].health # "unknown"}
           last == CHOOSE x \in Known : \A y \in Known : stamp[y] <= stamp[x]
<1>1. Tidy(i) /\ Tidy(j)
  BY DEF AllTidy, Recovering, Undisturbed
<1>2. own[i] # 0 /\ row[Own(i)].health = "healthy"
  BY <1>1 DEF Tidy, Recovering, Reported
<1>3. own[j] # 0 /\ row[Own(j)].health = "critical" /\ row[Own(j)].status = "completed"
  BY <1>1 DEF Tidy, Recovering, Reported
<1>4. ASSUME NEW x \in Rows, x # Own(i), x # Own(j)
      PROVE  row[x].status = "none"
  <2>1. x[1] \in Investigations /\ x[2] \in 1..Bound /\ x = <<x[1], x[2]>>
    BY Parts
  <2>2. CASE x[1] \in {i, j}
    <3>1. /\ own[x[1]] = made[x[1]] /\ made[x[1]] <= 1 /\ own[x[1]] # 0 /\ own[x[1]] \in Nat
          /\ x # Own(x[1])
      BY <1>1, <1>2, <1>3, <1>4, <2>1, <2>2, OwnRow DEF Tidy
    <3>2. x[2] # 1
      BY <2>1, <3>1 DEF Own
    <3>3. x[2] > made[x[1]]
      BY <2>1, <3>1, <3>2, Parts
    <3>4. QED
      BY <3>3 DEF Filed
  <2>3. CASE x[1] \notin {i, j}
    <3>1. made[x[1]] = 0
      BY <2>1, <2>3 DEF Recovering, IInv, Made
    <3>2. x[2] > made[x[1]]
      BY <2>1, <3>1, Parts
    <3>3. QED
      BY <3>2 DEF Filed
  <2>4. QED
    BY <2>2, <2>3
<1>5. Own(j) \in Rows /\ Own(j) # Own(i)
  BY <1>3, OwnRow
<1>6. Known = {Own(j)}
  BY <1>3, <1>4, <1>5
<1>7. stamp[Own(j)] <= stamp[Own(j)]
  BY <1>5 DEF IInv, TypeOK
<1>8. last = Own(j)
  BY <1>6, <1>7
<1>9. PreviousHealth(i) = IF Known = {} THEN "unknown" ELSE row[last].health
  BY DEF PreviousHealth
<1> HIDE DEF Known, last
<1>10. PreviousHealth(i) = "critical"
  BY <1>3, <1>6, <1>8, <1>9
<1>11. QED
  BY <1>2, <1>10 DEF Wanted, Actions

\* The attempts of i that go on, or begin, to dispatch.
LEMMA DispatchStep ==
  ASSUME IInv, Filed, AllTidy, NEW i \in Investigations, Undisturbed(i), Tidy(i),
         NEW r \in Attempts, Step(r), r[1] = i,
         \A x \in Attempts : x[1] = i /\ pc[x] \in {"acting", "logging"} =>
           "on_recovery" \in due[x] \/ Handled(i),
         stage[i] = "completed" => Handled(i), Handled(i) => Handled(i)'
  PROVE  /\ \A x \in Attempts : x[1] = i /\ pc'[x] \in {"acting", "logging"} =>
              "on_recovery" \in due'[x] \/ Handled(i)'
         /\ stage'[i] = "completed" => Handled(i)'
<1>1. ~deleted
  BY DEF Undisturbed
<1>2. PICK q \in {"over", "acting", "logging"}, s \in Stages : Moves(r, q, s)
  BY StepEffect
<1>3. /\ stage'[i] = s /\ pc'[r] = q /\ \A x \in Attempts : x # r => pc'[x] = pc[x]
      /\ s = stage[i] \/ <<stage[i], s>> \in Passes \cup {<<"actions", "completed">>}
  BY <1>2 DEF Moves, IInv, TypeOK
<1>4. CASE CheckCooldown(r)
  <2>1. pc[r] = "acting" /\ stage' = stage
    BY <1>4 DEF CheckCooldown, workflowVars
  <2>2. \E a \in Actions : \/ due' = [due EXCEPT ![r] = @ \ {a}] /\ cooled' = cooled \cup {<<i, a>>}
                           \/ due' = due
    BY <1>4 DEF CheckCooldown, IInv, TypeOK
  <2>3. \A x \in Attempts : x # r => due'[x] = due[x]
    BY <2>2 DEF IInv, TypeOK
  <2>4. "on_recovery" \in due[r] => "on_recovery" \in due'[r] \/ Handled(i)'
    BY <2>2 DEF Handled, IInv, TypeOK
  <2>5. QED
    BY <1>3, <2>1, <2>3, <2>4
<1>5. CASE CreateActionLog(r)
  <2>1. pc[r] = "logging" /\ stage' = stage
        /\ due' = [due EXCEPT ![r] = @ \ {doing[r]}] /\ logged' = logged \cup {<<i, doing[r]>>}
    BY <1>1, <1>5 DEF CreateActionLog, workflowVars
  <2>2. \A x \in Attempts : x # r => due'[x] = due[x]
    BY <2>1 DEF IInv, TypeOK
  <2>3. "on_recovery" \in due[r] => "on_recovery" \in due'[r] \/ Handled(i)'
    BY <2>1 DEF Handled, IInv, TypeOK
  <2>4. QED
    BY <1>3, <2>1, <2>2, <2>3
<1>6. CASE Notify(r)
  <2>1. pc[r] = "acting" /\ due[r] = {} /\ due' = due /\ pc' = [pc EXCEPT ![r] = "over"]
    BY <1>6 DEF Notify
  <2>2. Handled(i)'
    BY <2>1
  <2>3. QED
    BY <2>2
<1>7. CASE ~(CheckCooldown(r) \/ CreateActionLog(r) \/ Notify(r))
  <2>1. due' = due /\ pc' = [pc EXCEPT ![r] = "over"] /\ pc[r] \notin {"acting", "logging"}
    BY <1>7 DEF Step, SaveRunning, SaveCompleted, SaveFailed, WriteRow, CreateRow, OpenSession
  <2>2. s # "completed" \/ s = stage[i]
    <3>1. stage[i] = PlaceOf(pc[r])
      BY <1>2 DEF Moves, IInv, Placed, Undisturbed, GivenUp, Heard
    <3>2. stage[i] # "actions"
      BY <2>1, <1>2, <3>1 DEF Moves, Here, PlaceOf, IInv, TypeOK
    <3>3. QED
      BY <1>3, <3>2 DEF Passes
  <2>3. pc'[r] = "over"
    BY <2>1 DEF IInv, TypeOK
  <2>4. QED
    BY <1>3, <2>1, <2>2, <2>3
<1>8. QED
  BY <1>4, <1>5, <1>6, <1>7

LEMMA NextDispatched == IInv /\ Filed /\ AllTidy /\ After /\ Dispatched /\ [Next]_vars => Dispatched'
<1> SUFFICES ASSUME IInv, Filed, AllTidy, After, Dispatched, [Next]_vars,
                    NEW i \in Investigations, NEW j \in after'[i], Recovering(i, j)'
             PROVE  /\ \A r \in Attempts : r[1] = i /\ pc'[r] \in {"acting", "logging"} =>
                         "on_recovery" \in due'[r] \/ Handled(i)'
                    /\ stage'[i] = "completed" => Handled(i)'
  BY DEF Dispatched
<1>1. Undisturbed(i)' /\ Undisturbed(i) /\ Tidy(i) /\ (Handled(i) => Handled(i)')
  BY UndisturbedBefore DEF Recovering, AllTidy, Handled
<1>2. \A r \in Attempts : r[1] = i /\ pc[r] \in {"acting", "logging"} => stage[i] = "actions"
  BY <1>1 DEF Undisturbed, GivenUp, IInv, Placed, Here, Heard, PlaceOf
<1>3. CASE Start(i) /\ stage[i] = "new" /\ stage'[i] = "context" /\ pc' = pc
  BY <1>2, <1>3
<1>4. CASE after'[i] = after[i]
  <2>1. j \in after[i] /\ j \in Investigations /\ i # j /\ stage[i] # "new"
    BY <1>4 DEF After, IInv, TypeOK
  <2>2. Undisturbed(j)' /\ Undisturbed(j)
    BY <1>1, <2>1, UndisturbedBefore DEF Recovering, Undisturbed
  <2>3. stage[j] \in Reported /\ verdict[j] = "critical" /\ GivenUp(j) = {}
    <3>1. stage[j] \in Reported
      BY <2>1, <2>2 DEF After
    <3>2. QED
      BY <2>1, <2>2, <3>1, ReportedStays DEF Recovering, Undisturbed
  <2>4. \A k \in Investigations \ {i, j} : stage[k] = "new"
    BY NewBefore DEF Recovering
  <2>5. ASSUME verdict'[i] = verdict[i]
        PROVE  /\ Recovering(i, j)
               /\ \A r \in Attempts : r[1] = i /\ pc[r] \in {"acting", "logging"} =>
                    "on_recovery" \in due[r] \/ Handled(i)
               /\ stage[i] = "completed" => Handled(i)
    <3>1. Recovering(i, j)
      BY <1>1, <2>3, <2>4, <2>5 DEF Recovering
    <3>2. QED
      BY <2>1, <3>1 DEF Dispatched
  <2>6. ASSUME Same(i)
        PROVE  /\ \A r \in Attempts : r[1] = i /\ pc'[r] \in {"acting", "logging"} =>
                    "on_recovery" \in due'[r] \/ Handled(i)'
               /\ stage'[i] = "completed" => Handled(i)'
    BY <1>1, <2>5, <2>6 DEF Same
  <2>7. ASSUME NEW k \in Investigations, Start(k) \/ Advance(k) \/ CannotOpen(k)
        PROVE  /\ \A r \in Attempts : r[1] = i /\ pc'[r] \in {"acting", "logging"} =>
                    "on_recovery" \in due'[r] \/ Handled(i)'
               /\ stage'[i] = "completed" => Handled(i)'
    <3>1. CASE k # i
      BY <2>6, <2>7, <3>1, WorkflowElsewhere
    <3>2. CASE k = i
      <4>1. pc' = pc /\ stage[i] # "actions" /\ stage'[i] # "completed"
        BY <2>7, <3>2 DEF Start, Advance, LoadContext, CannotOpen, Investigate, Evaluate, Close,
          attemptVars,
                          IInv, TypeOK
      <4>2. QED
        BY <1>2, <4>1
    <3>3. QED
      BY <3>1, <3>2
  <2>8. ASSUME NEW k \in Investigations, Begin(k)
        PROVE  /\ \A r \in Attempts : r[1] = i /\ pc'[r] \in {"acting", "logging"} =>
                    "on_recovery" \in due'[r] \/ Handled(i)'
               /\ stage'[i] = "completed" => Handled(i)'
    <3>1. CASE k # i
      BY <2>6, <2>8, <3>1, BeginElsewhere
    <3>2. CASE k = i
      <4>1. UNCHANGED <<stage, verdict, deleted>>
        BY <1>1, <2>8, <3>2, TidyBegin, BeginEffect
      <4>2. Recovering(i, j)
        BY <2>5, <4>1
      <4>3. CASE BeginActions(i)
        <5>1. /\ pc' = [pc EXCEPT ![<<i, tries[i] + 1>>] = "acting"]
              /\ due' = [due EXCEPT ![<<i, tries[i] + 1>>] = Wanted(i)] /\ stage[i] = "actions"
          BY <1>1, <4>3 DEF BeginActions, NextAttempt, Undisturbed
        <5>2. "on_recovery" \in Wanted(i)
          BY <2>1, <2>3, <4>2, <5>1, RecoveryWanted
        <5>3. \A r \in Attempts : /\ r = <<i, tries[i] + 1>> => "on_recovery" \in due'[r]
                                  /\ r # <<i, tries[i] + 1>> => pc'[r] = pc[r] /\ due'[r] = due[r]
          BY <5>1, <5>2 DEF IInv, TypeOK
        <5>4. QED
          BY <1>1, <2>5, <4>1, <5>3
      <4>4. CASE ~BeginActions(i)
        <5>1. due' = due /\ \E p \in {"over", "starting", "creating", "opening", "completing", "failing"} :
                pc' = [pc EXCEPT ![<<i, tries[i] + 1>>] = p]
          BY <2>8, <3>2, <4>4 DEF Begin, BeginRun, BeginOpen, BeginReport, NextAttempt
        <5>2. \A r \in Attempts : pc'[r] \in {"acting", "logging"} => pc'[r] = pc[r]
          BY <5>1 DEF IInv, TypeOK
        <5>3. QED
          BY <1>1, <2>5, <4>1, <5>1, <5>2
      <4>5. QED
        BY <4>3, <4>4
    <3>3. QED
      BY <3>1, <3>2
  <2>9. ASSUME NEW r \in Attempts, Step(r)
        PROVE  /\ \A x \in Attempts : x[1] = i /\ pc'[x] \in {"acting", "logging"} =>
                    "on_recovery" \in due'[x] \/ Handled(i)'
               /\ stage'[i] = "completed" => Handled(i)'
    <3>1. CASE r[1] # i
      BY <2>6, <2>9, <3>1, StepElsewhere
    <3>2. CASE r[1] = i
      <4>1. verdict' = verdict
        BY <2>9, StepEffect
      <4>2. QED
        BY <1>1, <2>5, <2>9, <3>2, <4>1, DispatchStep
    <3>3. QED
      BY <3>1, <3>2
  <2>10. ASSUME \/ \E k \in Investigations : GiveUp(k)
                \/ DeleteCheck
                \/ UNCHANGED vars
         PROVE  Same(i)
    BY <2>10 DEF GiveUp, DeleteCheck, vars, workflowVars, rowVars, sessionVars, attemptVars,
                 historyVars, Same
  <2>11. QED
    BY <2>6, <2>7, <2>8, <2>9, <2>10 DEF Next
<1>5. QED
  BY <1>3, <1>4, AfterEffect

\* ActionDispatcher: an investigation that follows a critical report of another
\* and finds the check healthy logs the recovery or was kept from it by the
\* cooldown, if nothing was given up and no third one had started.
THEOREM RecoveryReported == Spec => []RecoveryNotified
<1>1. Init => After /\ Dispatched
  BY DEF Init, After, Dispatched
<1>2. After /\ Dispatched => RecoveryNotified
  <2> SUFFICES ASSUME Dispatched, NEW i \in Investigations, NEW j \in after[i],
                      stage[i] = "completed", verdict[i] = "healthy", verdict[j] = "critical",
                      GivenUp(i) = {}, GivenUp(j) = {}, ~deleted,
                      \A k \in Investigations \ {i, j} : stage[k] = "new"
               PROVE  <<i, "on_recovery">> \in logged \cup cooled
    BY DEF RecoveryNotified
  <2>1. Recovering(i, j)
    BY DEF Recovering, Undisturbed
  <2>2. Handled(i)
    BY <2>1 DEF Dispatched
  <2>3. QED
    BY <2>2 DEF Handled
<1>3. Spec => [](IInv /\ Filed /\ AllTidy)
  BY Order
<1>4. QED
  BY <1>1, <1>2, <1>3, NextAfter, NextDispatched, PTL DEF Spec

-----------------------------------------------------------------------------
(* Investigations end: what their fairness rests on. *)

\* An attempt that has begun is somewhere; the action one is about to log is due.
Begins == \A r \in Attempts : r[2] <= tries[r[1]] => pc[r] # "none"
Handling == \A r \in Attempts : pc[r] = "logging" => doing[r] \in due[r]

\* The guard of a step that goes on with i.
Ready(i) ==
  \/ stage[i] \in {"context", "investigate", "close", "close_failed"}
  \/ stage[i] \in {"run", "session", "complete", "fail", "actions"} /\ Idle(i)
  \/ Mine(i) /\ stage[i] = PlaceOf(pc[Current(i)])

\* How far i is from its end: its stage, its attempts and what the current one has
\* left to do.
Distance(s) ==
  IF s = "new" THEN 10
  ELSE IF s = "context" THEN 9
  ELSE IF s = "run" THEN 8
  ELSE IF s = "session" THEN 7
  ELSE IF s = "investigate" THEN 6
  ELSE IF s = "complete" THEN 5
  ELSE IF s = "close" THEN 4
  ELSE IF s = "actions" THEN 3
  ELSE IF s = "fail" THEN 2
  ELSE IF s = "close_failed" THEN 1 ELSE 0
Work(r) ==
  IF pc[r] \in {"none", "over"} THEN 0
  ELSE IF pc[r] = "acting" THEN 2 * Cardinality(due[r]) + 1
  ELSE IF pc[r] = "logging" THEN 2 * Cardinality(due[r]) ELSE 1
Pace(i) == IF tries[i] = 0 THEN 0 ELSE Work(Current(i))

Left(i) == <<Distance(stage[i]), MaxTries - tries[i], Pace(i)>>

Lower(a, b) == \E k \in 1..3 : a[k] < b[k] /\ \A j \in 1..(k - 1) : a[j] = b[j]
Lowered(i) == Lower(Left(i)', Left(i))

\* A step of the workflow of i or of its current attempt, given up or not.
Goes(i) ==
  \/ Start(i) \/ Advance(i) \/ CannotOpen(i) \/ Begin(i)
  \/ tries[i] > 0 /\ Step(Current(i))

RunsDown ==
  \A i \in Investigations : /\ Goes(i) => Lowered(i)
                            /\ Lowered(i) \/ Left(i)' = Left(i)

LEMMA BeginsInit == Init => Begins /\ Handling
<1> SUFFICES ASSUME Init PROVE Begins /\ Handling
  OBVIOUS
<1>1. \A r \in Attempts : tries[r[1]] = 0 /\ r[2] \in Nat /\ r[2] > 0 /\ pc[r] = "none"
  BY Parts DEF Init
<1>2. QED
  BY <1>1 DEF Begins, Handling

LEMMA BeginsNext == IInv /\ Begins /\ Handling /\ [Next]_vars => Begins' /\ Handling'
<1> SUFFICES ASSUME IInv, Begins, Handling, [Next]_vars PROVE Begins' /\ Handling'
  OBVIOUS
<1>T. /\ pc \in [Attempts -> {"none", "starting", "creating", "opening", "completing", "failing",
                              "acting", "logging", "over"}]
      /\ due \in [Attempts -> SUBSET Actions] /\ doing \in [Attempts -> Actions \cup {"none"}]
      /\ tries \in [Investigations -> 0..MaxTries]
  BY DEF IInv, TypeOK
<1>1. ASSUME NEW i \in Investigations, Start(i) \/ Advance(i) \/ CannotOpen(i) \/ GiveUp(i)
      PROVE  Begins' /\ Handling'
  <2>1. UNCHANGED <<tries, pc, due, doing>>
    BY <1>1 DEF Start, Advance, LoadContext, Investigate, Evaluate, Close, CannotOpen, GiveUp,
      attemptVars
  <2>2. QED
    BY <2>1 DEF Begins, Handling
<1>2. CASE DeleteCheck \/ UNCHANGED vars
  <2>1. UNCHANGED <<tries, pc, due, doing>>
    BY <1>2 DEF DeleteCheck, vars, attemptVars
  <2>2. QED
    BY <2>1 DEF Begins, Handling
<1>3. ASSUME NEW i \in Investigations, Begin(i)
      PROVE  Begins' /\ Handling'
  <2>1. /\ UNCHANGED doing
        /\ due' = due \/ due' = [due EXCEPT ![<<i, tries[i] + 1>>] = Wanted(i)]
        /\ Stuck(i) \/ \E p \in Waits \cup {"over"}, s \in Stages : Begun(i, p, s)
    BY <1>3, BeginEffect
  <2>2. CASE Stuck(i)
    BY <2>1, <2>2 DEF Stuck, Begins, Handling
  <2>3. ASSUME NEW p \in Waits \cup {"over"}, NEW s \in Stages, Begun(i, p, s)
        PROVE  Begins' /\ Handling'
    <3> DEFINE n == <<i, tries[i] + 1>>
    <3>1. n \in Attempts /\ n[1] = i /\ n[2] = tries[i] + 1
      BY <2>3, AttemptLeft
    <3>2. /\ pc' = [pc EXCEPT ![n] = p] /\ tries' = [tries EXCEPT ![i] = tries[i] + 1]
          /\ p \notin {"none", "logging"}
      BY <2>3 DEF Begun, NextAttempt, Waits
    <3> HIDE DEF n
    <3>3. \A r \in Attempts : r # n => pc'[r] = pc[r] /\ due'[r] = due[r]
      <4>1. due' = due \/ due' = [due EXCEPT ![n] = Wanted(i)]
        BY <2>1 DEF n
      <4>2. QED
        BY <1>T, <3>2, <4>1
    <3>4. pc'[n] = p
      BY <1>T, <3>1, <3>2
    <3>5. Handling'
      BY <2>1, <3>2, <3>3, <3>4 DEF Handling
    <3>6. ASSUME NEW r \in Attempts, r # n, r[2] <= tries'[r[1]]
          PROVE  pc[r] # "none"
      <4>1. r[1] \in Investigations /\ r = <<r[1], r[2]>> /\ r[2] \in Nat /\ tries[i] \in Nat
        BY <1>T, Parts
      <4>2. CASE r[1] = i
        <5>1. r[2] <= tries[i] + 1 /\ r[2] # tries[i] + 1
          BY <1>T, <3>2, <3>6, <4>1, <4>2 DEF n
        <5>2. r[2] <= tries[r[1]]
          BY <4>1, <4>2, <5>1
        <5>3. QED
          BY <5>2 DEF Begins
      <4>3. CASE r[1] # i
        BY <1>T, <3>2, <3>6, <4>1, <4>3 DEF Begins
      <4>4. QED
        BY <4>2, <4>3
    <3>7. QED
      BY <3>2, <3>3, <3>4, <3>5, <3>6 DEF Begins
  <2>4. QED
    BY <2>1, <2>2, <2>3
<1>4. ASSUME NEW r \in Attempts, Step(r)
      PROVE  Begins' /\ Handling'
  <2>1. PICK q \in {"over", "acting", "logging"}, s \in Stages : Moves(r, q, s)
    BY <1>4, StepEffect
  <2>2. Begins'
    <3>1. UNCHANGED tries /\ \A x \in Attempts : pc'[x] = pc[x] \/ pc'[x] # "none"
      BY <1>T, <1>4, <2>1, StepEffect DEF Moves
    <3>2. QED
      BY <3>1 DEF Begins
  <2>3. Handling'
    <3>1. CASE CheckCooldown(r)
      BY <1>T, <3>1 DEF CheckCooldown, Handling
    <3>2. CASE CreateActionLog(r)
      BY <1>T, <3>2 DEF CreateActionLog, Handling
    <3>3. CASE ~(CheckCooldown(r) \/ CreateActionLog(r))
      <4>1. UNCHANGED <<due, doing>> /\ pc' = [pc EXCEPT ![r] = "over"]
        BY <1>4, <3>3 DEF Step, SaveRunning, SaveCompleted, SaveFailed, WriteRow, CreateRow,
                          OpenSession, Notify
      <4>2. QED
        BY <1>T, <4>1 DEF Handling
    <3>4. QED
      BY <3>1, <3>2, <3>3
  <2>4. QED
    BY <2>2, <2>3
<1>5. QED
  BY <1>1, <1>2, <1>3, <1>4 DEF Next

\* The actions an attempt still has to handle are counted.
LEMMA DueCounted ==
  ASSUME IInv, NEW r \in Attempts
  PROVE  /\ IsFiniteSet(due[r]) /\ Cardinality(due[r]) \in Nat
         /\ \A a \in due[r] : /\ Cardinality(due[r] \ {a}) = Cardinality(due[r]) - 1
                              /\ Cardinality(due[r]) > 0
<1>1. IsFiniteSet(Actions)
  <2>1. Actions = {"on_completion"} \cup {"on_recovery"}
    BY DEF Actions
  <2>2. QED
    BY <2>1, FS_Singleton, FS_Union
<1>2. due[r] \subseteq Actions
  BY DEF IInv, TypeOK
<1>3. IsFiniteSet(due[r]) /\ Cardinality(due[r]) \in Nat
  BY <1>1, <1>2, FS_Subset, FS_CardinalityType
<1>4. ASSUME NEW a \in due[r]
      PROVE  /\ Cardinality(due[r] \ {a}) = Cardinality(due[r]) - 1
             /\ Cardinality(due[r]) > 0
  <2>1. Cardinality(due[r] \ {a}) = Cardinality(due[r]) - 1
    BY <1>3, FS_RemoveElement
  <2>2. Cardinality(due[r]) # 0
    BY <1>3, FS_EmptySet
  <2>3. QED
    BY <1>3, <2>1, <2>2
<1>5. QED
  BY <1>3, <1>4

\* A step of an attempt leaves it less to do.
LEMMA WorkLess ==
  ASSUME IInv, Handling, NEW r \in Attempts, Step(r)
  PROVE  /\ Work(r)' < Work(r)
         /\ \A x \in Attempts : x # r => Work(x)' = Work(x)
<1>T. /\ pc \in [Attempts -> {"none", "starting", "creating", "opening", "completing", "failing",
                              "acting", "logging", "over"}]
      /\ due \in [Attempts -> SUBSET Actions]
  BY DEF IInv, TypeOK
<1> DEFINE n == Cardinality(due[r])
<1>1. n \in Nat
  BY DueCounted
<1>2. CASE CheckCooldown(r)
  <2>1. pc[r] = "acting" /\ Work(r) = 2 * n + 1
    BY <1>2 DEF CheckCooldown, Work
  <2>2. PICK a \in due[r] :
          \/ due' = [due EXCEPT ![r] = due[r] \ {a}] /\ pc' = pc
          \/ pc' = [pc EXCEPT ![r] = "logging"] /\ due' = due
    BY <1>2 DEF CheckCooldown
  <2>3. \A x \in Attempts : x # r => Work(x)' = Work(x)
    BY <1>T, <2>2 DEF Work
  <2>4. CASE due' = [due EXCEPT ![r] = due[r] \ {a}] /\ pc' = pc
    <3>1. Work(r)' = 2 * (n - 1) + 1
      <4>1. due'[r] = due[r] \ {a} /\ pc'[r] = "acting"
        BY <1>T, <2>1, <2>4
      <4>2. Cardinality(due'[r]) = n - 1
        BY <4>1, DueCounted
      <4>3. Work(r)' = 2 * Cardinality(due'[r]) + 1
        BY <4>1 DEF Work
      <4>4. QED
        BY <4>2, <4>3
    <3> HIDE DEF n
    <3>2. QED
      BY <1>1, <2>1, <2>3, <3>1
  <2>5. CASE pc' = [pc EXCEPT ![r] = "logging"] /\ due' = due
    <3>1. Work(r)' = 2 * n
      <4>1. pc'[r] = "logging" /\ due'[r] = due[r]
        BY <1>T, <2>5
      <4>2. QED
        BY <4>1 DEF Work
    <3> HIDE DEF n
    <3>2. QED
      BY <1>1, <2>1, <2>3, <3>1
  <2>6. QED
    BY <2>2, <2>4, <2>5
<1>3. CASE CreateActionLog(r)
  <2>1. pc[r] = "logging" /\ Work(r) = 2 * n /\ doing[r] \in due[r] /\ n > 0
    <3>1. pc[r] = "logging" /\ doing[r] \in due[r]
      BY <1>3 DEF CreateActionLog, Handling
    <3>2. Work(r) = 2 * n
      BY <3>1 DEF Work
    <3>3. QED
      BY <3>1, <3>2, DueCounted
  <2>2. CASE deleted
    <3>1. pc' = [pc EXCEPT ![r] = "over"] /\ due' = due
      BY <1>3, <2>2 DEF CreateActionLog
    <3>2. Work(r)' = 0 /\ \A x \in Attempts : x # r => Work(x)' = Work(x)
      BY <1>T, <3>1 DEF Work
    <3> HIDE DEF n
    <3>3. QED
      BY <1>1, <2>1, <3>2
  <2>3. CASE ~deleted
    <3>1. /\ pc' = [pc EXCEPT ![r] = "acting"]
          /\ due' = [due EXCEPT ![r] = due[r] \ {doing[r]}]
      BY <1>3, <2>3 DEF CreateActionLog
    <3>2. \A x \in Attempts : x # r => Work(x)' = Work(x)
      BY <1>T, <3>1 DEF Work
    <3>3. Work(r)' = 2 * (n - 1) + 1
      <4>1. due'[r] = due[r] \ {doing[r]} /\ pc'[r] = "acting"
        BY <1>T, <3>1
      <4>2. Cardinality(due'[r]) = n - 1
        BY <2>1, <4>1, DueCounted
      <4>3. Work(r)' = 2 * Cardinality(due'[r]) + 1
        BY <4>1 DEF Work
      <4>4. QED
        BY <4>2, <4>3
    <3> HIDE DEF n
    <3>4. QED
      BY <1>1, <2>1, <3>2, <3>3
  <2>4. QED
    BY <2>2, <2>3
<1>4. CASE ~(CheckCooldown(r) \/ CreateActionLog(r))
  <2>1. UNCHANGED due /\ pc' = [pc EXCEPT ![r] = "over"] /\ pc[r] \notin {"none", "over", "logging"}
    BY <1>4 DEF Step, SaveRunning, SaveCompleted, SaveFailed, WriteRow, CreateRow,
                OpenSession, Notify
  <2>2. Work(r)' = 0 /\ \A x \in Attempts : x # r => Work(x)' = Work(x)
    BY <1>T, <2>1 DEF Work
  <2>3. Work(r) \in {1, 2 * n + 1}
    BY <2>1 DEF Work
  <2> HIDE DEF n
  <2>4. QED
    BY <1>1, <2>2, <2>3
<1>5. QED
  BY <1>2, <1>3, <1>4

LEMMA LeftParts ==
  ASSUME IInv, NEW i \in Investigations
  PROVE  /\ Left(i) \in Nat \X Nat \X Nat
         /\ Left(i) = <<Distance(stage[i]), MaxTries - tries[i], Pace(i)>>
         /\ Left(i)' = <<Distance(stage'[i]), MaxTries - tries'[i], Pace(i)'>>
         /\ tries[i] \in Nat /\ MaxTries \in Nat
         /\ tries[i] # 0 => /\ Current(i) \in Attempts /\ Current(i)[1] = i
                            /\ Current(i)[2] = tries[i]
<1>1. tries[i] \in 0..MaxTries /\ MaxTries \in Nat /\ MaxTries = 4 + MaxFaults
  BY BoundsAssumption DEF IInv, TypeOK, MaxTries
<1>2. tries[i] # 0 => /\ Current(i) \in Attempts /\ Current(i)[1] = i
                      /\ Current(i)[2] = tries[i]
  <2>1. tries[i] # 0 => tries[i] \in 1..(4 + MaxFaults)
    BY <1>1
  <2>2. QED
    BY <2>1, Parts DEF Current
<1>3. \A r \in Attempts : Work(r) \in Nat
  BY DueCounted DEF Work
<1>4. Pace(i) \in Nat
  BY <1>2, <1>3 DEF Pace
<1>5. Distance(stage[i]) \in Nat
  BY DEF Distance
<1>6. MaxTries - tries[i] \in Nat
  BY <1>1
<1>7. QED
  BY <1>1, <1>2, <1>4, <1>5, <1>6 DEF Left

LEMMA LowerStage ==
  ASSUME IInv, NEW i \in Investigations, Distance(stage'[i]) < Distance(stage[i])
  PROVE  Lowered(i)
BY LeftParts DEF Lower, Lowered

LEMMA LowerTries ==
  ASSUME IInv, NEW i \in Investigations, stage'[i] = stage[i], tries'[i] = tries[i] + 1
  PROVE  Lowered(i)
<1>1. MaxTries - tries'[i] < MaxTries - tries[i]
  BY LeftParts
<1>2. QED
  BY <1>1, LeftParts DEF Lower, Lowered

LEMMA LowerPace ==
  ASSUME IInv, NEW i \in Investigations, stage'[i] = stage[i], tries'[i] = tries[i],
         Pace(i)' < Pace(i)
  PROVE  Lowered(i)
BY LeftParts DEF Lower, Lowered

\* A step that is not of i leaves what i has left.
LEMMA LeftKept ==
  ASSUME IInv, NEW i \in Investigations, stage'[i] = stage[i], tries'[i] = tries[i],
         tries[i] # 0 => Work(Current(i))' = Work(Current(i))
  PROVE  Left(i)' = Left(i)
<1>1. Pace(i)' = Pace(i)
  BY DEF Pace
<1>2. QED
  BY <1>1, LeftParts

LEMMA SameLeft ==
  ASSUME IInv, NEW i \in Investigations, Same(i)
  PROVE  Left(i)' = Left(i)
<1>1. stage'[i] = stage[i] /\ tries'[i] = tries[i]
  BY DEF Same
<1>2. Current(i)' = Current(i)
  BY <1>1 DEF Current
<1>3. tries[i] # 0 => Work(Current(i))' = Work(Current(i))
  <2>1. tries[i] # 0 => /\ pc'[Current(i)] = pc[Current(i)] /\ due'[Current(i)] = due[Current(i)]
    BY LeftParts DEF Same
  <2>2. QED
    BY <1>2, <2>1 DEF Work
<1>4. QED
  BY <1>1, <1>3, LeftKept

LEMMA PassesOn ==
  ASSUME NEW s, NEW t, <<s, t>> \in Passes \cup {<<"actions", "completed">>}
  PROVE  Distance(t) < Distance(s)
<1>1. \/ s = "run" /\ t = "session"
      \/ s = "session" /\ t \in {"fail", "investigate"}
      \/ s = "complete" /\ t = "close"
      \/ s = "fail" /\ t = "close_failed"
      \/ s = "actions" /\ t = "completed"
  BY DEF Passes
<1>2. QED
  BY <1>1 DEF Distance

LEMMA GoesWorkflow ==
  ASSUME IInv, NEW i \in Investigations, Start(i) \/ Advance(i) \/ CannotOpen(i)
  PROVE  Lowered(i)
<1>1. stage \in [Investigations -> Stages]
  BY DEF IInv, TypeOK
<1>2. \/ stage[i] = "new" /\ stage'[i] = "context"
      \/ stage[i] = "context" /\ stage'[i] \in {"failed", "run"}
      \/ stage[i] = "session" /\ stage'[i] = "fail"
      \/ stage[i] = "investigate" /\ stage'[i] \in {"complete", "fail"}
      \/ stage[i] = "close" /\ stage'[i] = "actions"
      \/ stage[i] = "close_failed" /\ stage'[i] = "failed"
  BY <1>1 DEF Start, Advance, LoadContext, CannotOpen, Investigate, Evaluate, Close
<1>3. Distance(stage'[i]) < Distance(stage[i])
  BY <1>2 DEF Distance
<1>4. QED
  BY <1>3, LowerStage

LEMMA GoesBegin ==
  ASSUME IInv, NEW i \in Investigations, Begin(i)
  PROVE  Lowered(i)
<1>1. stage \in [Investigations -> Stages] /\ tries \in [Investigations -> 0..MaxTries]
  BY DEF IInv, TypeOK
<1>2. CASE Stuck(i)
  <2>1. stage[i] = "actions" /\ stage'[i] = "stuck"
    BY <1>1, <1>2 DEF Stuck
  <2>2. Distance(stage'[i]) < Distance(stage[i])
    BY <2>1 DEF Distance
  <2>3. QED
    BY <2>2, LowerStage
<1>3. ASSUME NEW p \in Waits \cup {"over"}, NEW s \in Stages, Begun(i, p, s)
      PROVE  Lowered(i)
  <2>1. stage'[i] = s /\ tries'[i] = tries[i] + 1
    BY <1>1, <1>3 DEF Begun, NextAttempt
  <2>2. CASE s = stage[i]
    BY <2>1, <2>2, LowerTries
  <2>3. CASE <<stage[i], s>> \in Passes
    BY <2>1, <2>3, PassesOn, LowerStage
  <2>4. QED
    BY <1>3, <2>2, <2>3 DEF Begun
<1>4. QED
  BY <1>2, <1>3, BeginEffect

LEMMA GoesStep ==
  ASSUME IInv, Handling, NEW r \in Attempts, Step(r)
  PROVE  IF tries[r[1]] > 0 /\ r = Current(r[1]) THEN Lowered(r[1])
                                                ELSE Left(r[1])' = Left(r[1]) \/ Lowered(r[1])
<1> DEFINE i == r[1]
<1>1. i \in Investigations /\ stage \in [Investigations -> Stages]
  BY Parts DEF IInv, TypeOK
<1>2. PICK q \in {"over", "acting", "logging"}, s \in Stages : Moves(r, q, s)
  BY StepEffect
<1>3. UNCHANGED tries /\ stage'[i] = s /\ Current(i)' = Current(i)
  BY <1>1, <1>2, StepEffect DEF Moves, Current
<1>4. CASE s # stage[i]
  <2>1. <<stage[i], s>> \in Passes \cup {<<"actions", "completed">>}
    BY <1>2, <1>4 DEF Moves
  <2>2. QED
    BY <1>1, <1>3, <2>1, PassesOn, LowerStage
<1>5. CASE s = stage[i] /\ tries[i] > 0 /\ r = Current(i)
  <2>1. Pace(i)' < Pace(i)
    <3>1. Pace(i) = Work(r) /\ Pace(i)' = Work(r)'
      BY <1>1, <1>3, <1>5, LeftParts DEF Pace
    <3>2. QED
      BY <3>1, WorkLess
  <2>2. QED
    BY <1>1, <1>3, <1>5, <2>1, LowerPace
<1>6. CASE s = stage[i] /\ ~(tries[i] > 0 /\ r = Current(i))
  <2>1. tries[i] # 0 => Work(Current(i))' = Work(Current(i))
    <3>1. tries[i] # 0 => Current(i) \in Attempts /\ Current(i) # r
      BY <1>1, <1>6, LeftParts
    <3>2. tries[i] # 0 => \A x \in Attempts : x = Current(i) => Work(x)' = Work(x)
      BY <3>1, WorkLess
    <3>3. QED
      BY <1>3, <3>1, <3>2 DEF Work
  <2>2. QED
    BY <1>1, <1>3, <1>6, <2>1, LeftKept
<1>7. QED
  BY <1>4, <1>5, <1>6

\* AutonomousInvestigationWorkflow: an investigation that has started and not ended can go
\* on, or waits for an attempt that is under way at its stage; and no step, of a given-up
\* attempt or of another investigation, takes it further from its end, while each of its
\* own brings it nearer in an order that has no infinite descent.
THEOREM InvestigationsRunDown ==
  Spec => /\ [](\A i \in Investigations : Left(i) \in Nat \X Nat \X Nat)
          /\ [](\A i \in Investigations : stage[i] \in Final \cup {"new"} \/ Ready(i))
          /\ [][RunsDown]_vars
<1>1. IInv => \A i \in Investigations : Left(i) \in Nat \X Nat \X Nat
  BY LeftParts
<1>2. IInv /\ Begins => \A i \in Investigations : stage[i] \in Final \cup {"new"} \/ Ready(i)
  <2> SUFFICES ASSUME IInv, Begins, NEW i \in Investigations, stage[i] \notin Final \cup {"new"}
               PROVE  Ready(i)
    OBVIOUS
  <2>1. stage[i] \in {"context", "run", "session", "investigate", "complete", "fail", "close",
                      "close_failed", "actions"}
    BY DEF IInv, TypeOK, Stages
  <2>2. CASE Idle(i) \/ stage[i] \in {"context", "investigate", "close", "close_failed"}
    BY <2>1, <2>2 DEF Ready
  <2>3. CASE ~Idle(i)
    <3>1. tries[i] > 0 /\ pc[Current(i)] # "over" /\ Heard(Current(i))
      BY <2>3 DEF Idle, Heard
    <3>2. /\ Current(i) \in Attempts /\ Current(i)[1] = i /\ Current(i)[2] = tries[i]
          /\ tries[i] \in Nat
      BY <3>1, LeftParts
    <3>3. Here(Current(i))
      BY <3>1, <3>2 DEF Begins, Here
    <3>4. stage[i] = PlaceOf(pc[Current(i)])
      BY <3>1, <3>2, <3>3 DEF IInv, Placed
    <3>5. QED
      BY <3>1, <3>3, <3>4 DEF Ready, Mine
  <2>4. QED
    BY <2>2, <2>3
<1>3. ASSUME IInv, Handling, [Next]_vars
      PROVE  [RunsDown]_vars
  <2> SUFFICES ASSUME NEW i \in Investigations, Next
               PROVE  (Goes(i) => Lowered(i)) /\ (Lowered(i) \/ Left(i)' = Left(i))
    BY <1>3 DEF RunsDown
  <2>1. Goes(i) => Lowered(i)
    <3>1. CASE Start(i) \/ Advance(i) \/ CannotOpen(i) \/ Begin(i)
      BY <1>3, <3>1, GoesWorkflow, GoesBegin
    <3>2. CASE tries[i] > 0 /\ Step(Current(i))
      <4>1. Current(i) \in Attempts /\ Current(i)[1] = i
        BY <1>3, <3>2, LeftParts
      <4>2. QED
        BY <1>3, <3>2, <4>1, GoesStep
    <3>3. QED
      BY <3>1, <3>2 DEF Goes
  <2>2. ASSUME NEW k \in Investigations, Start(k) \/ Advance(k) \/ CannotOpen(k)
        PROVE  Lowered(i) \/ Left(i)' = Left(i)
    BY <1>3, <2>2, GoesWorkflow, WorkflowElsewhere, SameLeft
  <2>3. ASSUME NEW k \in Investigations, Begin(k)
        PROVE  Lowered(i) \/ Left(i)' = Left(i)
    BY <1>3, <2>3, GoesBegin, BeginElsewhere, SameLeft
  <2>4. ASSUME NEW r \in Attempts, Step(r)
        PROVE  Lowered(i) \/ Left(i)' = Left(i)
    <3>1. CASE r[1] = i
      BY <1>3, <2>4, <3>1, GoesStep
    <3>2. CASE r[1] # i
      BY <1>3, <2>4, <3>2, StepElsewhere, SameLeft
    <3>3. QED
      BY <3>1, <3>2
  <2>5. ASSUME DeleteCheck \/ \E k \in Investigations : GiveUp(k)
        PROVE  Left(i)' = Left(i)
    <3>1. UNCHANGED <<stage, tries, pc, due>>
      BY <2>5 DEF DeleteCheck, GiveUp, workflowVars, attemptVars
    <3>2. Work(Current(i))' = Work(Current(i))
      BY <3>1 DEF Work, Current
    <3>3. QED
      BY <1>3, <3>1, <3>2, LeftKept
  <2>6. QED
    BY <2>1, <2>2, <2>3, <2>4, <2>5 DEF Next
<1>4. QED
  BY <1>1, <1>2, <1>3, BeginsInit, BeginsNext, Invariant, PTL DEF Spec
=============================================================================
