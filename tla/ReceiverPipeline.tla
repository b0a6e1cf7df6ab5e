--------------------------- MODULE ReceiverPipeline ---------------------------
(***************************************************************************)
(* The events of one alert (one external fingerprint) at one receiver:     *)
(* ReceiverService.ingest_event takes them one at a time through           *)
(* deduplication and correlation (services/checks/receivers), a            *)
(* ReceiverAdmissionWorkflow asks the admission gate about each that       *)
(* passes, creates a CheckExecution and runs an investigation on it.       *)
(* Attempts of its activities may be given up by Temporal while they run.  *)
(*                                                                         *)
(* Events are numbered in the order of created_at, which is the order in   *)
(* which their transactions take the lock on the receiver.  An execution   *)
(* is named by the attempt <<e, k>> of create_check_execution that made it.*)
(***************************************************************************)
EXTENDS Naturals, FiniteSets, FiniteSetsExt

CONSTANTS
  MaxEvents,     \* bound on the events received
  MaxOpen,       \* bound on the admissions under way at a time
  MaxActive,     \* max_active_executions of the receiver
  MaxAttempts,   \* maximum_attempts of evaluate_admission_gate's RetryPolicy
  MaxFaults      \* bound on timeouts, crashes, failed dispatches, rollbacks and deletions

ASSUME BoundsAssumption ==
  /\ MaxEvents \in Nat /\ MaxOpen \in Nat /\ MaxFaults \in Nat
  /\ MaxActive \in Nat \ {0} /\ MaxAttempts \in Nat \ {0}

Events == 1..MaxEvents
Attempts == Events \X (1..(MaxAttempts + MaxFaults + 1))

VARIABLES
  arrived,    \* how many events have been received
  kind,       \* kind[e]: the status of ReceiverEvent e
  row,        \* row[e]: its disposition, or how far its transaction is
  related,    \* related[e]: related_event, 0 for none
  linked,     \* linked[e]: the attempt whose execution is check_execution, 0 for none
  deleted,    \* whether the receiver was deleted, its events with it
  workflow,   \* workflow[e]: the ReceiverAdmissionWorkflow of e
  tries,      \* tries[e]: attempts of its activities so far
  pc,         \* pc[r]: where attempt r is
  lost,       \* the attempts Temporal has given up, whether they run on or not
  execution,  \* execution[r]: status of the CheckExecution attempt r created
  child,      \* child[e]: the attempt whose execution e's investigation was given
  faults,     \* faults so far
  \* History, read by properties only.
  under,      \* under[e]: the events under investigation, and unresolved, when e was received
  raced,      \* the events that passed the limits while another was being admitted
  early,      \* the events whose gate looked for them before they were committed
  hasty       \* the events resolved while their admission was under way

eventVars == <<arrived, kind, related, under>>
admissionVars == <<workflow, tries, pc>>
vars == <<eventVars, row, linked, deleted, admissionVars, lost, execution, child,
          faults, raced, early, hasty>>

-----------------------------------------------------------------------------
(* Rows and the admission workflow. *)

\* The dispositions a row can have once its transaction has committed.
Dispositions == {"correlated", "decided", "started", "attached", "suppressed",
                 "low_value", "failed", "resolved"}
\* A transaction that has not: before the dispatch, after one that succeeded, or raised.
Uncommitted == {"open", "dispatched", "undispatched"}
\* Mutants: an event whose investigation has started is no longer active; one
\* the gate turned down still is.
ActiveDispositions_NotStarted == {"attached", "decided"}
ActiveDispositions_LowValue == {"started", "attached", "decided", "low_value"}
ActiveDispositions == {"started", "attached", "decided"}

Visible(e) == row[e] \in Dispositions /\ ~deleted
Current(e) == <<e, tries[e]>>
\* Mutant: an attempt that was given up is not tried again.
Idle_NoRetry(e) == tries[e] > 0 => pc[Current(e)] = "over"

\* The workflow of e has no attempt it waits for.
Idle(e) == tries[e] > 0 => pc[Current(e)] = "over" \/ Current(e) \in lost
\* Temporal takes the result of an attempt it has not given up.
Heard(r) == r \notin lost
UnderWay == {e \in Events : workflow[e] \in {"gate", "create", "child"}}
Running == {r \in Attempts : execution[r] = "running"}
\* find_correlation: the targets of an investigation that runs for the check
\* share an identity label with the event, or none does.
Correlations == {c \in BOOLEAN : c => Running # {}}

\* Of the events within the window of the one received.
Duplicates(window) == {d \in window : row[d] \in ActiveDispositions}
Resolvable(e) == {d \in 1..(e - 1) : /\ kind[d] = "firing"
                                     /\ row[d] \in Dispositions \ {"resolved"}}
ResolvedSince(d) == \E x \in (d + 1)..arrived : kind[x] = "resolved" /\ row[x] = "resolved"
UnderInvestigation(window) == {d \in window : child[d] # 0 /\ ~ResolvedSince(d)}

Init ==
  /\ arrived = 0 /\ deleted = FALSE
  /\ kind = [e \in Events |-> "none"]
  /\ row = [e \in Events |-> "absent"]
  /\ related = [e \in Events |-> 0]
  /\ linked = [e \in Events |-> 0]
  /\ workflow = [e \in Events |-> "none"]
  /\ tries = [e \in Events |-> 0]
  /\ pc = [r \in Attempts |-> "none"]
  /\ lost = {}
  /\ execution = [r \in Attempts |-> "absent"]
  /\ child = [e \in Events |-> 0]
  /\ faults = 0
  /\ under = [e \in Events |-> {}]
  /\ raced = {} /\ early = {} /\ hasty = {}

-----------------------------------------------------------------------------
(* ingest_event: one transaction, which holds the receiver's row lock. *)

Fault == faults < MaxFaults /\ faults' = faults + 1

\* The status AlertmanagerAdapter finds in an alert.
Kinds == {"firing", "resolved"}

\* The next event is created; the lock is free and the receiver still exists.
Receive(e, status) ==
  /\ e = arrived + 1 /\ ~deleted
  /\ \A d \in Events : row[d] \notin Uncommitted
  /\ arrived' = e
  /\ kind' = [kind EXCEPT ![e] = status]
  /\ UNCHANGED <<linked, deleted, admissionVars, lost, execution, child, faults, raced, early>>

\* The receiver or its check is disabled.
Skip(e) ==
  /\ \E status \in Kinds : Receive(e, status)
  /\ row' = [row EXCEPT ![e] = "failed"]
  /\ UNCHANGED <<related, under, hasty>>

\* Mutant: the resolved event is recorded, the firing one is left as it is.
IngestResolved_NoUpdate(e) ==
  /\ Receive(e, "resolved")
  /\ row' = [row EXCEPT ![e] = "resolved"]
  /\ UNCHANGED <<related, under, hasty>>

\* A resolved alert settles the newest firing event that is not settled yet.
IngestResolved(e) ==
  /\ Receive(e, "resolved")
  /\ IF Resolvable(e) = {}
       THEN row' = [row EXCEPT ![e] = "resolved"] /\ UNCHANGED hasty
       ELSE LET d == Max(Resolvable(e)) IN
            /\ row' = [row EXCEPT ![e] = "resolved", ![d] = "resolved"]
            /\ hasty' = IF workflow[d] \in {"gate", "create"} THEN hasty \cup {d} ELSE hasty
  /\ UNCHANGED <<related, under>>

\* The newest of the duplicates is what the event is related to.
SuppressDuplicate(e, duplicates) ==
  /\ row' = [row EXCEPT ![e] = "suppressed"]
  /\ related' = [related EXCEPT ![e] = Max(duplicates)]

\* A firing alert, of which the events from the oldest on are still within
\* dedup_window_seconds: a duplicate of an active event of the window, part of
\* a running investigation, or a case for the gate.
IngestFiring(e) ==
  /\ Receive(e, "firing")
  /\ \E oldest \in 1..e :
       LET window == oldest..(e - 1) IN
       /\ under' = [under EXCEPT ![e] = UnderInvestigation(window)]
       /\ \/ Duplicates(window) # {} /\ SuppressDuplicate(e, Duplicates(window))
          \/ /\ Duplicates(window) = {} /\ TRUE \in Correlations
             /\ row' = [row EXCEPT ![e] = "attached"]
             /\ UNCHANGED related
          \/ /\ Duplicates(window) = {} /\ FALSE \in Correlations
             /\ Cardinality(UnderWay) < MaxOpen
             /\ row' = [row EXCEPT ![e] = "open"]
             /\ UNCHANGED related
  /\ UNCHANGED hasty

\* dispatch_admission_workflow, called before the commit; one that raised may
\* have started the workflow all the same.
Dispatch(e) ==
  /\ row[e] = "open"
  /\ \/ /\ row' = [row EXCEPT ![e] = "dispatched"]
        /\ workflow' = [workflow EXCEPT ![e] = "gate"]
        /\ UNCHANGED faults
     \/ /\ Fault
        /\ row' = [row EXCEPT ![e] = "undispatched"]
        /\ \E w \in {"none", "gate"} : workflow' = [workflow EXCEPT ![e] = w]
  /\ UNCHANGED <<eventVars, linked, deleted, tries, pc, lost, execution, child, raced,
                 early, hasty>>

Commit(e) ==
  /\ row[e] \in {"dispatched", "undispatched"}
  /\ row' = [row EXCEPT ![e] = IF @ = "dispatched" THEN "correlated" ELSE "failed"]
  /\ UNCHANGED <<eventVars, linked, deleted, admissionVars, lost, execution, child, faults,
                 raced, early, hasty>>

\* The process dies or the commit fails: the workflow is there, its event is not.
Rollback(e) ==
  /\ row[e] \in Uncommitted
  /\ Fault
  /\ row' = [row EXCEPT ![e] = "rolled back"]
  /\ UNCHANGED <<eventVars, linked, deleted, admissionVars, lost, execution, child, raced,
                 early, hasty>>

\* The receiver is deleted, and its events by cascade.
DeleteReceiver ==
  /\ ~deleted /\ \A d \in Events : row[d] \notin Uncommitted
  /\ deleted' = TRUE /\ Fault
  /\ UNCHANGED <<eventVars, row, linked, admissionVars, lost, execution, child, raced, early,
                 hasty>>

-----------------------------------------------------------------------------
(* evaluate_admission_gate *)

Goto(r, p) == pc' = [pc EXCEPT ![r] = p]
Advance(e, w) == workflow' = [workflow EXCEPT ![e] = w]
\* What the workflow does with the result of r, if it still listens to it.
Answer(r, w) == IF Heard(r) THEN Advance(r[1], w) ELSE UNCHANGED workflow
\* A save of the disposition, blind to the one in the row.
Saved(e, disposition) == row' = [row EXCEPT ![e] = disposition]

NextAttempt(e, p) ==
  /\ tries' = [tries EXCEPT ![e] = @ + 1]
  /\ pc' = [pc EXCEPT ![<<e, tries[e] + 1>>] = p]

\* An attempt loads the event, and fails if it is not there.
BeginGate(e) ==
  /\ workflow[e] = "gate" /\ Idle(e) /\ tries[e] < MaxAttempts
  /\ NextAttempt(e, IF Visible(e) THEN "deciding" ELSE "over")
  /\ early' = IF row[e] \in Uncommitted THEN early \cup {e} ELSE early
  /\ UNCHANGED <<eventVars, row, linked, deleted, workflow, lost, execution, child, faults,
                 raced, hasty>>

\* The last attempt has failed, and the workflow with it.
GateFails(e) ==
  /\ workflow[e] = "gate" /\ Idle(e) /\ tries[e] = MaxAttempts
  /\ Advance(e, "failed")
  /\ UNCHANGED <<eventVars, row, linked, deleted, tries, pc, lost, execution, child, faults,
                 raced, early, hasty>>

\* What _parse_response makes of the model's answer; "none" is one it raises on,
\* an error of the provider, or no answer in TIMEOUT_SECONDS.
Replies == {"start", "suppress_low_value", "none"}

\* evaluate_async, without the ReceiverAdmissionDecision and the notification of
\* a suppression that it leaves.
Decision(always, reply, failOpen) ==
  CASE always -> "start"
    [] ~always /\ reply # "none" -> reply
    [] OTHER -> IF failOpen THEN "start" ELSE "suppress_low_value"

\* The disposition is saved over whatever the row holds by now.
SaveDecision(r) ==
  /\ pc[r] = "deciding"
  /\ Goto(r, "over")
  /\ IF deleted
       THEN UNCHANGED <<row, workflow>>
       ELSE \E always, failOpen \in BOOLEAN, reply \in Replies :
              IF Decision(always, reply, failOpen) = "start"
                THEN Saved(r[1], "decided") /\ Answer(r, "create")
                ELSE Saved(r[1], "low_value") /\ Answer(r, "suppressed")
  /\ UNCHANGED <<eventVars, linked, deleted, tries, lost, execution, child, faults, raced,
                 early, hasty>>

-----------------------------------------------------------------------------
(* create_check_execution, retried without limit, and the investigation. *)

\* An admission past the limits whose investigation is not running yet.
Admitting(e) == \/ workflow[e] = "create" /\ pc[Current(e)] \in {"creating", "linking"}
                \/ workflow[e] = "child" /\ execution[<<e, child[e]>>] = "queued"

\* Mutant: one too many is let in.
BelowLimit_OffByOne == Cardinality(Running) <= MaxActive

\* The receiver's own limit.
BelowLimit == Cardinality(Running) < MaxActive

\* An attempt counts what runs for the check and, in can_execute, for the
\* organization, whose other checks may have reached the limit at any time.
BeginCreate(e) ==
  /\ workflow[e] = "create" /\ Idle(e) /\ ~deleted
  /\ \/ NextAttempt(e, "refusing") /\ UNCHANGED raced
     \/ /\ BelowLimit
        /\ NextAttempt(e, "creating")
        /\ raced' = IF \E d \in Events \ {e} : Admitting(d) THEN raced \cup {e} ELSE raced
  /\ UNCHANGED <<eventVars, row, linked, deleted, workflow, lost, execution, child, faults,
                 early, hasty>>

\* With the receiver gone every attempt fails to load it, for ever.
CannotCreate(e) ==
  /\ workflow[e] = "create" /\ Idle(e) /\ deleted
  /\ Advance(e, "stuck")
  /\ UNCHANGED <<eventVars, row, linked, deleted, tries, pc, lost, execution, child, faults,
                 raced, early, hasty>>

Refuse(r) ==
  /\ pc[r] = "refusing"
  /\ Goto(r, "over")
  /\ IF deleted THEN UNCHANGED <<row, workflow>>
                ELSE Saved(r[1], "failed") /\ Answer(r, "refused")
  /\ UNCHANGED <<eventVars, linked, deleted, tries, lost, execution, child, faults, raced,
                 early, hasty>>

CreateExecution(r) ==
  /\ pc[r] = "creating"
  /\ Goto(r, "linking")
  /\ execution' = [execution EXCEPT ![r] = "queued"]
  /\ UNCHANGED <<eventVars, row, linked, deleted, workflow, tries, lost, child, faults, raced,
                 early, hasty>>

\* Mutant: check_execution is missing from the columns saved.
Link_NotLinked(r) ==
  /\ pc[r] = "linking"
  /\ Goto(r, "over")
  /\ IF deleted
       THEN UNCHANGED <<row, workflow, child>>
       ELSE /\ Saved(r[1], "started")
            /\ Answer(r, "child")
            /\ child' = IF Heard(r) THEN [child EXCEPT ![r[1]] = r[2]] ELSE child
  /\ UNCHANGED <<eventVars, linked, deleted, tries, lost, execution, faults, raced, early,
                 hasty>>

\* The event is given its execution; the workflow runs the investigation on it.
Link(r) ==
  /\ pc[r] = "linking"
  /\ Goto(r, "over")
  /\ IF deleted
       THEN UNCHANGED <<row, linked, workflow, child>>
       ELSE /\ Saved(r[1], "started")
            /\ linked' = [linked EXCEPT ![r[1]] = r[2]]
            /\ Answer(r, "child")
            /\ child' = IF Heard(r) THEN [child EXCEPT ![r[1]] = r[2]] ELSE child
  /\ UNCHANGED <<eventVars, deleted, tries, lost, execution, faults, raced, early, hasty>>

\* The investigation cannot load its check: it ends, its execution stays queued.
ContextFails(e) ==
  /\ workflow[e] = "child" /\ execution[<<e, child[e]>>] = "queued"
  /\ Advance(e, "failed")
  /\ UNCHANGED <<eventVars, row, linked, deleted, tries, pc, lost, execution, child, faults,
                 raced, early, hasty>>

StartRunning(e) ==
  /\ workflow[e] = "child" /\ execution[<<e, child[e]>>] = "queued"
  /\ execution' = [execution EXCEPT ![<<e, child[e]>>] = "running"]
  /\ UNCHANGED <<eventVars, row, linked, deleted, admissionVars, lost, child, faults, raced,
                 early, hasty>>

InvestigationEnds(e) ==
  /\ workflow[e] = "child" /\ execution[<<e, child[e]>>] = "running"
  /\ execution' = [execution EXCEPT ![<<e, child[e]>>] = "ended"]
  /\ Advance(e, "dispatched")
  /\ UNCHANGED <<eventVars, row, linked, deleted, tries, pc, lost, child, faults, raced,
                 early, hasty>>

\* The 30 s of an attempt are over, or its worker died: Temporal gives it up, and
\* what remains of it may go on.
GiveUp(e) ==
  /\ workflow[e] \in {"gate", "create"} /\ tries[e] > 0
  /\ Current(e) \notin lost /\ pc[Current(e)] # "over"
  /\ Fault
  /\ lost' = lost \cup {Current(e)}
  /\ UNCHANGED <<eventVars, row, linked, deleted, admissionVars, execution, child, raced,
                 early, hasty>>

-----------------------------------------------------------------------------

Ingest(e) == Skip(e) \/ IngestResolved(e) \/ IngestFiring(e)
Transaction(e) == Dispatch(e) \/ Commit(e)
Step(r) == SaveDecision(r) \/ Refuse(r) \/ CreateExecution(r) \/ Link(r)
Begin(e) == BeginGate(e) \/ GateFails(e) \/ BeginCreate(e) \/ CannotCreate(e)
Investigate(e) == ContextFails(e) \/ StartRunning(e) \/ InvestigationEnds(e)

Next ==
  \/ \E e \in Events : \/ Ingest(e) \/ Transaction(e) \/ Rollback(e)
                       \/ Begin(e) \/ Investigate(e) \/ GiveUp(e)
  \/ \E r \in Attempts : Step(r)
  \/ DeleteReceiver

Spec == Init /\ [][Next]_vars

\* A transaction that was opened is ended by its request, a workflow by Temporal;
\* of its attempts those it still waits for go on.
Working ==
  \E e \in Events :
    \/ Transaction(e) \/ Begin(e) \/ Investigate(e)
    \/ tries[e] > 0 /\ Heard(Current(e)) /\ Step(Current(e))

FairSpec == Spec /\ WF_vars(Working)

-----------------------------------------------------------------------------
(* Properties *)

Workflows == {"none", "gate", "create", "child", "dispatched", "suppressed", "refused",
              "failed", "stuck"}

TypeOK ==
  /\ arrived \in 0..MaxEvents /\ deleted \in BOOLEAN
  /\ kind \in [Events -> {"none", "firing", "resolved"}]
  /\ row \in [Events -> {"absent", "rolled back"} \cup Uncommitted \cup Dispositions]
  /\ related \in [Events -> 0..MaxEvents]
  /\ linked \in [Events -> 0..(MaxAttempts + MaxFaults + 1)]
  /\ workflow \in [Events -> Workflows]
  /\ tries \in [Events -> 0..(MaxAttempts + MaxFaults + 1)]
  /\ pc \in [Attempts -> {"none", "deciding", "refusing", "creating",
                         "linking", "over"}]
  /\ lost \in SUBSET Attempts
  /\ execution \in [Attempts -> {"absent", "queued", "running", "ended"}]
  /\ child \in [Events -> 0..(MaxAttempts + MaxFaults + 1)]
  /\ faults \in 0..MaxFaults
  /\ under \in [Events -> SUBSET Events]
  /\ raced \subseteq Events /\ early \subseteq Events /\ hasty \subseteq Events

\* An attempt of the admission of e was given up, and may have saved what it liked.
Overlapped(e) == \E r \in lost : r[1] = e

\* DeduplicationEngine.check_duplicate: an alert under investigation is not
\* investigated again within the window until it resolves, unless a given-up
\* attempt of its admission wrote over the disposition that says so.
NoSecondInvestigation ==
  \A e \in Events : child[e] # 0 => \A d \in under[e] : Overlapped(d)

\* An alert that resolves and fires again is new: it is a duplicate of an event
\* received before the resolution only if another firing event took the
\* resolution in its place, if the admission of that event was under way and
\* saved its outcome over RESOLVED, or if a given-up attempt did.
SuppressedByLive ==
  \A e \in Events : related[e] # 0 =>
    \A x \in (related[e] + 1)..(e - 1) :
      kind[x] = "resolved" /\ row[x] = "resolved" =>
        \/ \E y \in (related[e] + 1)..(x - 1) : kind[y] = "firing"
        \/ related[e] \in hasty \/ Overlapped(related[e])

\* d was or will be investigated, belongs to another investigation or has resolved
\* since, was turned away, after it was let through, by a limit or with its
\* receiver, or a given-up attempt of its admission wrote what it liked.
Covered(d) ==
  \/ child[d] # 0
  \/ workflow[d] = "none" /\ row[d] \in {"attached", "resolved"}
  \/ workflow[d] \in {"create", "refused", "stuck"}
  \/ Overlapped(d)

\* DeduplicationEngine.check_duplicate: an event suppressed as a duplicate is not
\* forgotten, as the event it duplicates is covered.
SuppressedIsCovered == \A e \in Events : related[e] # 0 => Covered(related[e])

\* CheckReceiver.max_active_executions: of the investigations whose admission
\* met no other one between its check of the limits and its start, no more run
\* at a time than the receiver allows.
LimitHeldUnlessRaced ==
  Cardinality({e \in Events \ raced : /\ child[e] # 0
                                     /\ execution[<<e, child[e]>>] = "running"}) <= MaxActive

\* When an admission is over, its event says how it ended: an investigated event
\* is linked to the execution that was run, every other has none; one the gate
\* never decided was looked for before its commit, or its attempts were given
\* up; and an execution is queued for nobody only if its attempt was given up,
\* its receiver deleted or its check not loaded.
OutcomeRecorded ==
  /\ \A e \in Events : Overlapped(e) \/ deleted \/ row[e] = "resolved" \/
       CASE workflow[e] \in {"child", "dispatched"} -> row[e] = "started" /\ linked[e] = child[e]
         [] workflow[e] = "suppressed" -> row[e] = "low_value" /\ linked[e] = 0
         [] workflow[e] = "refused" -> row[e] = "failed" /\ linked[e] = 0
         [] workflow[e] = "failed" /\ child[e] = 0 -> row[e] = "rolled back" \/ e \in early
         [] OTHER -> TRUE
  /\ \A r \in Attempts : execution[r] = "queued" /\ pc[r] = "over" =>
       \/ r \in lost \/ deleted
       \/ child[r[1]] = r[2] /\ workflow[r[1]] \in {"child", "failed"}

\* ReceiverAdmissionWorkflow ends, or is stuck with its receiver deleted: no
\* admission is under way for ever.
AdmissionsEnd == []<>(UnderWay = {})
=============================================================================
