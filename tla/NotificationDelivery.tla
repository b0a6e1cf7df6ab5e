------------------------- MODULE NotificationDelivery -------------------------
(***************************************************************************)
(* Notifications with one deduplication key: each is created with its      *)
(* deliveries in one transaction (services/notifications/service.py) that  *)
(* starts, before it commits, the Temporal workflow that sends them        *)
(* (NotificationDeliveryWorkflow, execute_delivery).  Attempts are cut     *)
(* short by crashes and timeouts and are retried; a channel can be deleted *)
(* at any time.                                                            *)
(*                                                                         *)
(* A delivery is a pair <<n, c>>: one notification, one channel.           *)
(***************************************************************************)
EXTENDS Naturals, FiniteSets, TLC

CONSTANTS
  Notifications,   \* the notifications that share the deduplication key
  Channels,        \* the notification channels of the organization
  RoutesOf,        \* RoutesOf[n]: the channels that routes matching n may name
  MaxAttempts,     \* maximum_attempts of execute_delivery's RetryPolicy
  MaxFaults        \* bound on crashes, timeouts and failed statements

ASSUME BoundsAssumption == MaxAttempts \in Nat \ {0} /\ MaxFaults \in Nat

VARIABLES
  channels,   \* the NotificationChannel rows that exist
  creation,   \* creation[n]: how far create_notification is; "open" and "suppressed" are committed
  expired,    \* the notifications older than dedup_window_seconds
  row,        \* row[d]: the status of NotificationDelivery d
  workflow,   \* workflow[n]: the delivery workflow of n
  pc,         \* pc[d]: where the workflow or the attempt that runs d is
  attempt,    \* attempt[d]: attempts of execute_delivery(d) so far
  late,       \* <<d, a, p>>: attempt a of d was given up by Temporal but runs on, at p
  faults,     \* faults so far
  \* History, read by properties only.
  called,     \* called[d]: calls of provider.send for d
  accepted,   \* the deliveries a provider has accepted
  cut,        \* the deliveries with an attempt that was cut short
  overlapped, \* the deliveries loaded as pending by an attempt while the save of
              \* SENDING of another was still to come
  early,      \* the notifications whose workflow listed before the commit
  before      \* before[n]: what was committed when n looked for a suppressor

createVars == <<channels, creation, expired, before>>
workflowVars == <<workflow, early>>
attemptVars == <<pc, attempt, late>>
sendVars == <<called, accepted>>
excuseVars == <<cut, overlapped>>
vars == <<createVars, row, workflowVars, attemptVars, faults, sendVars, excuseVars>>

-----------------------------------------------------------------------------

Deliveries == Notifications \X Channels

\* Where creation is once its transaction has committed: the notification is open, or a
\* NotificationSuppression says which one suppressed it.
Committed == {"open", "suppressed"}

Statuses == {"none", "pending", "sending", "delivered", "failed", "deleted"}

\* The awaits of execute_delivery between its load and its end.
Places == {"marking", "sending", "accepted", "refused"}
Active == {d \in Deliveries : pc[d] \in Places}

\* Between two deliveries of n the workflow has none in hand.
Free(n) == \A c \in Channels : pc[<<n, c>>] \in {"unlisted", "listed", "done"}
Ended(n) == workflow[n] = "listed" /\ \A c \in Channels : pc[<<n, c>>] \in {"unlisted", "done"}

\* update_delivery_status cannot load a row that is gone, and is retried for ever.
Stuck(d) == pc[d] = "failing" /\ row[d] = "deleted"

Goto(d, p) == pc' = [pc EXCEPT ![d] = p]

\* The workflow runs execute_delivery(d) next: the first time or again.
Due(d) == pc[d] = "retry" \/ (pc[d] = "listed" /\ Free(d[1]))

\* Mutant: no update once the attempts are used up.
AfterRaise_NoUpdate(tries) == IF tries = MaxAttempts THEN "done" ELSE "retry"

\* execute_delivery raised: it is retried until its attempts are used up.
AfterRaise(tries) == IF tries = MaxAttempts THEN "failing" ELSE "retry"

Fault == faults < MaxFaults /\ faults' = faults + 1

\* A save of one status column; it changes nothing if the row is gone.
Saved(d, status) == row' = [row EXCEPT ![d] = IF @ = "deleted" THEN @ ELSE status]

Init ==
  /\ channels = Channels
  /\ creation = [n \in Notifications |-> "absent"]
  /\ expired = {}
  /\ row = [d \in Deliveries |-> "none"]
  /\ workflow = [n \in Notifications |-> "none"]
  /\ pc = [d \in Deliveries |-> "unlisted"]
  /\ attempt = [d \in Deliveries |-> 0]
  /\ late = {}
  /\ faults = 0
  /\ called = [d \in Deliveries |-> 0]
  /\ accepted = {}
  /\ cut = {}
  /\ overlapped = {}
  /\ early = {}
  /\ before = [n \in Notifications |-> {}]

-----------------------------------------------------------------------------
(* create_notification, one transaction. *)

\* Mutant: only a notification that was routed suppresses others.
Suppressing_Routed ==
  {n \in Notifications : /\ creation[n] = "open" /\ n \notin expired
                         /\ \E c \in Channels : row[<<n, c>>] # "none"}

\* The committed notifications of the window that suppress another.
Suppressing == {n \in Notifications : creation[n] = "open" /\ n \notin expired}

\* The channels of the routes there are when n is routed.  A policy can be deleted,
\* and RouteConfigView deletes its routes and creates them again one by one, in
\* no transaction: any of them may be missing.
Routed(n) == SUBSET (channels \cap RoutesOf[n])

\* The row is created and, unless a committed one suppresses it, routed: a
\* delivery for every matching route whose channel still exists.
Create(n) ==
  /\ creation[n] = "absent"
  /\ before' = [before EXCEPT ![n] = {m \in Notifications : creation[m] \in Committed}]
  /\ \/ /\ Suppressing # {}
        /\ creation' = [creation EXCEPT ![n] = "suppressing"]
        /\ UNCHANGED row
     \/ /\ Suppressing = {}
        /\ \E routed \in Routed(n) :
             /\ creation' = [creation EXCEPT ![n] = IF routed = {} THEN "ready" ELSE "routed"]
             /\ row' = [d \in Deliveries |->
                          IF d \in {n} \X routed THEN "pending" ELSE row[d]]
  /\ UNCHANGED <<channels, expired, workflowVars, attemptVars, faults, sendVars, excuseVars>>

\* The workflow is started inside the transaction; a failure is swallowed.
StartWorkflow(n) ==
  /\ creation[n] = "routed"
  /\ creation' = [creation EXCEPT ![n] = "ready"]
  /\ \/ workflow' = [workflow EXCEPT ![n] = "listing"] /\ UNCHANGED faults
     \/ Fault /\ UNCHANGED workflow
  /\ UNCHANGED <<channels, expired, before, row, early, attemptVars, sendVars, excuseVars>>

Commit(n) ==
  /\ creation[n] \in {"ready", "suppressing"}
  /\ creation' = [creation EXCEPT ![n] = IF @ = "ready" THEN "open" ELSE "suppressed"]
  /\ UNCHANGED <<channels, expired, before, row, workflowVars, attemptVars, faults, sendVars,
                 excuseVars>>

\* A statement fails or the process dies: nothing of the transaction remains.
Rollback(n) ==
  /\ Fault
  /\ creation[n] \in {"routed", "ready", "suppressing"}
  /\ creation' = [creation EXCEPT ![n] = "rolled_back"]
  /\ row' = [d \in Deliveries |-> IF d[1] = n THEN "none" ELSE row[d]]
  /\ UNCHANGED <<channels, expired, before, workflowVars, attemptVars, sendVars, excuseVars>>

\* dedup_window_seconds pass.
WindowPasses(n) ==
  /\ creation[n] \in Committed /\ n \notin expired
  /\ expired' = expired \cup {n}
  /\ UNCHANGED <<channels, creation, before, row, workflowVars, attemptVars, faults, sendVars,
                 excuseVars>>

\* ChannelDeleteView: the deliveries go with their channel.  A transaction that
\* has routed to the channel holds a lock on its row, so the deletion waits.
DeleteChannel(c) ==
  /\ c \in channels
  /\ \A n \in Notifications : row[<<n, c>>] # "none" => creation[n] \in Committed
  /\ channels' = channels \ {c}
  /\ row' = [d \in Deliveries |->
               IF d[2] = c /\ row[d] # "none" THEN "deleted" ELSE row[d]]
  /\ UNCHANGED <<creation, expired, before, workflowVars, attemptVars, faults, sendVars,
                 excuseVars>>

-----------------------------------------------------------------------------
(* NotificationDeliveryWorkflow and its activities. *)

\* get_pending_deliveries sees the rows that are committed.
ListPending(n) ==
  /\ workflow[n] = "listing"
  /\ workflow' = [workflow EXCEPT ![n] = "listed"]
  /\ pc' = [d \in Deliveries |->
              IF d[1] = n /\ creation[n] \in Committed /\ row[d] = "pending"
                THEN "listed" ELSE pc[d]]
  /\ early' = IF creation[n] \in Committed THEN early ELSE early \cup {n}
  /\ UNCHANGED <<createVars, row, attempt, late, faults, sendVars, excuseVars>>

\* An attempt of d loads it.
Load(d) ==
  overlapped' = IF row[d] = "pending"
                   /\ \/ pc[d] = "marking"
                      \/ \E a \in 1 .. MaxAttempts : <<d, a, "marking">> \in late
                  THEN overlapped \cup {d} ELSE overlapped

\* Mutant: execute_delivery ignores the status of what it loads.
BeginAttempt_AnyStatus(d) ==
  /\ Due(d)
  /\ attempt' = [attempt EXCEPT ![d] = @ + 1]
  /\ Goto(d, IF row[d] = "deleted" THEN AfterRaise(attempt[d] + 1) ELSE "marking")
  /\ Load(d)
  /\ UNCHANGED <<createVars, row, workflowVars, late, faults, sendVars, cut>>

\* Mutant: a delivery that cannot be loaded is retried for ever.
BeginAttempt_NotCounted(d) ==
  /\ Due(d)
  /\ attempt' = [attempt EXCEPT ![d] = IF row[d] = "deleted" THEN @ ELSE @ + 1]
  /\ Goto(d, CASE row[d] = "pending" -> "marking"
               [] row[d] = "deleted" -> "retry"
               [] OTHER              -> "failing")
  /\ Load(d)
  /\ UNCHANGED <<createVars, row, workflowVars, late, faults, sendVars, cut>>

\* execute_delivery loads the delivery: one that is gone raises, one that is no
\* longer pending is skipped, which the workflow counts as a failure.
BeginAttempt(d) ==
  /\ Due(d)
  /\ attempt' = [attempt EXCEPT ![d] = @ + 1]
  /\ Goto(d, CASE row[d] = "pending" -> "marking"
               [] row[d] = "deleted" -> AfterRaise(attempt[d] + 1)
               [] OTHER              -> "failing")
  /\ Load(d)
  /\ UNCHANGED <<createVars, row, workflowVars, late, faults, sendVars, cut>>

\* The attempt is given up before it has loaded the delivery: it fails, is lost, or
\* times out and may load it later.
LoadFails(d) ==
  /\ Fault
  /\ Due(d)
  /\ attempt' = [attempt EXCEPT ![d] = @ + 1]
  /\ Goto(d, AfterRaise(attempt[d] + 1))
  /\ \/ UNCHANGED <<late, cut>>
     \/ late' = late \cup {<<d, attempt[d] + 1, "loading">>} /\ cut' = cut \cup {d}
  /\ UNCHANGED <<createVars, row, workflowVars, sendVars, overlapped>>

\* The save of SENDING raises if the row is gone.
MarkSending(d) ==
  /\ pc[d] = "marking"
  /\ Saved(d, "sending")
  /\ Goto(d, IF row[d] = "deleted" THEN AfterRaise(attempt[d]) ELSE "sending")
  /\ UNCHANGED <<createVars, workflowVars, attempt, late, faults, sendVars, excuseVars>>

\* provider.send returns "sent", or something else, or raises.
Send(d) ==
  /\ pc[d] = "sending"
  /\ called' = [called EXCEPT ![d] = @ + 1]
  /\ \/ accepted' = accepted \cup {d} /\ Goto(d, "accepted")
     \/ Goto(d, "refused") /\ UNCHANGED accepted
  /\ UNCHANGED <<createVars, row, workflowVars, attempt, late, faults, excuseVars>>

\* Mutant: the workflow does not recognise the result "delivered".
SaveOutcome_Unrecognised(d) ==
  /\ pc[d] \in {"accepted", "refused"}
  /\ Saved(d, IF pc[d] = "accepted" THEN "delivered" ELSE "failed")
  /\ Goto(d, IF row[d] = "deleted" THEN AfterRaise(attempt[d]) ELSE "failing")
  /\ UNCHANGED <<createVars, workflowVars, attempt, late, faults, sendVars, excuseVars>>

\* The outcome is saved.  If the row is gone the save raises, and so does the one
\* of the except clause.
SaveOutcome(d) ==
  /\ pc[d] \in {"accepted", "refused"}
  /\ Saved(d, IF pc[d] = "accepted" THEN "delivered" ELSE "failed")
  /\ Goto(d, CASE row[d] = "deleted" -> AfterRaise(attempt[d])
               [] row[d] # "deleted" /\ pc[d] = "accepted" -> "done"
               [] OTHER -> "failing")
  /\ UNCHANGED <<createVars, workflowVars, attempt, late, faults, sendVars, excuseVars>>

\* The save of DELIVERED fails: the except clause takes it for a failed send.
SaveFails(d) ==
  /\ Fault
  /\ pc[d] = "accepted"
  /\ Goto(d, "refused")
  /\ cut' = cut \cup {d}
  /\ UNCHANGED <<createVars, row, workflowVars, attempt, late, sendVars, overlapped>>

\* The workflow writes "failed" over a delivery that was not reported delivered.  (A
\* late or repeated write of it can only overwrite what a late attempt has saved.)
UpdateDeliveryStatus(d) ==
  /\ pc[d] = "failing" /\ row[d] # "deleted"
  /\ Saved(d, "failed")
  /\ Goto(d, "done")
  /\ UNCHANGED <<createVars, workflowVars, attempt, late, faults, sendVars, excuseVars>>

\* The worker that runs the attempts ds dies, or a statement of theirs fails.
Interrupt(ds) ==
  /\ Fault
  /\ ds # {} /\ ds \subseteq Active
  /\ pc' = [d \in Deliveries |-> IF d \in ds THEN AfterRaise(attempt[d]) ELSE pc[d]]
  /\ cut' = cut \cup ds
  /\ UNCHANGED <<createVars, row, workflowVars, attempt, late, sendVars, overlapped>>

\* The 120 s of an attempt pass and Temporal retries the delivery.  Nothing stops the
\* attempt at once: until the worker cancels it (or dies), at an await whose thread
\* then still finishes, it goes on beside the next one.
TimeOut(d) ==
  /\ Fault
  /\ d \in Active
  /\ Goto(d, AfterRaise(attempt[d]))
  /\ late' = late \cup {<<d, attempt[d], pc[d]>>}
  /\ cut' = cut \cup {d}
  /\ UNCHANGED <<createVars, row, workflowVars, attempt, sendVars, overlapped>>

\* The late attempt l gets from its place to the next; an attempt that is cancelled
\* or has lost its worker takes no more of these steps.
Onward(l, p) == late' = (late \ {l}) \cup {<<l[1], l[2], p>>}
Ends(l) == late' = late \ {l}

LateLoad(d, l) ==
  /\ l[3] = "loading"
  /\ Load(d)
  /\ IF row[d] = "pending" THEN Onward(l, "marking") ELSE Ends(l)
  /\ UNCHANGED <<row, faults, sendVars>>

LateMark(d, l) ==
  /\ l[3] = "marking"
  /\ Saved(d, "sending")
  /\ IF row[d] = "deleted" THEN Ends(l) ELSE Onward(l, "sending")
  /\ UNCHANGED <<faults, sendVars, overlapped>>

LateSend(d, l) ==
  /\ l[3] = "sending"
  /\ called' = [called EXCEPT ![d] = @ + 1]
  /\ \/ accepted' = accepted \cup {d} /\ Onward(l, "accepted")
     \/ Onward(l, "refused") /\ UNCHANGED accepted
  /\ UNCHANGED <<row, faults, overlapped>>

LateSave(d, l) ==
  /\ \/ l[3] = "accepted" /\ Saved(d, "delivered") /\ Ends(l) /\ UNCHANGED faults
     \/ l[3] = "accepted" /\ Fault /\ Onward(l, "refused") /\ UNCHANGED row
     \/ l[3] = "refused" /\ Saved(d, "failed") /\ Ends(l) /\ UNCHANGED faults
  /\ UNCHANGED <<sendVars, overlapped>>

LateStep(l) ==
  /\ l \in late
  /\ LateLoad(l[1], l) \/ LateMark(l[1], l) \/ LateSend(l[1], l) \/ LateSave(l[1], l)
  /\ UNCHANGED <<createVars, workflowVars, pc, attempt, cut>>

-----------------------------------------------------------------------------

\* What the workflow of n and its activities do by themselves.
Deliver(d) ==
  \/ BeginAttempt(d) \/ MarkSending(d) \/ Send(d) \/ SaveOutcome(d) \/ UpdateDeliveryStatus(d)
Advance(n) == ListPending(n) \/ \E c \in Channels : Deliver(<<n, c>>)

Next ==
  \/ \E n \in Notifications :
       Create(n) \/ StartWorkflow(n) \/ Commit(n) \/ Rollback(n) \/ WindowPasses(n)
  \/ \E c \in Channels : DeleteChannel(c)
  \/ \E n \in Notifications : Advance(n)
  \/ \E d \in Deliveries : LoadFails(d) \/ SaveFails(d) \/ TimeOut(d)
  \/ \E ds \in SUBSET Deliveries : Interrupt(ds)
  \/ \E l \in late : LateStep(l)

Spec == Init /\ [][Next]_vars

\* Temporal runs every started workflow and its activities; nothing else need act.
FairSpec == Spec /\ \A n \in Notifications : WF_vars(Advance(n))

-----------------------------------------------------------------------------
(* Properties. *)

TypeOK ==
  /\ channels \subseteq Channels
  /\ creation \in [Notifications -> Committed \cup
                     {"absent", "suppressing", "routed", "ready", "rolled_back"}]
  /\ expired \subseteq Notifications
  /\ row \in [Deliveries -> Statuses]
  /\ workflow \in [Notifications -> {"none", "listing", "listed"}]
  /\ pc \in [Deliveries -> Places \cup {"unlisted", "listed", "retry", "failing", "done"}]
  /\ attempt \in [Deliveries -> 0 .. MaxAttempts]
  /\ late \subseteq Deliveries \X (1 .. MaxAttempts) \X (Places \cup {"loading"})
  /\ faults \in 0 .. MaxFaults
  /\ called \in [Deliveries -> Nat]
  /\ accepted \subseteq Deliveries /\ cut \subseteq Deliveries /\ overlapped \subseteq Deliveries
  /\ early \subseteq Notifications
  /\ before \in [Notifications -> SUBSET Notifications]

\* Whatever crashes, times out or is retried, provider.send is called twice for a
\* delivery only if two attempts overlapped before either had saved SENDING: once
\* saved, that status keeps every retry of execute_delivery from sending again, but
\* no lock and no condition of the save keeps two that both loaded PENDING from it.
SentOnce == \A d \in Deliveries : called[d] > 1 => d \in overlapped

\* A delivery marked delivered was accepted by its provider; an accepted one that
\* the workflow has finished with is marked so, unless an attempt was cut short.
RowsTellTheTruth ==
  \A d \in Deliveries :
    /\ row[d] = "delivered" => d \in accepted
    /\ d \in accepted /\ pc[d] = "done" /\ d \notin cut => row[d] \in {"delivered", "deleted"}

\* When a workflow has ended, a delivery that is still pending is one the workflow
\* could not see because it listed before create_notification committed.
StrandedOnlyByEarlyStart ==
  \A n \in Notifications, c \in Channels :
    Ended(n) /\ row[<<n, c>>] = "pending" => n \in early

\* Two notifications of one window with the same key are both open only if neither
\* was committed when the other looked for one to suppress it.
OneOpenPerWindow ==
  \A m, n \in Notifications :
    m # n /\ {m, n} \cap expired = {} /\ creation[m] = "open" /\ creation[n] = "open"
      => m \notin before[n]

\* A started workflow ends, unless it is stuck on a delivery deleted under it.
StartedEnds ==
  \A n \in Notifications :
    workflow[n] = "listing" ~> (Ended(n) \/ \E c \in Channels : Stuck(<<n, c>>))

=============================================================================
