--------------------- MODULE NotificationDeliveryProofs ---------------------
(***************************************************************************)
(* Proofs about NotificationDelivery for any notifications, channels,      *)
(* attempts and faults: the type invariant, that provider.send is called   *)
(* twice for a delivery only if two attempts of it overlapped before       *)
(* either had saved SENDING, that the status rows tell the truth, that     *)
(* duplicates are open together only if they were created together, that a *)
(* workflow leaves nothing pending that it could see, and that it is never *)
(* left with nothing to do before its end, nor taken back from it.         *)
(***************************************************************************)
EXTENDS NotificationDelivery, TLAPS

USE DEF createVars, workflowVars, attemptVars, sendVars, excuseVars, Goto, Fault, Places

-----------------------------------------------------------------------------
(* The inductive invariant. *)

LatePlaces == {"loading", "marking", "sending", "accepted", "refused"}

\* The type invariant with its sets written out.
Typed ==
  /\ channels \subseteq Channels
  /\ creation \in [Notifications -> {"open", "suppressed", "absent", "suppressing", "routed",
                                     "ready", "rolled_back"}]
  /\ expired \subseteq Notifications
  /\ row \in [Deliveries -> Statuses]
  /\ workflow \in [Notifications -> {"none", "listing", "listed"}]
  /\ pc \in [Deliveries -> {"marking", "sending", "accepted", "refused", "unlisted", "listed",
                            "retry", "failing", "done"}]
  /\ attempt \in [Deliveries -> 0 .. MaxAttempts]
  /\ late \subseteq Deliveries \X (1 .. MaxAttempts) \X LatePlaces
  /\ faults \in 0 .. MaxFaults
  /\ called \in [Deliveries -> Nat]
  /\ accepted \subseteq Deliveries /\ cut \subseteq Deliveries /\ overlapped \subseteq Deliveries
  /\ early \subseteq Notifications
  /\ before \in [Notifications -> SUBSET Notifications]

\* Before the commit nothing has happened to a delivery but its creation, and
\* only a workflow that has listed it touches it.
Unseen ==
  \A d \in Deliveries :
    /\ creation[d[1]] \notin Committed =>
         /\ row[d] \in {"none", "pending"} /\ pc[d] = "unlisted"
         /\ \A l \in late : l[1] # d
    /\ workflow[d[1]] # "listed" => pc[d] = "unlisted"

\* An attempt begins only while there are attempts left.
AttemptsLeft ==
  \A d \in Deliveries :
    /\ IF pc[d] \in {"unlisted", "listed"} THEN attempt[d] = 0 ELSE attempt[d] > 0
    /\ pc[d] = "retry" => attempt[d] < MaxAttempts

\* Unless attempts of d overlapped, one of them at most has loaded it as pending and
\* may still call provider.send, and then none has called it; of a row that is not
\* past pending none has come as far as the call.
Going(l, d) == l[1] = d /\ l[3] \in {"marking", "sending"}
UnsentAt(d) ==
  d \notin overlapped =>
    /\ called[d] <= 1
    /\ pc[d] \in {"marking", "sending"} => called[d] = 0
    /\ \A l \in late :
         Going(l, d) => /\ called[d] = 0 /\ pc[d] \notin {"marking", "sending"}
                        /\ \A k \in late : Going(k, d) => k = l
    /\ row[d] \in {"none", "pending"} =>
         /\ called[d] = 0 /\ pc[d] # "sending"
         /\ \A l \in late : Going(l, d) => l[3] = "marking"
Unsent == \A d \in Deliveries : UnsentAt(d)

\* Where the truth about a delivery is while it is not yet in its row.
Truth ==
  \A d \in Deliveries :
    /\ row[d] = "delivered" \/ pc[d] = "accepted" => d \in accepted
    /\ d \in accepted /\ d \notin cut =>
         pc[d] = "accepted" \/ row[d] = "deleted" \/ (pc[d] = "done" /\ row[d] = "delivered")
    /\ \A l \in late : l[1] = d => d \in cut /\ (l[3] = "accepted" => d \in accepted)

\* An earlier notification that another has seen and not been suppressed by is
\* out of its window.
Windows ==
  \A m, n \in Notifications :
    m \in before[n] =>
      /\ creation[m] \in Committed
      /\ creation[m] = "open" /\ creation[n] \in {"routed", "ready", "open"} => m \in expired

IInv == Typed /\ Unseen /\ AttemptsLeft /\ Unsent /\ Truth /\ Windows

-----------------------------------------------------------------------------

LEMMA TypeUnfolded == TypeOK <=> Typed
<1>1. Committed \cup {"absent", "suppressing", "routed", "ready", "rolled_back"} =
      {"open", "suppressed", "absent", "suppressing", "routed", "ready", "rolled_back"}
  BY DEF Committed
<1>2. Places \cup {"loading"} = LatePlaces
      /\ Places \cup {"unlisted", "listed", "retry", "failing", "done"} =
         {"marking", "sending", "accepted", "refused", "unlisted", "listed", "retry", "failing",
          "done"}
  BY DEF LatePlaces
<1>3. QED
  BY <1>1, <1>2 DEF TypeOK, Typed

\* The parts of a late attempt.
LEMMA LateParts ==
  ASSUME Typed, NEW l \in late
  PROVE  /\ l = <<l[1], l[2], l[3]>> /\ l[1] \in Deliveries /\ l[2] \in 1 .. MaxAttempts
         /\ l[3] \in LatePlaces
BY DEF Typed

LEMMA InitInv == Init => IInv
<1> SUFFICES ASSUME Init
             PROVE  IInv
  OBVIOUS
<1>1. Typed
  BY BoundsAssumption DEF Typed, Init, Statuses
<1>2. Unseen /\ AttemptsLeft /\ Unsent /\ Truth
  BY BoundsAssumption DEF Init, Unseen, AttemptsLeft, Unsent, UnsentAt, Going, Truth
<1>3. Windows
  BY DEF Init, Windows
<1>4. QED
  BY <1>1, <1>2, <1>3 DEF IInv

\* create_notification, the passing of time and the deletion of a channel.
LEMMA CreationStep ==
  ASSUME IInv,
         \/ \E n \in Notifications :
              Create(n) \/ StartWorkflow(n) \/ Commit(n) \/ Rollback(n) \/ WindowPasses(n)
         \/ \E c \in Channels : DeleteChannel(c)
  PROVE  IInv'
<1> USE BoundsAssumption DEF IInv
<1>D. \A d \in Deliveries : d[1] \in Notifications /\ d[2] \in Channels /\ d = <<d[1], d[2]>>
  BY DEF Deliveries
<1>1. ASSUME NEW n \in Notifications, Create(n)
      PROVE  IInv'
  <2>1. PICK routed \in SUBSET channels :
          /\ creation' \in {[creation EXCEPT ![n] = "suppressing"]} \cup
               (IF Suppressing = {}
                  THEN {[creation EXCEPT ![n] = IF routed = {} THEN "ready" ELSE "routed"]}
                  ELSE {})
          /\ \/ row' = row
             \/ row' = [d \in Deliveries |-> IF d \in {n} \X routed THEN "pending" ELSE row[d]]
    BY <1>1 DEF Create, Routed
  <2>2. creation[n] = "absent"
        /\ before' = [before EXCEPT ![n] = {m \in Notifications : creation[m] \in Committed}]
        /\ UNCHANGED <<channels, expired, workflow, early, pc, attempt, late, faults, called,
                       accepted, cut, overlapped>>
    BY <1>1 DEF Create
  <2>3. Typed'
    BY <1>D, <2>1, <2>2 DEF Typed, Statuses, Committed
  <2>4. \A d \in Deliveries : /\ row'[d] = row[d] \/ (row'[d] = "pending" /\ d[1] = n)
                              /\ creation'[d[1]] \in Committed <=> creation[d[1]] \in Committed
    BY <1>D, <2>1, <2>2 DEF Typed, Committed
  <2>5. Unseen' /\ AttemptsLeft' /\ Unsent' /\ Truth'
    <3>1. Unseen'
      BY <1>D, <2>2, <2>4 DEF Unseen
    <3>2. AttemptsLeft'
      BY <2>2 DEF AttemptsLeft
    <3>3. Unsent'
      <4>1. \A d \in Deliveries : row'[d] \in {"none", "pending"} => row[d] \in {"none", "pending"}
        BY <1>D, <2>2, <2>4 DEF Unseen, Committed
      <4>2. UNCHANGED <<called, pc, late, overlapped>>
        BY <2>2
      <4>3. QED
        BY <4>1, <4>2 DEF Unsent, UnsentAt, Going
    <3>4. Truth'
      BY <1>D, <2>2, <2>4 DEF Unseen, Truth, Committed
    <3>5. QED
      BY <3>1, <3>2, <3>3, <3>4
  <2>6. Windows'
    BY <2>1, <2>2 DEF Typed, Windows, Suppressing, Committed
  <2>7. QED
    BY <2>3, <2>5, <2>6
<1>2. ASSUME NEW n \in Notifications, StartWorkflow(n) \/ Commit(n) \/ WindowPasses(n)
      PROVE  IInv'
  <2>1. /\ UNCHANGED <<channels, before, row, early, pc, attempt, late, called, accepted, cut,
                    overlapped>>
        /\ expired \subseteq expired'
    BY <1>2 DEF StartWorkflow, Commit, WindowPasses
  <2>2. Typed'
    BY <1>2 DEF Typed, StartWorkflow, Commit, WindowPasses
  <2>3. Unseen'
    BY <1>2, <1>D DEF Typed, StartWorkflow, Commit, WindowPasses, Unseen, Committed
  <2>4. AttemptsLeft' /\ Unsent' /\ Truth'
    BY <2>1 DEF AttemptsLeft, Unsent, UnsentAt, Going, Truth
  <2>5. Windows'
    BY <1>2 DEF Typed, StartWorkflow, Commit, WindowPasses, Windows, Committed
  <2>6. QED
    BY <2>2, <2>3, <2>4, <2>5
<1>3. ASSUME NEW n \in Notifications, Rollback(n)
      PROVE  IInv'
  <2>1. /\ creation[n] \notin Committed
        /\ creation' = [creation EXCEPT ![n] = "rolled_back"]
        /\ row' = [d \in Deliveries |-> IF d[1] = n THEN "none" ELSE row[d]]
        /\ UNCHANGED <<channels, expired, before, workflow, early, pc, attempt, late, called,
                       accepted, cut, overlapped>>
    BY <1>3 DEF Rollback, Committed
  <2>2. Typed'
    BY <1>3 DEF Typed, Rollback, Statuses
  <2>3. \A d \in Deliveries : /\ row'[d] = row[d] \/ (row'[d] = "none" /\ d[1] = n)
                              /\ creation'[d[1]] \in Committed <=> creation[d[1]] \in Committed
    BY <1>D, <2>1 DEF Typed, Committed
  <2>4. Unseen' /\ AttemptsLeft' /\ Unsent' /\ Truth'
    BY <1>D, <2>1, <2>3 DEF Unseen, AttemptsLeft, Unsent, UnsentAt, Going, Truth
  <2>5. Windows'
    BY <2>1 DEF Typed, Windows, Committed
  <2>6. QED
    BY <2>2, <2>4, <2>5
<1>4. ASSUME NEW c \in Channels, DeleteChannel(c)
      PROVE  IInv'
  <2>1. UNCHANGED <<creation, expired, before, workflow, early, pc, attempt, late, faults,
                    called, accepted, cut, overlapped>>
    BY <1>4 DEF DeleteChannel
  <2>2. Typed'
    BY <1>4 DEF Typed, DeleteChannel, Statuses
  <2>3. \A d \in Deliveries :
          row'[d] = row[d] \/ (row'[d] = "deleted" /\ creation[d[1]] \in Committed)
    BY <1>4, <1>D DEF Typed, DeleteChannel
  <2>4. Unseen' /\ AttemptsLeft' /\ Unsent' /\ Truth'
    BY <2>1, <2>3 DEF Unseen, AttemptsLeft, Unsent, UnsentAt, Going, Truth
  <2>5. Windows'
    BY <2>1 DEF Windows
  <2>6. QED
    BY <2>2, <2>4, <2>5
<1>5. QED
  BY <1>1, <1>2, <1>3, <1>4

\* The workflow and the attempts of one delivery.
LEMMA DeliveryStep ==
  ASSUME IInv, NEW d \in Deliveries,
         Deliver(d) \/ LoadFails(d) \/ SaveFails(d)
  PROVE  IInv'
<1> USE BoundsAssumption DEF IInv
<1>1. UNCHANGED <<channels, creation, expired, before, workflow, early>>
  BY DEF Deliver, LoadFails, SaveFails, BeginAttempt, MarkSending, Send, SaveOutcome,
         UpdateDeliveryStatus
<1>T. ~LoadFails(d) => UNCHANGED late
  BY DEF Deliver, SaveFails, BeginAttempt, MarkSending, Send, SaveOutcome,
         UpdateDeliveryStatus
<1>O. ~BeginAttempt(d) => UNCHANGED overlapped
  BY DEF Deliver, LoadFails, SaveFails, MarkSending, Send, SaveOutcome,
         UpdateDeliveryStatus
<1>2. Windows'
  BY <1>1 DEF Windows
<1>L. pc[d] # "unlisted" => creation[d[1]] \in Committed /\ workflow[d[1]] = "listed"
  BY DEF Unseen
<1>3. CASE BeginAttempt(d) \/ LoadFails(d)
  <2>1. /\ UNCHANGED <<row, called, accepted>>
        /\ attempt' = [attempt EXCEPT ![d] = @ + 1]
        /\ pc[d] \in {"listed", "retry"}
        /\ faults' \in {faults, faults + 1} /\ faults' \in 0 .. MaxFaults
    BY <1>3 DEF Typed, BeginAttempt, LoadFails, Due
  <2>2. attempt[d] \in Nat /\ attempt[d] < MaxAttempts
    BY <2>1 DEF Typed, AttemptsLeft
  <2>3. PICK p \in {"marking", "retry", "failing"} :
          /\ pc' = [pc EXCEPT ![d] = p]
          /\ p = "marking" => row[d] = "pending" /\ BeginAttempt(d)
          /\ p = "retry" => attempt[d] + 1 # MaxAttempts
    BY <1>3 DEF BeginAttempt, LoadFails, AfterRaise
  <2>4. /\ late' \in {late, late \cup {<<d, attempt[d] + 1, "loading">>}}
        /\ cut' \in {cut, cut \cup {d}} /\ (late' # late => d \in cut')
        /\ overlapped' \in {overlapped, overlapped \cup {d}}
    BY <1>3, <1>T DEF BeginAttempt, LoadFails, Load
  <2>5. Typed'
    <3>1. attempt[d] + 1 \in 1 .. MaxAttempts
      BY <2>2
    <3>2. late' \subseteq Deliveries \X (1 .. MaxAttempts) \X LatePlaces
      BY <2>4, <3>1 DEF Typed, LatePlaces
    <3>3. QED
      BY <1>1, <2>1, <2>2, <2>3, <2>4, <3>2 DEF Typed
  <2>6. \A l \in late' : l \in late \/ (l[1] = d /\ l[3] = "loading" /\ d \in cut')
    BY <2>4
  <2>7. Unseen' /\ AttemptsLeft'
    BY <1>1, <1>L, <2>1, <2>2, <2>3, <2>6 DEF Typed, Unseen, AttemptsLeft
  <2>8. Unsent'
    <3>1. \A b \in Deliveries, l \in late' : Going(l, b) => l \in late
      BY <2>6 DEF Going
    <3>2. ASSUME NEW b \in Deliveries, b # d
          PROVE  UnsentAt(b)'
      BY <2>1, <2>3, <2>4, <3>1, <3>2 DEF Typed, Unsent, UnsentAt, Going
    <3>3. CASE pc'[d] # "marking"
      <4>1. UnsentAt(d)'
        BY <2>1, <2>3, <2>4, <3>1, <3>3 DEF Typed, Unsent, UnsentAt, Going
      <4>2. QED
        BY <3>2, <4>1 DEF Unsent
    <3>4. CASE pc'[d] = "marking"
      <4>1. BeginAttempt(d) /\ row[d] = "pending" /\ UNCHANGED late
        <5>1. BeginAttempt(d) /\ row[d] = "pending"
          BY <2>3, <3>4 DEF Typed
        <5>2. QED
          BY <5>1 DEF BeginAttempt
      <4>2. ASSUME d \notin overlapped'
            PROVE  d \notin overlapped /\ \A l \in late : ~Going(l, d)
        <5>1. d \notin overlapped /\ ~(\E a \in 1 .. MaxAttempts : <<d, a, "marking">> \in late)
          BY <4>1, <4>2 DEF BeginAttempt, Load
        <5>2. \A l \in late : Going(l, d) => l[3] = "marking"
          BY <4>1, <5>1 DEF Unsent, UnsentAt
        <5>3. \A l \in late : Going(l, d) => l = <<d, l[2], "marking">> /\ l[2] \in 1 .. MaxAttempts
          BY <5>2, LateParts DEF Going
        <5>4. QED
          BY <5>1, <5>3
      <4>3. UnsentAt(d)'
        BY <2>1, <2>3, <3>4, <4>1, <4>2 DEF Unsent, UnsentAt, Going
      <4>4. QED
        BY <3>2, <4>3 DEF Unsent
    <3>5. QED
      BY <3>3, <3>4
  <2>9. Truth'
    BY <1>1, <2>1, <2>3, <2>4, <2>6 DEF Typed, Truth
  <2>10. QED
    BY <1>2, <2>5, <2>7, <2>8, <2>9
<1>4. CASE MarkSending(d) \/ SaveOutcome(d) \/ UpdateDeliveryStatus(d)
  <2>1. UNCHANGED <<attempt, faults, late, called, accepted, cut, overlapped>>
    BY <1>4 DEF MarkSending, SaveOutcome, UpdateDeliveryStatus
  <2>2. PICK p \in {"sending", "retry", "failing", "done"},
             s \in {"sending", "delivered", "failed", "deleted"} :
          /\ pc' = [pc EXCEPT ![d] = p] /\ row' = [row EXCEPT ![d] = s]
          /\ p = "sending" => pc[d] = "marking"
          /\ p = "retry" => attempt[d] # MaxAttempts
          /\ row[d] = "deleted" <=> s = "deleted"
          /\ s = "delivered" => pc[d] = "accepted"
          /\ pc[d] = "accepted" /\ s # "deleted" => p = "done" /\ s = "delivered"
          /\ pc[d] \in {"marking", "accepted", "refused", "failing"}
    BY <1>4
    DEF Typed, MarkSending, SaveOutcome, UpdateDeliveryStatus, Saved, AfterRaise, Statuses
  <2>3. Typed'
    BY <1>1, <2>1, <2>2 DEF Typed, Statuses
  <2>4. Unseen' /\ AttemptsLeft'
    <3>1. \A b \in Deliveries : b # d => row'[b] = row[b] /\ pc'[b] = pc[b]
      BY <2>2 DEF Typed
    <3>2. pc'[d] = p /\ attempt[d] > 0 /\ attempt[d] \in 0 .. MaxAttempts
      BY <2>2 DEF Typed, AttemptsLeft
    <3>3. Unseen'
      BY <1>1, <1>L, <2>1, <2>2, <3>1 DEF Unseen
    <3>4. AttemptsLeft'
      BY <2>1, <2>2, <3>1, <3>2 DEF AttemptsLeft
    <3>5. QED
      BY <3>3, <3>4
  <2>5. Unsent'
    BY <1>1, <2>1, <2>2 DEF Typed, Unsent, UnsentAt, Going
  <2>6. Truth'
    BY <1>1, <2>1, <2>2 DEF Typed, Truth
  <2>7. QED
    BY <1>2, <2>3, <2>4, <2>5, <2>6
<1>5. CASE Send(d)
  <2>1. /\ UNCHANGED <<row, attempt, faults, late, cut, overlapped>>
        /\ pc[d] = "sending"
        /\ called' = [called EXCEPT ![d] = @ + 1]
    BY <1>5 DEF Send
  <2>2. PICK p \in {"accepted", "refused"} :
          /\ pc' = [pc EXCEPT ![d] = p]
          /\ accepted' = IF p = "accepted" THEN accepted \cup {d} ELSE accepted
    BY <1>5 DEF Send
  <2>3. Typed'
    BY <1>1, <2>1, <2>2 DEF Typed
  <2>4. Unseen' /\ AttemptsLeft'
    BY <1>1, <1>L, <2>1, <2>2 DEF Typed, Unseen, AttemptsLeft
  <2>5. Unsent'
    <3>1. d \notin overlapped =>
            /\ called[d] = 0 /\ row[d] \notin {"none", "pending"}
            /\ \A l \in late : ~Going(l, d)
      BY <2>1 DEF Unsent, UnsentAt
    <3>2. pc'[d] \in {"accepted", "refused"} /\ called'[d] = called[d] + 1
      BY <2>1, <2>2 DEF Typed
    <3>3. UnsentAt(d)'
      BY <2>1, <3>1, <3>2 DEF UnsentAt, Going
    <3>4. ASSUME NEW b \in Deliveries, b # d
          PROVE  UnsentAt(b)'
      <4>1. pc'[b] = pc[b] /\ called'[b] = called[b]
        BY <2>1, <2>2, <3>4 DEF Typed
      <4>2. QED
        BY <2>1, <4>1 DEF Unsent, UnsentAt, Going
    <3>5. QED
      BY <3>3, <3>4 DEF Unsent
  <2>6. Truth'
    <3>1. accepted \subseteq accepted' /\ accepted' \subseteq accepted \cup {d}
      BY <2>2
    <3>2. \A b \in Deliveries : b # d => pc'[b] = pc[b] /\ (b \in accepted' <=> b \in accepted)
      BY <2>2, <3>1 DEF Typed
    <3>3. pc'[d] \in {"accepted", "refused"} /\ (pc'[d] = "accepted" => d \in accepted')
      BY <2>2 DEF Typed
    <3>4. pc'[d] = "refused" /\ d \in accepted' => d \in cut \/ row[d] = "deleted"
      BY <2>1, <2>2, <3>3 DEF Typed, Truth
    <3>5. QED
      BY <2>1, <3>1, <3>2, <3>3, <3>4 DEF Truth
  <2>7. QED
    BY <1>2, <2>3, <2>4, <2>5, <2>6
<1>6. CASE SaveFails(d)
  <2>1. /\ UNCHANGED <<row, attempt, late, called, accepted, overlapped>>
        /\ cut' = cut \cup {d} /\ pc' = [pc EXCEPT ![d] = "refused"] /\ pc[d] = "accepted"
        /\ faults' \in 0 .. MaxFaults
    BY <1>6 DEF Typed, SaveFails
  <2>2. Typed'
    BY <1>1, <2>1 DEF Typed
  <2>3. Unseen' /\ AttemptsLeft'
    BY <1>1, <1>L, <2>1 DEF Typed, Unseen, AttemptsLeft
  <2>4. Unsent'
    BY <1>1, <2>1 DEF Typed, Unsent, UnsentAt, Going
  <2>5. Truth'
    BY <1>1, <2>1 DEF Typed, Truth
  <2>6. QED
    BY <1>2, <2>2, <2>3, <2>4, <2>5
<1>7. QED
  BY <1>3, <1>4, <1>5, <1>6 DEF Deliver

\* Attempts that end with their worker, or by a failed statement, before their end.
LEMMA Abandoned ==
  ASSUME IInv, NEW ds \in SUBSET Deliveries,
         UNCHANGED <<channels, creation, expired, before, row, workflow, early, attempt, late,
                     called, accepted, overlapped>>,
         cut' = cut \cup ds, faults' \in 0 .. MaxFaults,
         \A d \in ds : pc[d] \in {"marking", "sending", "accepted", "refused"},
         \A d \in Deliveries :
           IF d \in ds THEN pc'[d] = AfterRaise(attempt[d]) ELSE pc'[d] = pc[d],
         pc' = [d \in Deliveries |-> pc'[d]]
  PROVE  IInv'
<1> USE BoundsAssumption DEF IInv
<1>1. \A d \in ds : /\ pc'[d] \in {"retry", "failing"}
                    /\ pc'[d] = "retry" => attempt[d] # MaxAttempts
  BY DEF AfterRaise
<1>2. Typed'
  BY <1>1 DEF Typed
<1>3. Unseen'
  BY <1>1 DEF Unseen
<1>a. AttemptsLeft'
  <2>1. \A d \in ds : attempt[d] > 0 /\ (attempt[d] # MaxAttempts => attempt[d] < MaxAttempts)
    BY DEF Typed, AttemptsLeft
  <2>2. QED
    BY <1>1, <2>1 DEF AttemptsLeft
<1>4. Unsent'
  BY <1>1 DEF Unsent, UnsentAt, Going
<1>5. Truth'
  BY <1>1 DEF Truth
<1>6. Windows'
  BY DEF Windows
<1>7. QED
  BY <1>2, <1>3, <1>a, <1>4, <1>5, <1>6

\* A step of a late attempt.
LEMMA LateInv ==
  ASSUME IInv, NEW l \in late, LateStep(l)
  PROVE  IInv'
<1> USE BoundsAssumption DEF IInv
<1> DEFINE d == l[1]
           to(p) == <<l[1], l[2], p>>
<1>1. /\ UNCHANGED <<channels, creation, expired, before, workflow, early, pc, attempt, cut>>
      /\ d \in Deliveries /\ l[2] \in 1 .. MaxAttempts
      /\ creation[d[1]] \in Committed /\ d \in cut
  BY LateParts DEF LateStep, Unseen, Truth
<1>2. CASE LateLoad(d, l)
  <2>1. /\ UNCHANGED <<row, faults, called, accepted>>
        /\ l[3] = "loading"
        /\ overlapped' \in {overlapped, overlapped \cup {d}}
        /\ \/ late' = late \ {l}
           \/ row[d] = "pending" /\ late' = (late \ {l}) \cup {to("marking")}
    BY <1>2 DEF LateLoad, Load, Onward, Ends
  <2>2. Typed'
    BY <1>1, <2>1 DEF Typed, LatePlaces
  <2>3. Unseen' /\ AttemptsLeft' /\ Truth' /\ Windows'
    BY <1>1, <2>1 DEF Unseen, AttemptsLeft, Truth, Windows
  <2>4. ASSUME NEW b \in Deliveries, b # d
        PROVE  UnsentAt(b)'
    BY <1>1, <2>1, <2>4 DEF Unsent, UnsentAt, Going
  <2>5. UnsentAt(d)'
    <3>1. CASE late' = late \ {l}
      BY <1>1, <2>1, <3>1 DEF Unsent, UnsentAt, Going
    <3>2. CASE row[d] = "pending" /\ late' = (late \ {l}) \cup {to("marking")}
      <4>1. SUFFICES ASSUME d \notin overlapped'
                     PROVE  UnsentAt(d)'
        BY DEF UnsentAt
      <4>2. /\ d \notin overlapped /\ pc[d] # "marking"
            /\ ~(\E a \in 1 .. MaxAttempts : <<d, a, "marking">> \in late)
        BY <1>2, <3>2, <4>1 DEF LateLoad, Load
      <4>3. \A k \in late : Going(k, d) => k[3] = "marking"
        BY <1>1, <3>2, <4>2 DEF Unsent, UnsentAt
      <4>4. \A k \in late : Going(k, d) => k = <<d, k[2], "marking">> /\ k[2] \in 1 .. MaxAttempts
        BY <4>3, LateParts DEF Going
      <4>5. \A k \in late' : Going(k, d) => k = to("marking")
        BY <3>2, <4>2, <4>4
      <4>6. called[d] = 0 /\ pc[d] \notin {"marking", "sending"}
        BY <1>1, <3>2, <4>2 DEF Unsent, UnsentAt
      <4>7. QED
        BY <1>1, <2>1, <4>5, <4>6 DEF UnsentAt
    <3>3. QED
      BY <2>1, <3>1, <3>2
  <2>6. QED
    BY <2>2, <2>3, <2>4, <2>5 DEF Unsent
<1>3. CASE LateMark(d, l)
  <2>1. /\ UNCHANGED <<faults, called, accepted, overlapped>>
        /\ l[3] = "marking"
        /\ late' \in {late \ {l}, (late \ {l}) \cup {to("sending")}}
    BY <1>3 DEF LateMark, Onward, Ends
  <2>2. PICK s \in {"sending", "deleted"} :
          row' = [row EXCEPT ![d] = s] /\ (row[d] = "deleted" <=> s = "deleted")
    BY <1>3 DEF LateMark, Saved
  <2>3. Typed'
    BY <1>1, <2>1, <2>2 DEF Typed, LatePlaces, Statuses
  <2>4. Unseen' /\ AttemptsLeft'
    BY <1>1, <2>1, <2>2 DEF Typed, Unseen, AttemptsLeft
  <2>5. Truth'
    BY <1>1, <2>1, <2>2 DEF Typed, Truth
  <2>6. ASSUME NEW b \in Deliveries, b # d
        PROVE  UnsentAt(b)'
    BY <1>1, <2>1, <2>2, <2>6 DEF Typed, Unsent, UnsentAt, Going
  <2>7. UnsentAt(d)'
    <3>1. SUFFICES ASSUME d \notin overlapped
                   PROVE  UnsentAt(d)'
      BY <2>1 DEF UnsentAt
    <3>2. /\ called[d] = 0 /\ pc[d] \notin {"marking", "sending"}
          /\ \A k \in late : Going(k, d) => k = l
      BY <1>1, <2>1, <3>1 DEF Unsent, UnsentAt, Going
    <3>3. \A k \in late' : Going(k, d) => k = to("sending")
      BY <2>1, <3>2
    <3>4. row'[d] \notin {"none", "pending"}
      BY <1>1, <2>2 DEF Typed
    <3>5. QED
      BY <1>1, <2>1, <3>2, <3>3, <3>4 DEF UnsentAt
  <2>8. Windows'
    BY <1>1 DEF Windows
  <2>9. QED
    BY <2>3, <2>4, <2>5, <2>6, <2>7, <2>8 DEF Unsent
<1>4. CASE LateSend(d, l)
  <2>1. /\ UNCHANGED <<row, faults, overlapped>>
        /\ l[3] = "sending" /\ called' = [called EXCEPT ![d] = @ + 1]
    BY <1>4 DEF LateSend
  <2>2. PICK p \in {"accepted", "refused"} :
          /\ late' = (late \ {l}) \cup {to(p)}
          /\ accepted' = IF p = "accepted" THEN accepted \cup {d} ELSE accepted
    BY <1>4 DEF LateSend, Onward
  <2>3. Typed'
    BY <1>1, <2>1, <2>2 DEF Typed, LatePlaces
  <2>4. Unseen' /\ AttemptsLeft' /\ Windows'
    BY <1>1, <2>1, <2>2 DEF Unseen, AttemptsLeft, Windows
  <2>5. Truth'
    BY <1>1, <2>1, <2>2 DEF Truth
  <2>6. ASSUME NEW b \in Deliveries, b # d
        PROVE  UnsentAt(b)'
    <3>1. called'[b] = called[b]
      BY <2>1, <2>6 DEF Typed
    <3>2. QED
      BY <1>1, <2>1, <2>2, <2>6, <3>1 DEF Unsent, UnsentAt, Going
  <2>7. UnsentAt(d)'
    <3>1. SUFFICES ASSUME d \notin overlapped
                   PROVE  UnsentAt(d)'
      BY <2>1 DEF UnsentAt
    <3>2. /\ called[d] = 0 /\ pc[d] \notin {"marking", "sending"}
          /\ \A k \in late : Going(k, d) => k = l
          /\ row[d] \notin {"none", "pending"}
      BY <1>1, <2>1, <3>1 DEF Unsent, UnsentAt, Going
    <3>3. \A k \in late' : ~Going(k, d)
      BY <2>2, <3>2 DEF Going
    <3>4. called'[d] = 1
      BY <1>1, <2>1, <3>2 DEF Typed
    <3>5. QED
      BY <1>1, <2>1, <3>2, <3>3, <3>4 DEF UnsentAt
  <2>8. QED
    BY <2>3, <2>4, <2>5, <2>6, <2>7 DEF Unsent
<1>5. CASE LateSave(d, l)
  <2>1. /\ UNCHANGED <<called, accepted, overlapped>>
        /\ l[3] \in {"accepted", "refused"}
        /\ late' \in {late \ {l}, (late \ {l}) \cup {to("refused")}}
        /\ faults' \in {faults, faults + 1} /\ (faults' # faults => faults < MaxFaults)
    BY <1>5 DEF LateSave, Onward, Ends
  <2>2. \/ UNCHANGED row
        \/ \E s \in {"delivered", "failed", "deleted"} :
             /\ row' = [row EXCEPT ![d] = s] /\ (row[d] = "deleted" <=> s = "deleted")
             /\ s = "delivered" => l[3] = "accepted"
    BY <1>5 DEF LateSave, Saved
  <2>3. Typed'
    BY <1>1, <2>1, <2>2 DEF Typed, LatePlaces, Statuses
  <2>4. Unseen' /\ AttemptsLeft'
    BY <1>1, <2>1, <2>2 DEF Typed, Unseen, AttemptsLeft
  <2>5. Truth'
    <3>1. l[3] = "accepted" => d \in accepted
      BY <1>1 DEF Truth
    <3>2. QED
      BY <1>1, <2>1, <2>2, <3>1 DEF Typed, Truth
  <2>6. Unsent'
    <3>1. \A b \in Deliveries, k \in late' : Going(k, b) => k \in late
      BY <2>1 DEF Going
    <3>2. \A b \in Deliveries : row'[b] \in {"none", "pending"} => row'[b] = row[b]
      BY <1>1, <2>2 DEF Typed
    <3>3. QED
      BY <1>1, <2>1, <3>1, <3>2 DEF Unsent, UnsentAt, Going
  <2>7. Windows'
    BY <1>1 DEF Windows
  <2>8. QED
    BY <2>3, <2>4, <2>5, <2>6, <2>7
<1>6. QED
  BY <1>2, <1>3, <1>4, <1>5 DEF LateStep

\* Listing, interrupted and late attempts.
LEMMA OtherStep ==
  ASSUME IInv,
         \/ \E n \in Notifications : ListPending(n)
         \/ \E ds \in SUBSET Deliveries : Interrupt(ds)
         \/ \E d \in Deliveries : TimeOut(d)
         \/ \E l \in late : LateStep(l)
  PROVE  IInv'
<1> USE BoundsAssumption DEF IInv
<1>D. \A d \in Deliveries : d[1] \in Notifications
  BY DEF Deliveries
<1>1. ASSUME NEW n \in Notifications, ListPending(n)
      PROVE  IInv'
  <2>1. /\ UNCHANGED <<channels, creation, expired, before, row, attempt, late, faults, called,
                       accepted, cut, overlapped>>
        /\ workflow[n] = "listing" /\ workflow' = [workflow EXCEPT ![n] = "listed"]
        /\ early' \in {early, early \cup {n}}
    BY <1>1 DEF ListPending
  <2>2. \A d \in Deliveries :
          \/ pc'[d] = pc[d]
          \/ /\ pc'[d] = "listed" /\ d[1] = n /\ creation[n] \in Committed
             /\ row[d] = "pending" /\ pc[d] = "unlisted"
    BY <1>1 DEF ListPending, Unseen
  <2>3. pc' = [d \in Deliveries |-> pc'[d]]
    BY <1>1 DEF ListPending
  <2>4. Typed'
    BY <2>1, <2>2, <2>3 DEF Typed
  <2>5. Unseen'
    BY <1>D, <2>1, <2>2 DEF Typed, Unseen
  <2>6. AttemptsLeft' /\ Unsent' /\ Truth'
    BY <2>1, <2>2 DEF AttemptsLeft, Unsent, UnsentAt, Going, Truth
  <2>7. Windows'
    BY <2>1 DEF Windows
  <2>8. QED
    BY <2>4, <2>5, <2>6, <2>7
<1>2. ASSUME NEW ds \in SUBSET Deliveries, Interrupt(ds)
      PROVE  IInv'
  <2>1. /\ UNCHANGED <<channels, creation, expired, before, row, workflow, early, attempt, late,
                       called, accepted, overlapped>>
        /\ cut' = cut \cup ds /\ faults' \in 0 .. MaxFaults
    BY <1>2 DEF Typed, Interrupt
  <2>2. \A d \in ds : pc[d] \in {"marking", "sending", "accepted", "refused"}
    BY <1>2 DEF Interrupt, Active
  <2>3. /\ \A d \in Deliveries :
             IF d \in ds THEN pc'[d] = AfterRaise(attempt[d]) ELSE pc'[d] = pc[d]
        /\ pc' = [d \in Deliveries |-> pc'[d]]
    BY <1>2 DEF Interrupt
  <2>4. QED
    BY <2>1, <2>2, <2>3, Abandoned
<1>3. ASSUME NEW d \in Deliveries, TimeOut(d)
      PROVE  IInv'
  <2>1. /\ UNCHANGED <<channels, creation, expired, before, row, workflow, early, attempt,
                       called, accepted, overlapped>>
        /\ pc[d] \in {"marking", "sending", "accepted", "refused"}
        /\ pc' = [pc EXCEPT ![d] = AfterRaise(attempt[d])]
        /\ late' = late \cup {<<d, attempt[d], pc[d]>>}
        /\ cut' = cut \cup {d} /\ faults' \in 0 .. MaxFaults
    BY <1>3 DEF Typed, TimeOut, Active
  <2>2. pc'[d] \in {"retry", "failing"} /\ (pc'[d] = "retry" => attempt[d] # MaxAttempts)
        /\ \A b \in Deliveries : b # d => pc'[b] = pc[b]
    BY <2>1 DEF Typed, AfterRaise
  <2>3. attempt[d] \in 1 .. MaxAttempts
    BY <2>1 DEF Typed, AttemptsLeft
  <2>4. Typed'
    BY <2>1, <2>3 DEF Typed, AfterRaise, LatePlaces
  <2>5. Unseen'
    BY <2>1, <2>2 DEF Unseen
  <2>6. AttemptsLeft'
    BY <2>1, <2>2, <2>3 DEF Typed, AttemptsLeft
  <2>7. Unsent'
    <3>1. \A b \in Deliveries, l \in late' :
            Going(l, b) =>
              \/ l \in late
              \/ b = d /\ l = <<d, attempt[d], pc[d]>> /\ pc[d] \in {"marking", "sending"}
      BY <2>1 DEF Going
    <3>2. ASSUME NEW b \in Deliveries, b # d
          PROVE  UnsentAt(b)'
      BY <2>1, <2>2, <3>1, <3>2 DEF Unsent, UnsentAt, Going
    <3>3. UnsentAt(d)'
      <4>1. CASE pc[d] \in {"marking", "sending"}
        <5>1. d \notin overlapped => called[d] = 0 /\ \A l \in late : ~Going(l, d)
          BY <4>1 DEF Unsent, UnsentAt
        <5>2. d \notin overlapped =>
                \A l \in late' : Going(l, d) => l = <<d, attempt[d], pc[d]>>
          BY <3>1, <5>1
        <5>3. d \notin overlapped /\ row[d] \in {"none", "pending"} => pc[d] = "marking"
          BY <4>1 DEF Unsent, UnsentAt
        <5>4. QED
          BY <2>1, <2>2, <5>1, <5>2, <5>3 DEF UnsentAt, Going
      <4>2. CASE pc[d] \notin {"marking", "sending"}
        BY <2>1, <2>2, <3>1, <4>2 DEF Unsent, UnsentAt, Going
      <4>3. QED
        BY <4>1, <4>2
    <3>4. QED
      BY <3>2, <3>3 DEF Unsent
  <2>8. Truth'
    BY <2>1, <2>2 DEF Truth
  <2>9. Windows'
    BY <2>1 DEF Windows
  <2>10. QED
    BY <2>4, <2>5, <2>6, <2>7, <2>8, <2>9
<1>4. QED
  BY <1>1, <1>2, <1>3, LateInv

LEMMA StepInv == IInv /\ [Next]_vars => IInv'
<1> SUFFICES ASSUME IInv, [Next]_vars
             PROVE  IInv'
  OBVIOUS
<1>1. CASE UNCHANGED vars
  BY <1>1 DEF vars, IInv, Typed, Unseen, AttemptsLeft, Unsent, UnsentAt, Going, Truth, Windows
<1>2. ASSUME NEW n \in Notifications, Advance(n)
      PROVE  IInv'
  <2>1. CASE ListPending(n)
    BY <2>1, OtherStep
  <2>2. ASSUME NEW c \in Channels, Deliver(<<n, c>>)
        PROVE  IInv'
    <3>1. <<n, c>> \in Deliveries
      BY DEF Deliveries
    <3>2. QED
      BY <2>2, <3>1, DeliveryStep
  <2>3. QED
    BY <1>2, <2>1, <2>2 DEF Advance
<1>3. CASE \E d \in Deliveries : LoadFails(d) \/ SaveFails(d)
  BY <1>3, DeliveryStep
<1>4. CASE \/ \E d \in Deliveries : TimeOut(d)
           \/ \E l \in late : LateStep(l)
  BY <1>4, OtherStep
<1>5. CASE \E ds \in SUBSET Deliveries : Interrupt(ds)
  BY <1>5, OtherStep
<1>6. CASE \/ \E n \in Notifications :
                Create(n) \/ StartWorkflow(n) \/ Commit(n) \/ Rollback(n) \/ WindowPasses(n)
           \/ \E c \in Channels : DeleteChannel(c)
  BY <1>6, CreationStep
<1>7. QED
  BY <1>1, <1>2, <1>3, <1>4, <1>5, <1>6 DEF Next

LEMMA Invariant == Spec => []IInv
  BY InitInv, StepInv, PTL DEF Spec

-----------------------------------------------------------------------------
(* What the workflow has listed it finishes with. *)

\* Only create_notification that has routed starts the workflow, and a delivery
\* still pending when the workflow has listed is one it has in hand, unless it
\* listed before the commit.
Reached ==
  \A d \in Deliveries :
    /\ workflow[d[1]] # "none" => creation[d[1]] \in {"ready", "open", "rolled_back"}
    /\ row[d] = "pending" /\ workflow[d[1]] = "listed" /\ d[1] \notin early =>
         pc[d] \notin {"unlisted", "done"}

LEMMA ReachedStep ==
  ASSUME IInv, Reached, [Next]_vars
  PROVE  Reached'
<1> USE DEF IInv
<1>D. \A d \in Deliveries : d[1] \in Notifications /\ d[2] \in Channels
  BY DEF Deliveries
<1>1. CASE UNCHANGED vars
  BY <1>1 DEF vars, Reached
<1>2. ASSUME NEW n \in Notifications, Create(n)
      PROVE  Reached'
  <2>1. /\ creation[n] = "absent"
        /\ creation' \in {[creation EXCEPT ![n] = s] : s \in {"suppressing", "ready", "routed"}}
        /\ \A d \in Deliveries : row'[d] = row[d] \/ d[1] = n
        /\ UNCHANGED <<workflow, early, pc>>
    BY <1>2, <1>D DEF Create
  <2>2. \A d \in Deliveries : d[1] = n => workflow[n] = "none"
    BY <2>1 DEF Reached
  <2>3. QED
    BY <2>1, <2>2, <1>D DEF Typed, Reached
<1>3. ASSUME NEW n \in Notifications, StartWorkflow(n) \/ Commit(n) \/ WindowPasses(n)
      PROVE  Reached'
  BY <1>3, <1>D DEF Typed, StartWorkflow, Commit, WindowPasses, Reached
<1>4. ASSUME NEW n \in Notifications, Rollback(n)
      PROVE  Reached'
  BY <1>4, <1>D DEF Typed, Rollback, Reached
<1>5. ASSUME NEW c \in Channels, DeleteChannel(c)
      PROVE  Reached'
  BY <1>5 DEF DeleteChannel, Reached
<1>6. ASSUME NEW n \in Notifications, ListPending(n)
      PROVE  Reached'
  <2>1. /\ UNCHANGED <<creation, row>>
        /\ workflow[n] = "listing" /\ workflow' = [workflow EXCEPT ![n] = "listed"]
        /\ early \subseteq early' /\ (creation[n] \notin Committed => n \in early')
        /\ \A d \in Deliveries :
             IF d[1] = n /\ creation[n] \in Committed /\ row[d] = "pending"
               THEN pc'[d] = "listed" ELSE pc'[d] = pc[d]
    BY <1>6 DEF ListPending
  <2>2. QED
    BY <2>1, <1>D DEF Typed, Reached
<1>7. ASSUME NEW b \in Deliveries, Deliver(b) \/ LoadFails(b) \/ SaveFails(b)
      PROVE  Reached'
  <2>1. UNCHANGED <<creation, workflow, early>>
    BY <1>7 DEF Deliver, LoadFails, SaveFails, BeginAttempt, MarkSending, Send, SaveOutcome,
               UpdateDeliveryStatus
  <2>2. \A d \in Deliveries : d # b => row'[d] = row[d] /\ pc'[d] = pc[d]
    BY <1>7 DEF Typed, Deliver, LoadFails, SaveFails, BeginAttempt, MarkSending, Send,
               SaveOutcome, UpdateDeliveryStatus, Saved
  <2>3. row'[b] = "pending" => pc'[b] \notin {"unlisted", "done"}
    <3>1. CASE BeginAttempt(b) \/ LoadFails(b) \/ Send(b) \/ SaveFails(b)
      BY <3>1 DEF Typed, BeginAttempt, LoadFails, Send, SaveFails, AfterRaise
    <3>2. CASE MarkSending(b) \/ SaveOutcome(b) \/ UpdateDeliveryStatus(b)
      BY <3>2 DEF Typed, MarkSending, SaveOutcome, UpdateDeliveryStatus, Saved
    <3>3. QED
      BY <1>7, <3>1, <3>2 DEF Deliver
  <2>4. QED
    BY <2>1, <2>2, <2>3 DEF Reached
<1>8. ASSUME NEW ds \in SUBSET Deliveries, Interrupt(ds)
      PROVE  Reached'
  <2>1. /\ UNCHANGED <<creation, row, workflow, early>>
        /\ \A d \in Deliveries : pc'[d] = pc[d] \/ pc'[d] \in {"retry", "failing"}
    BY <1>8 DEF Interrupt, AfterRaise
  <2>2. QED
    BY <2>1 DEF Reached
<1>T. ASSUME NEW b \in Deliveries, TimeOut(b)
      PROVE  Reached'
  <2>1. /\ UNCHANGED <<creation, row, workflow, early>>
        /\ \A d \in Deliveries : pc'[d] = pc[d] \/ pc'[d] \in {"retry", "failing"}
    BY <1>T DEF Typed, TimeOut, AfterRaise
  <2>2. QED
    BY <2>1 DEF Reached
<1>9. ASSUME NEW l \in late, LateStep(l)
      PROVE  Reached'
  <2>1. /\ UNCHANGED <<creation, workflow, early, pc>>
        /\ \A d \in Deliveries : row'[d] = row[d] \/ row'[d] # "pending"
    BY <1>9 DEF Typed, LateStep, LateLoad, LateMark, LateSend, LateSave, Saved
  <2>2. QED
    BY <2>1 DEF Reached
<1>10. \A n \in Notifications, c \in Channels : <<n, c>> \in Deliveries
  BY DEF Deliveries
<1>11. QED
  BY <1>1, <1>2, <1>3, <1>4, <1>5, <1>6, <1>7, <1>8, <1>9, <1>T, <1>10
  DEF Next, Advance

-----------------------------------------------------------------------------

\* Every variable of the creation and delivery of notifications keeps its type; in
\* particular no delivery is attempted more often than its retry policy allows.
THEOREM TypeCorrect == Spec => []TypeOK
<1>1. IInv => TypeOK
  BY TypeUnfolded DEF IInv
<1>2. QED
  BY <1>1, Invariant, PTL

\* Whatever crashes, times out, runs late or is retried, provider.send is called again
\* for a delivery only if two of its attempts overlapped before either had saved
\* SENDING (execute_delivery).
THEOREM SendsOnce == Spec => []SentOnce
<1>1. IInv => SentOnce
  BY DEF IInv, Typed, Unsent, UnsentAt, SentOnce
<1>2. QED
  BY <1>1, Invariant, PTL

\* A delivery is marked delivered only if it was accepted, and an accepted one is
\* left unmarked only by an attempt that was cut short (execute_delivery,
\* NotificationDeliveryWorkflow).
THEOREM RowsTrue == Spec => []RowsTellTheTruth
<1>1. IInv => RowsTellTheTruth
  BY DEF IInv, Truth, RowsTellTheTruth
<1>2. QED
  BY <1>1, Invariant, PTL

\* Two duplicates of one window are open together only if neither was committed
\* when the other looked (find_suppressing_notification).
THEOREM Deduplicated == Spec => []OneOpenPerWindow
<1>1. IInv => OneOpenPerWindow
  BY DEF IInv, Typed, Windows, OneOpenPerWindow
<1>2. QED
  BY <1>1, Invariant, PTL

\* When a workflow has ended, a delivery still pending is one it could not see
\* because it listed before create_notification committed (get_pending_deliveries,
\* NotificationDeliveryWorkflow).
THEOREM NoneStranded == Spec => []StrandedOnlyByEarlyStart
<1>1. Init => Reached
  BY DEF Init, Reached, Deliveries
<1>2. IInv /\ Reached /\ [Next]_vars => Reached'
  BY ReachedStep
<1>3. Reached => StrandedOnlyByEarlyStart
  BY DEF Reached, StrandedOnlyByEarlyStart, Ended, Deliveries
<1>4. QED
  BY <1>1, <1>2, <1>3, Invariant, PTL DEF Spec

-----------------------------------------------------------------------------
(* Deliveries end: what their fairness rests on. *)

\* The guard of a step of the workflow of d, or of its activities, at d.
Ready(d) ==
  \/ Due(d) \/ pc[d] \in {"marking", "sending", "accepted", "refused"}
  \/ pc[d] = "failing" /\ row[d] # "deleted"

\* How far d is from its end: its workflow, its attempts and what the current
\* attempt has left to do.
Stage(n) == IF workflow[n] = "none" THEN 2 ELSE IF workflow[n] = "listing" THEN 1 ELSE 0
Phase(d) ==
  IF pc[d] = "marking" THEN 5
  ELSE IF pc[d] = "sending" THEN 4
  ELSE IF pc[d] = "accepted" THEN 3
  ELSE IF pc[d] = "refused" THEN 2
  ELSE IF pc[d] \in {"retry", "failing"} THEN 1 ELSE 0

Left(d) == <<Stage(d[1]), MaxAttempts - attempt[d], Phase(d)>>

Lower(a, b) == \E k \in 1..3 : a[k] < b[k] /\ \A j \in 1..(k - 1) : a[j] = b[j]
Lowered(d) == Lower(Left(d)', Left(d))

\* A step at d, of the workflow, of an attempt, or one that cuts an attempt short.
Goes(d) ==
  \/ ListPending(d[1]) \/ Deliver(d) \/ LoadFails(d) \/ SaveFails(d)
  \/ TimeOut(d) \/ \E ds \in SUBSET Deliveries : d \in ds /\ Interrupt(ds)

RunsDown ==
  \A d \in Deliveries : /\ Goes(d) => Lowered(d)
                        /\ Lowered(d) \/ Left(d)' = Left(d)

LEMMA LeftParts ==
  ASSUME IInv, NEW d \in Deliveries
  PROVE  /\ Left(d) \in Nat \X Nat \X Nat
         /\ Left(d) = <<Stage(d[1]), MaxAttempts - attempt[d], Phase(d)>>
         /\ Left(d)' = <<Stage(d[1])', MaxAttempts - attempt'[d], Phase(d)'>>
         /\ attempt[d] \in Nat /\ MaxAttempts \in Nat
<1>1. attempt[d] \in 0..MaxAttempts /\ MaxAttempts \in Nat
  BY BoundsAssumption DEF IInv, Typed
<1>2. Stage(d[1]) \in Nat /\ Phase(d) \in Nat
  BY DEF Stage, Phase
<1>3. QED
  BY <1>1, <1>2 DEF Left

LEMMA LowerStage ==
  ASSUME IInv, NEW d \in Deliveries, Stage(d[1])' < Stage(d[1])
  PROVE  Lowered(d)
BY LeftParts DEF Lower, Lowered

LEMMA LowerAttempts ==
  ASSUME IInv, NEW d \in Deliveries, Stage(d[1])' = Stage(d[1]), attempt'[d] = attempt[d] + 1
  PROVE  Lowered(d)
<1>1. MaxAttempts - attempt'[d] < MaxAttempts - attempt[d]
  BY LeftParts
<1>2. QED
  BY <1>1, LeftParts DEF Lower, Lowered

LEMMA LowerPhase ==
  ASSUME IInv, NEW d \in Deliveries, Stage(d[1])' = Stage(d[1]), attempt'[d] = attempt[d],
         Phase(d)' < Phase(d)
  PROVE  Lowered(d)
BY LeftParts DEF Lower, Lowered

\* A step that leaves the workflow of d and where d is leaves what d has left.
LEMMA LeftKept ==
  ASSUME IInv, NEW d \in Deliveries, workflow'[d[1]] = workflow[d[1]],
         attempt'[d] = attempt[d], pc'[d] = pc[d]
  PROVE  Left(d)' = Left(d)
<1>1. Stage(d[1])' = Stage(d[1]) /\ Phase(d)' = Phase(d)
  BY DEF Stage, Phase
<1>2. QED
  BY <1>1, LeftParts

LEMMA WorkDeliver ==
  ASSUME IInv, NEW b \in Deliveries, Deliver(b) \/ LoadFails(b) \/ SaveFails(b)
  PROVE  Lowered(b) /\ \A d \in Deliveries : d # b => Left(d)' = Left(d)
<1> USE DEF IInv
<1>1. UNCHANGED workflow
  BY DEF Deliver, LoadFails, SaveFails, BeginAttempt, MarkSending, Send, SaveOutcome,
         UpdateDeliveryStatus
<1>2. Stage(b[1])' = Stage(b[1])
  BY <1>1 DEF Stage
<1>3. \A d \in Deliveries : d # b => pc'[d] = pc[d] /\ attempt'[d] = attempt[d]
  BY DEF Typed, Deliver, LoadFails, SaveFails, BeginAttempt, MarkSending, Send, SaveOutcome,
         UpdateDeliveryStatus
<1>4. CASE BeginAttempt(b) \/ LoadFails(b)
  <2>1. attempt'[b] = attempt[b] + 1
    BY <1>4 DEF Typed, BeginAttempt, LoadFails
  <2>2. QED
    BY <1>1, <1>2, <1>3, <2>1, LowerAttempts, LeftKept
<1>5. CASE MarkSending(b) \/ Send(b) \/ SaveOutcome(b) \/ SaveFails(b) \/ UpdateDeliveryStatus(b)
  <2>1. attempt' = attempt
    BY <1>5 DEF MarkSending, Send, SaveOutcome, SaveFails, UpdateDeliveryStatus
  <2>2. \/ pc[b] = "marking" /\ pc'[b] \in {"sending", "retry", "failing"}
        \/ pc[b] = "sending" /\ pc'[b] \in {"accepted", "refused"}
        \/ pc[b] = "accepted" /\ pc'[b] \in {"refused", "retry", "failing", "done"}
        \/ pc[b] = "refused" /\ pc'[b] \in {"retry", "failing"}
        \/ pc[b] = "failing" /\ pc'[b] = "done"
    BY <1>5
    DEF Typed, MarkSending, Send, SaveOutcome, SaveFails, UpdateDeliveryStatus, AfterRaise
  <2>3. Phase(b)' < Phase(b)
    BY <2>2 DEF Phase
  <2>4. QED
    BY <1>1, <1>2, <1>3, <2>1, <2>3, LowerPhase, LeftKept
<1>6. QED
  BY <1>4, <1>5 DEF Deliver

LEMMA WorkStart ==
  ASSUME IInv, Reached, NEW n \in Notifications, StartWorkflow(n), NEW d \in Deliveries
  PROVE  Lowered(d) \/ Left(d)' = Left(d)
<1> USE DEF IInv
<1>1. /\ UNCHANGED <<pc, attempt>> /\ creation[n] = "routed" /\ d[1] \in Notifications
      /\ workflow' = workflow \/ workflow' = [workflow EXCEPT ![n] = "listing"]
  BY DEF StartWorkflow, Deliveries
<1>2. CASE workflow'[d[1]] = workflow[d[1]]
  BY <1>1, <1>2, LeftKept
<1>3. CASE workflow'[d[1]] # workflow[d[1]]
  <2>1. d[1] = n /\ workflow'[n] = "listing"
    BY <1>1, <1>3 DEF Typed
  <2>2. workflow[n] = "none"
    BY <1>1, <2>1 DEF Reached
  <2>3. Stage(d[1])' < Stage(d[1])
    BY <2>1, <2>2 DEF Stage
  <2>4. QED
    BY <2>3, LowerStage
<1>4. QED
  BY <1>2, <1>3

LEMMA WorkList ==
  ASSUME IInv, NEW n \in Notifications, ListPending(n), NEW d \in Deliveries
  PROVE  IF d[1] = n THEN Lowered(d) ELSE Left(d)' = Left(d)
<1> USE DEF IInv
<1>1. /\ workflow[n] = "listing" /\ workflow' = [workflow EXCEPT ![n] = "listed"]
      /\ UNCHANGED attempt
      /\ d[1] # n => pc'[d] = pc[d]
  BY DEF ListPending
<1>2. d[1] \in Notifications
  BY DEF Deliveries
<1>3. CASE d[1] = n
  <2>1. Stage(n) = 1 /\ Stage(n)' = 0
    BY <1>1, <1>2 DEF Typed, Stage
  <2>2. Stage(d[1])' < Stage(d[1])
    BY <1>3, <2>1
  <2>3. QED
    BY <1>3, <2>2, LowerStage
<1>4. CASE d[1] # n
  BY <1>1, <1>2, <1>4, LeftKept DEF Typed
<1>5. QED
  BY <1>3, <1>4

LEMMA WorkInterrupt ==
  ASSUME IInv, NEW ds \in SUBSET Deliveries, Interrupt(ds), NEW d \in Deliveries
  PROVE  IF d \in ds THEN Lowered(d) ELSE Left(d)' = Left(d)
<1> USE DEF IInv
<1>1. /\ UNCHANGED <<workflow, attempt>>
      /\ d \in ds => pc[d] \in {"marking", "sending", "accepted", "refused"}
      /\ d \in ds => pc'[d] \in {"retry", "failing"}
      /\ d \notin ds => pc'[d] = pc[d]
  BY DEF Interrupt, Active, AfterRaise
<1>2. CASE d \in ds
  <2>1. Phase(d)' < Phase(d) /\ Stage(d[1])' = Stage(d[1])
    BY <1>1, <1>2 DEF Phase, Stage
  <2>2. QED
    BY <1>1, <1>2, <2>1, LowerPhase
<1>3. CASE d \notin ds
  BY <1>1, <1>3, LeftKept
<1>4. QED
  BY <1>2, <1>3

LEMMA WorkTimeOut ==
  ASSUME IInv, NEW b \in Deliveries, TimeOut(b), NEW d \in Deliveries
  PROVE  IF d = b THEN Lowered(d) ELSE Left(d)' = Left(d)
<1> USE DEF IInv
<1>1. /\ UNCHANGED <<workflow, attempt>>
      /\ pc[b] \in {"marking", "sending", "accepted", "refused"}
      /\ pc'[b] \in {"retry", "failing"}
      /\ d # b => pc'[d] = pc[d]
  BY DEF Typed, TimeOut, Active, AfterRaise
<1>2. CASE d = b
  <2>1. Phase(d)' < Phase(d) /\ Stage(d[1])' = Stage(d[1])
    BY <1>1, <1>2 DEF Phase, Stage
  <2>2. QED
    BY <1>1, <1>2, <2>1, LowerPhase
<1>3. CASE d # b
  BY <1>1, <1>3, LeftKept
<1>4. QED
  BY <1>2, <1>3

\* NotificationDeliveryWorkflow: a workflow that has listed has ended, is stuck on a
\* delivery deleted under it, or has a delivery at which it or an attempt goes on; and no
\* step, a crash or a deletion among them, takes a delivery further from its end, while
\* each at a delivery brings it nearer in an order that has no infinite descent.
THEOREM DeliveriesRunDown ==
  Spec => /\ [](\A d \in Deliveries : Left(d) \in Nat \X Nat \X Nat)
          /\ [](\A n \in Notifications :
                  workflow[n] = "listed" =>
                    Ended(n) \/ \E c \in Channels : Stuck(<<n, c>>) \/ Ready(<<n, c>>))
          /\ [][RunsDown]_vars
<1>1. IInv => \A d \in Deliveries : Left(d) \in Nat \X Nat \X Nat
  BY LeftParts
<1>2. IInv => \A n \in Notifications :
                workflow[n] = "listed" =>
                  Ended(n) \/ \E c \in Channels : Stuck(<<n, c>>) \/ Ready(<<n, c>>)
  <2> SUFFICES ASSUME IInv, NEW n \in Notifications, workflow[n] = "listed", ~Ended(n)
               PROVE  \E c \in Channels : Stuck(<<n, c>>) \/ Ready(<<n, c>>)
    OBVIOUS
  <2>1. PICK c \in Channels : pc[<<n, c>>] \notin {"unlisted", "done"}
    BY DEF Ended
  <2>2. \A e \in Channels :
          pc[<<n, e>>] \in {"marking", "sending", "accepted", "refused", "unlisted", "listed",
                            "retry", "failing", "done"}
    BY DEF IInv, Typed, Deliveries
  <2>3. CASE \E e \in Channels : pc[<<n, e>>] \notin {"unlisted", "listed", "done"}
    BY <2>2, <2>3 DEF Ready, Stuck, Due
  <2>4. CASE \A e \in Channels : pc[<<n, e>>] \in {"unlisted", "listed", "done"}
    <3>1. Free(n) /\ pc[<<n, c>>] = "listed" /\ <<n, c>>[1] = n
      BY <2>1, <2>4 DEF Free
    <3>2. QED
      BY <3>1 DEF Ready, Due
  <2>5. QED
    BY <2>3, <2>4
<1>3. ASSUME IInv, Reached, [Next]_vars
      PROVE  [RunsDown]_vars
  <2> SUFFICES ASSUME NEW d \in Deliveries, Next
               PROVE  (Goes(d) => Lowered(d)) /\ (Lowered(d) \/ Left(d)' = Left(d))
    BY <1>3 DEF RunsDown
  <2>1. Goes(d) => Lowered(d)
    <3>1. d[1] \in Notifications
      BY DEF Deliveries
    <3>2. QED
      BY <1>3, <3>1, WorkDeliver, WorkList, WorkInterrupt, WorkTimeOut DEF Goes
  <2>2. ASSUME NEW n \in Notifications,
               Create(n) \/ Commit(n) \/ Rollback(n) \/ WindowPasses(n)
        PROVE  Left(d)' = Left(d)
    <3>1. UNCHANGED <<workflow, pc, attempt>>
      BY <2>2 DEF Create, Commit, Rollback, WindowPasses
    <3>2. QED
      BY <1>3, <3>1, LeftKept
  <2>3. ASSUME \/ \E c \in Channels : DeleteChannel(c)
               \/ \E l \in late : LateStep(l)
        PROVE  Left(d)' = Left(d)
    <3>1. UNCHANGED <<workflow, pc, attempt>>
      BY <2>3 DEF DeleteChannel, LateStep
    <3>2. QED
      BY <1>3, <3>1, LeftKept
  <2>4. ASSUME NEW n \in Notifications, NEW c \in Channels, Deliver(<<n, c>>)
        PROVE  Lowered(d) \/ Left(d)' = Left(d)
    <3>1. <<n, c>> \in Deliveries
      BY DEF Deliveries
    <3>2. QED
      BY <1>3, <2>4, <3>1, WorkDeliver
  <2>5. Lowered(d) \/ Left(d)' = Left(d)
    BY <1>3, <2>2, <2>3, <2>4, WorkStart, WorkList, WorkDeliver, WorkInterrupt,
       WorkTimeOut
    DEF Next, Advance
  <2>6. QED
    BY <2>1, <2>5
<1>4. Init => Reached
  BY DEF Init, Reached, Deliveries
<1>5. QED
  BY <1>1, <1>2, <1>3, <1>4, ReachedStep, Invariant, PTL DEF Spec
=============================================================================
