------------------------ MODULE ReceiverPipelineProofs ------------------------
(***************************************************************************)
(* Proofs about ReceiverPipeline for any number of events, attempts and    *)
(* faults and any limits: the type invariant, with the bound on the        *)
(* attempts of an admission; what deduplication promises, to investigate   *)
(* an alert once in its window and suppress only what is covered by a live *)
(* event; the limit on executions; the outcomes of admissions; and that an *)
(* admission is never left with nothing to wait for, nor taken back.       *)
(***************************************************************************)
EXTENDS ReceiverPipeline, TLAPS, FiniteSetTheorems, WellFoundedInduction

Bound == MaxAttempts + MaxFaults + 1
Creating == {"refusing", "creating", "linking"}

-----------------------------------------------------------------------------
(* The inductive invariant. *)

\* An event not received yet, and one that reports a resolution.
Arrivals ==
  \A e \in Events :
    /\ e > arrived =>
         kind[e] = "none" /\ row[e] = "absent" /\ workflow[e] = "none" /\ under[e] = {}
    /\ e <= arrived => kind[e] # "none"
    /\ kind[e] = "resolved" => workflow[e] = "none" /\ row[e] \in {"resolved", "failed"}
    /\ row[e] = "open" => workflow[e] = "none"
    /\ workflow[e] = "none" => tries[e] = 0
    /\ child[e] # 0 => workflow[e] \in {"child", "dispatched", "failed"}

\* Of the attempts of an admission only the current one is under way, unless
\* Temporal has given it up.
Attempted ==
  \A r \in Attempts :
    /\ r[2] > tries[r[1]] => pc[r] = "none" /\ r \notin lost
    /\ pc[r] = "deciding" /\ r \notin lost => r[2] = tries[r[1]] /\ workflow[r[1]] = "gate"
    /\ pc[r] \in Creating /\ r \notin lost => r[2] = tries[r[1]] /\ workflow[r[1]] = "create"

\* The gate is tried MaxAttempts times at most; after it, each attempt but the
\* first follows one that was given up.
Counted ==
  \A e \in Events :
    /\ workflow[e] = "gate" => tries[e] <= MaxAttempts
    /\ workflow[e] = "create" =>
         /\ tries[e] > 0 /\ tries[e] <= MaxAttempts + faults + 1
         /\ Current(e) \in lost => tries[e] <= MaxAttempts + faults
         /\ Current(e) \notin lost /\ pc[Current(e)] \notin Creating =>
              deleted \/ tries[e] <= MaxAttempts

\* The row of an investigated event says so until a later event resolves it,
\* unless a given-up attempt wrote over it.
Investigated ==
  \A d \in Events :
    child[d] # 0 /\ ~Overlapped(d) =>
      row[d] = "started" \/ (row[d] = "resolved" /\ ResolvedSince(d))

\* What was under investigation when an event passed the deduplication had been
\* written over.
Passed ==
  \A e \in Events :
    row[e] \in Uncommitted \/ workflow[e] # "none" => \A d \in under[e] : Overlapped(d)

IInv == TypeOK /\ Arrivals /\ Attempted /\ Counted /\ Investigated /\ Passed

-----------------------------------------------------------------------------
(* Attempts and the newest of a set of events. *)

LEMMA BoundType == Bound \in Nat /\ MaxAttempts + 1 <= Bound
  BY BoundsAssumption DEF Bound

LEMMA AttemptParts ==
  /\ \A r \in Attempts : r[1] \in Events /\ r[2] \in 1..Bound /\ r = <<r[1], r[2]>>
  /\ \A e \in Events, k \in 1..Bound :
       <<e, k>> \in Attempts /\ <<e, k>>[1] = e /\ <<e, k>>[2] = k
BY DEF Attempts, Bound

LEMMA EventsType == Events \subseteq Nat /\ \A e \in Events : e <= MaxEvents
  BY BoundsAssumption DEF Events

LEMMA Newest ==
  ASSUME NEW S \in SUBSET Events, S # {}
  PROVE  Max(S) \in S /\ \A x \in S : x <= Max(S)
<1> DEFINE depth(x) == MaxEvents - x
           T == {depth(x) : x \in S}
<1>1. \A x \in S : x \in Nat /\ depth(x) \in Nat
  BY EventsType, BoundsAssumption
<1>2. T \subseteq Nat /\ T # {}
  BY <1>1
<1>3. PICK y \in T : \A z \in T : <<z, y>> \notin OpToRel(<, Nat)
  <2> HIDE DEF T
  <2>1. QED
    BY <1>2, WFMin, NatLessThanWellFounded, Zenon
<1>4. \A z \in T : z \in Nat /\ y \in Nat
  BY <1>2
<1>5. \A z \in T : ~(z < y)
  <2> HIDE DEF T
  <2>1. QED
    BY <1>3, <1>4, Zenon DEF OpToRel
<1>6. PICK m \in S : y = depth(m)
  OBVIOUS
<1>7. \A x \in S : m >= x
  <2> SUFFICES ASSUME NEW x \in S PROVE m >= x
    OBVIOUS
  <2>1. ~(depth(x) < depth(m))
    BY <1>5, <1>6
  <2>2. QED
    BY <1>1, <2>1, BoundsAssumption
<1>8. Max(S) \in S /\ \A x \in S : Max(S) >= x
  BY <1>7 DEF Max
<1>9. QED
  BY <1>1, <1>8

\* The next attempt of e is a new one, the others are as they were.
LEMMA NextAttemptNew ==
  ASSUME TypeOK, NEW e \in Events, tries[e] < Bound, NEW p, NextAttempt(e, p)
  PROVE  LET n == <<e, tries[e] + 1>> IN
         /\ n \in Attempts /\ n[1] = e /\ n[2] = tries[e] + 1
         /\ pc' = [pc EXCEPT ![n] = p] /\ pc'[n] = p
         /\ \A r \in Attempts : r # n => pc'[r] = pc[r]
         /\ \A r \in Attempts : r[1] = e /\ r[2] = tries[e] + 1 => r = n
         /\ tries' = [tries EXCEPT ![e] = tries[e] + 1] /\ tries'[e] = tries[e] + 1
         /\ \A d \in Events : d # e => tries'[d] = tries[d]
         /\ tries[e] \in 0..Bound
<1> DEFINE n == <<e, tries[e] + 1>>
<1>1. tries[e] \in 0..Bound /\ tries \in [Events -> 0..Bound]
  BY DEF TypeOK, Bound
<1>2. n \in Attempts /\ n[1] = e /\ n[2] = tries[e] + 1
  BY <1>1, AttemptParts, BoundType
<1>3. \A r \in Attempts : r[1] = e /\ r[2] = tries[e] + 1 => r = n
  BY AttemptParts
<1>4. pc' = [pc EXCEPT ![n] = p] /\ DOMAIN pc = Attempts
  BY DEF NextAttempt, TypeOK
<1>5. tries' = [tries EXCEPT ![e] = tries[e] + 1]
  BY DEF NextAttempt
<1> HIDE DEF n
<1>6. pc'[n] = p /\ \A r \in Attempts : r # n => pc'[r] = pc[r]
  BY <1>2, <1>4
<1>7. tries'[e] = tries[e] + 1 /\ \A d \in Events : d # e => tries'[d] = tries[d]
  BY <1>1, <1>5
<1>8. QED
  BY <1>1, <1>2, <1>3, <1>4, <1>5, <1>6, <1>7 DEF n

LEMMA InitInv == Init => IInv
<1> SUFFICES ASSUME Init PROVE IInv
  OBVIOUS
<1>1. TypeOK
  <2>1. arrived = 0 /\ faults = 0 /\ deleted \in BOOLEAN
    BY DEF Init
  <2>2. /\ kind \in [Events -> {"none"}] /\ row \in [Events -> {"absent"}]
        /\ related \in [Events -> {0}] /\ linked \in [Events -> {0}]
        /\ workflow \in [Events -> {"none"}] /\ tries \in [Events -> {0}]
        /\ child \in [Events -> {0}] /\ under \in [Events -> {{}}]
    BY DEF Init
  <2>3. pc \in [Attempts -> {"none"}] /\ execution \in [Attempts -> {"absent"}]
    BY DEF Init
  <2>4. lost = {} /\ raced = {} /\ early = {} /\ hasty = {}
    BY DEF Init
  <2>5. 0 \in 0..MaxEvents /\ 0 \in 0..MaxFaults /\ 0 \in 0..Bound
    BY BoundsAssumption, BoundType
  <2>6. QED
    <3>1. /\ kind \in [Events -> {"none", "firing", "resolved"}]
          /\ row \in [Events -> {"absent", "rolled back"} \cup Uncommitted \cup Dispositions]
          /\ workflow \in [Events -> Workflows] /\ under \in [Events -> SUBSET Events]
      BY <2>2 DEF Workflows
    <3>2. /\ related \in [Events -> 0..MaxEvents] /\ linked \in [Events -> 0..Bound]
          /\ tries \in [Events -> 0..Bound] /\ child \in [Events -> 0..Bound]
      BY <2>2, <2>5
    <3>3. /\ pc \in [Attempts -> {"none", "deciding", "refusing", "creating", "linking", "over"}]
          /\ execution \in [Attempts -> {"absent", "queued", "running", "ended"}]
      BY <2>3
    <3>4. /\ lost \in SUBSET Attempts /\ raced \subseteq Events /\ early \subseteq Events
          /\ hasty \subseteq Events
      BY <2>4
    <3>5. QED
      BY <2>1, <2>5, <3>1, <3>2, <3>3, <3>4 DEF TypeOK, Bound
<1>2. Arrivals
  BY DEF Init, Arrivals, Events
<1>3. Attempted
  BY AttemptParts DEF Init, Attempted, Creating
<1>4. Counted /\ Investigated /\ Passed
  BY DEF Init, Counted, Investigated, Passed, Uncommitted
<1>5. QED
  BY <1>1, <1>2, <1>3, <1>4 DEF IInv

-----------------------------------------------------------------------------
(* ingest_event. *)

RowStates == {"absent", "rolled back"} \cup Uncommitted \cup Dispositions

\* Steps that leave the attempts alone.
LEMMA AttemptsAlone ==
  ASSUME IInv, UNCHANGED <<tries, pc, lost>>,
         \A e \in Events : workflow'[e] = workflow[e] \/ workflow[e] = "none"
  PROVE  Attempted'
<1>1. ASSUME NEW r \in Attempts
      PROVE  /\ r[1] \in Events /\ r[2] \in Nat \ {0}
             /\ workflow[r[1]] = "none" => tries[r[1]] = 0
  BY AttemptParts, BoundType DEF IInv, Arrivals
<1>2. QED
  BY <1>1 DEF IInv, Attempted

\* An event is received: of the other rows at most one is resolved, by it.
LEMMA ReceiveStep ==
  ASSUME IInv, NEW e \in Events, NEW status \in {"firing", "resolved"}, Receive(e, status),
         row' \in [Events -> RowStates], related' \in [Events -> 0..MaxEvents],
         under' \in [Events -> SUBSET Events], hasty' \subseteq Events,
         row'[e] # "absent", status = "resolved" => row'[e] \in {"resolved", "failed"},
         \A d \in Events : d # e =>
           /\ under'[d] = under[d]
           /\ \/ row'[d] = row[d]
              \/ status = "resolved" /\ row'[e] = "resolved"
                 /\ kind[d] = "firing" /\ row'[d] = "resolved",
         row'[e] \in Uncommitted => \A d \in under'[e] : Overlapped(d)
  PROVE  IInv'
<1>1. /\ e = arrived + 1 /\ arrived' = e /\ kind' = [kind EXCEPT ![e] = status]
      /\ UNCHANGED <<linked, deleted, workflow, tries, pc, lost, execution, child, faults,
                     raced, early>>
  BY DEF Receive, admissionVars
<1>2. arrived \in Nat /\ e \in Nat /\ e > arrived /\ e <= MaxEvents /\ Events \subseteq Nat
  <2>1. arrived \in Nat
    <3>1. arrived \in 0..MaxEvents
      BY DEF IInv, TypeOK
    <3>2. QED
      BY <3>1, BoundsAssumption
  <2>2. e \in Nat /\ e <= MaxEvents /\ Events \subseteq Nat
    BY EventsType
  <2>3. QED
    BY <1>1, <2>1, <2>2
<1>3. workflow[e] = "none" /\ child[e] = 0
  BY <1>2 DEF IInv, Arrivals
<1>4. kind'[e] = status /\ \A d \in Events : d # e => kind'[d] = kind[d]
  BY <1>1 DEF IInv, TypeOK
<1>5. TypeOK'
  <2>1. arrived' \in 0..MaxEvents
    BY <1>1, <1>2, EventsType, BoundsAssumption
  <2>2. kind' \in [Events -> {"none", "firing", "resolved"}]
    BY <1>1 DEF IInv, TypeOK
  <2>3. QED
    BY <1>1, <2>1, <2>2 DEF IInv, TypeOK, RowStates
<1>6. Arrivals'
  <2> SUFFICES ASSUME NEW d \in Events
               PROVE  /\ d > arrived' => /\ kind'[d] = "none" /\ row'[d] = "absent"
                                         /\ workflow'[d] = "none" /\ under'[d] = {}
                      /\ d <= arrived' => kind'[d] # "none"
                      /\ kind'[d] = "resolved" =>
                           workflow'[d] = "none" /\ row'[d] \in {"resolved", "failed"}
                      /\ row'[d] = "open" => workflow'[d] = "none"
                      /\ workflow'[d] = "none" => tries'[d] = 0
                      /\ child'[d] # 0 => workflow'[d] \in {"child", "dispatched", "failed"}
    BY DEF Arrivals
  <2>1. CASE d = e
    BY <1>1, <1>2, <1>3, <1>4, <2>1 DEF IInv, Arrivals
  <2>2. CASE d # e
    <3>1. /\ kind'[d] = kind[d] /\ under'[d] = under[d]
          /\ workflow'[d] = workflow[d] /\ tries'[d] = tries[d] /\ child'[d] = child[d]
      BY <1>1, <1>4, <2>2
    <3>a. d \in Nat
      BY <1>2
    <3>2. d > arrived' => d > arrived
      BY <1>1, <1>2, <3>a
    <3>3. d <= arrived' => d <= arrived
      BY <1>1, <1>2, <2>2, <3>a
    <3>4. row'[d] = row[d] \/ (kind[d] = "firing" /\ row'[d] = "resolved")
      BY <2>2
    <3>5. QED
      BY <3>1, <3>2, <3>3, <3>4 DEF IInv, Arrivals
  <2>3. QED
    BY <2>1, <2>2
<1>7. Attempted'
  BY <1>1, AttemptsAlone
<1>8. Counted'
  BY <1>1 DEF IInv, Counted, Current
<1>9. Investigated'
  <2> SUFFICES ASSUME NEW d \in Events, child'[d] # 0, ~Overlapped(d)'
               PROVE  row'[d] = "started" \/ (row'[d] = "resolved" /\ ResolvedSince(d)')
    BY DEF Investigated
  <2>1. d # e /\ child[d] # 0 /\ ~Overlapped(d) /\ d \in Nat
    BY <1>1, <1>2, <1>3 DEF Overlapped
  <2>2. d <= arrived
    BY <1>2, <2>1 DEF IInv, Arrivals
  <2>3. CASE row'[d] = row[d]
    <3>1. CASE row[d] = "started"
      BY <2>3, <3>1
    <3>2. CASE row[d] = "resolved" /\ ResolvedSince(d)
      <4>1. PICK x \in (d + 1)..arrived : kind[x] = "resolved" /\ row[x] = "resolved"
        BY <3>2 DEF ResolvedSince
      <4>2. x \in Events /\ x # e /\ x \in (d + 1)..arrived'
        <5>1. d \in 1..MaxEvents /\ MaxEvents \in Nat
          BY <2>1, BoundsAssumption DEF Events
        <5>2. x \in 1..MaxEvents /\ x # e /\ x \in (d + 1)..arrived'
          BY <1>1, <1>2, <4>1, <5>1
        <5>3. QED
          BY <5>2 DEF Events
      <4>3. kind'[x] = "resolved" /\ row'[x] = "resolved"
        BY <1>4, <4>1, <4>2
      <4>4. QED
        BY <2>3, <3>2, <4>2, <4>3 DEF ResolvedSince
    <3>3. QED
      BY <2>1, <3>1, <3>2 DEF IInv, Investigated
  <2>4. CASE row'[d] # row[d]
    <3>1. row'[d] = "resolved" /\ status = "resolved" /\ row'[e] = "resolved"
      BY <2>1, <2>4
    <3>2. e \in (d + 1)..arrived'
      BY <1>1, <1>2, <2>1, <2>2
    <3>3. QED
      BY <1>4, <3>1, <3>2 DEF ResolvedSince
  <2>5. QED
    BY <2>3, <2>4
<1>10. Passed'
  <2> SUFFICES ASSUME NEW d \in Events, row'[d] \in Uncommitted \/ workflow'[d] # "none"
               PROVE  \A x \in under'[d] : Overlapped(x)'
    BY DEF Passed
  <2>1. \A x : Overlapped(x)' <=> Overlapped(x)
    BY <1>1 DEF Overlapped
  <2>2. CASE d = e
    BY <1>1, <1>3, <2>1, <2>2
  <2>3. CASE d # e
    <3>1. row'[d] \in Uncommitted => row[d] \in Uncommitted
      BY <2>3 DEF Uncommitted
    <3>2. QED
      BY <1>1, <2>1, <2>3, <3>1 DEF IInv, Passed
  <2>4. QED
    BY <2>2, <2>3
<1>11. QED
  BY <1>5, <1>6, <1>7, <1>8, <1>9, <1>10 DEF IInv

LEMMA SkipStep ==
  ASSUME IInv, NEW e \in Events, Skip(e)
  PROVE  IInv'
<1>1. PICK status \in {"firing", "resolved"} : Receive(e, status)
  BY DEF Skip, Kinds
<1>2. /\ row' = [row EXCEPT ![e] = "failed"] /\ related' = related /\ under' = under
      /\ hasty' = hasty
  BY DEF Skip, Kinds
<1>3. /\ row' \in [Events -> RowStates] /\ row'[e] = "failed"
      /\ \A d \in Events : d # e => row'[d] = row[d]
  BY <1>2 DEF IInv, TypeOK, RowStates, Dispositions
<1>4. related' \in [Events -> 0..MaxEvents] /\ under' \in [Events -> SUBSET Events]
      /\ hasty' \subseteq Events
  BY <1>2 DEF IInv, TypeOK
<1>5. row'[e] \notin Uncommitted
  BY <1>3 DEF Uncommitted
<1>6. QED
  BY <1>1, <1>2, <1>3, <1>4, <1>5, ReceiveStep

LEMMA IngestResolvedStep ==
  ASSUME IInv, NEW e \in Events, IngestResolved(e)
  PROVE  IInv'
<1>1. Receive(e, "resolved") /\ related' = related /\ under' = under
  BY DEF IngestResolved
<1>2. related' \in [Events -> 0..MaxEvents] /\ under' \in [Events -> SUBSET Events]
  BY <1>1 DEF IInv, TypeOK
<1>3. CASE Resolvable(e) = {}
  <2>1. row' = [row EXCEPT ![e] = "resolved"] /\ hasty' = hasty
    BY <1>3 DEF IngestResolved
  <2>2. /\ row' \in [Events -> RowStates] /\ row'[e] = "resolved" /\ hasty' \subseteq Events
        /\ \A d \in Events : d # e => row'[d] = row[d]
    BY <2>1 DEF IInv, TypeOK, RowStates, Dispositions
  <2>3. row'[e] \notin Uncommitted
    BY <2>2 DEF Uncommitted
  <2>4. QED
    BY <1>1, <1>2, <2>2, <2>3, ReceiveStep
<1>4. CASE Resolvable(e) # {}
  <2> DEFINE d == Max(Resolvable(e))
  <2>1. Resolvable(e) \subseteq Events
    BY EventsType, BoundsAssumption DEF Resolvable, Events
  <2>2. d \in Resolvable(e)
    BY <1>4, <2>1, Newest
  <2>3. d \in Events /\ kind[d] = "firing"
    BY <2>1, <2>2 DEF Resolvable
  <2>4. row' = [row EXCEPT ![e] = "resolved", ![d] = "resolved"]
        /\ (hasty' = hasty \cup {d} \/ hasty' = hasty)
    BY <1>4 DEF IngestResolved
  <2> HIDE DEF d
  <2>5. /\ row' \in [Events -> RowStates] /\ row'[e] = "resolved" /\ hasty' \subseteq Events
        /\ \A x \in Events : x # e => row'[x] = row[x]
                                     \/ (kind[x] = "firing" /\ row'[x] = "resolved")
    BY <2>3, <2>4 DEF IInv, TypeOK, RowStates, Dispositions
  <2>6. row'[e] \notin Uncommitted
    BY <2>5 DEF Uncommitted
  <2>7. QED
    BY <1>1, <1>2, <2>5, <2>6, ReceiveStep
<1>5. QED
  BY <1>3, <1>4

LEMMA IngestFiringStep ==
  ASSUME IInv, NEW e \in Events, IngestFiring(e)
  PROVE  IInv'
<1>1. Receive(e, "firing") /\ hasty' = hasty
  BY DEF IngestFiring
<1>2. PICK oldest \in 1..e :
        LET window == oldest..(e - 1) IN
        /\ under' = [under EXCEPT ![e] = UnderInvestigation(window)]
        /\ \/ Duplicates(window) # {} /\ SuppressDuplicate(e, Duplicates(window))
           \/ /\ Duplicates(window) = {}
              /\ \/ row' = [row EXCEPT ![e] = "attached"]
                 \/ row' = [row EXCEPT ![e] = "open"]
              /\ UNCHANGED related
  BY DEF IngestFiring
<1> DEFINE window == oldest..(e - 1)
<1>3. window \subseteq Events
  BY EventsType, BoundsAssumption DEF Events
<1>4. Duplicates(window) \subseteq Events /\ UnderInvestigation(window) \subseteq Events
  BY <1>3 DEF Duplicates, UnderInvestigation
<1>5. ASSUME Duplicates(window) = {}, NEW d \in UnderInvestigation(window)
      PROVE  Overlapped(d)
  <2>1. d \in window /\ d \in Events /\ child[d] # 0 /\ ~ResolvedSince(d)
    BY <1>3, <1>5 DEF UnderInvestigation
  <2>2. row[d] # "started"
    BY <1>5, <2>1 DEF Duplicates, ActiveDispositions
  <2>3. QED
    BY <2>1, <2>2 DEF IInv, Investigated
<1> HIDE DEF window
<1>6. /\ under' \in [Events -> SUBSET Events] /\ under'[e] = UnderInvestigation(window)
      /\ \A d \in Events : d # e => under'[d] = under[d]
  BY <1>2, <1>4 DEF IInv, TypeOK, window
<1>7. hasty' \subseteq Events
  BY <1>1 DEF IInv, TypeOK
<1>8. CASE Duplicates(window) # {} /\ SuppressDuplicate(e, Duplicates(window))
  <2>1. Max(Duplicates(window)) \in 0..MaxEvents
    <3>1. Max(Duplicates(window)) \in Events
      BY <1>4, <1>8, Newest
    <3>2. QED
      BY <3>1 DEF Events
  <2>2. related' \in [Events -> 0..MaxEvents]
    BY <1>8, <2>1 DEF SuppressDuplicate, IInv, TypeOK
  <2>3. /\ row' \in [Events -> RowStates] /\ row'[e] = "suppressed"
        /\ \A d \in Events : d # e => row'[d] = row[d]
    BY <1>8 DEF SuppressDuplicate, IInv, TypeOK, RowStates, Dispositions
  <2>4. row'[e] \notin Uncommitted
    BY <2>3 DEF Uncommitted
  <2>5. QED
    BY <1>1, <1>6, <1>7, <2>2, <2>3, <2>4, ReceiveStep
<1>9. CASE /\ Duplicates(window) = {} /\ UNCHANGED related
           /\ \/ row' = [row EXCEPT ![e] = "attached"]
              \/ row' = [row EXCEPT ![e] = "open"]
  <2>1. related' \in [Events -> 0..MaxEvents]
    BY <1>9 DEF IInv, TypeOK
  <2>2. /\ row' \in [Events -> RowStates] /\ row'[e] # "absent"
        /\ \A d \in Events : d # e => row'[d] = row[d]
    BY <1>9 DEF IInv, TypeOK, RowStates, Dispositions, Uncommitted
  <2>3. \A d \in under'[e] : Overlapped(d)
    BY <1>5, <1>6, <1>9
  <2>4. QED
    BY <1>1, <1>6, <1>7, <2>1, <2>2, <2>3, ReceiveStep
<1>10. QED
  BY <1>2, <1>8, <1>9 DEF window

-----------------------------------------------------------------------------
(* The transaction ends, or the receiver is deleted. *)

\* The row of an event that is not committed yet changes, and its workflow may
\* be started.
LEMMA TransactionStep ==
  ASSUME IInv, NEW e \in Events, row[e] \in Uncommitted, NEW v \in RowStates \ {"open", "absent"},
         row' = [row EXCEPT ![e] = v],
         NEW w, workflow' = [workflow EXCEPT ![e] = w],
         w = workflow[e] \/ (row[e] = "open" /\ w = "gate"),
         faults' \in faults .. MaxFaults,
         UNCHANGED <<eventVars, linked, deleted, tries, pc, lost, execution, child, raced,
                     early, hasty>>
  PROVE  IInv'
<1>1. /\ row'[e] = v /\ workflow'[e] = w
      /\ \A d \in Events : d # e => row'[d] = row[d] /\ workflow'[d] = workflow[d]
  BY DEF IInv, TypeOK
<1>2. UNCHANGED <<arrived, kind, related, under>>
  BY DEF eventVars
<1>3. faults \in Nat /\ faults' \in 0..MaxFaults /\ faults <= faults' /\ faults' \in Nat
  <2>1. faults \in 0..MaxFaults
    BY DEF IInv, TypeOK
  <2>2. QED
    BY <2>1, BoundsAssumption
<1>4. kind[e] # "resolved" /\ e <= arrived
  <2>1. row[e] \notin {"resolved", "failed", "absent"}
    BY DEF Uncommitted
  <2>2. e \in Nat /\ arrived \in Nat
    <3>1. arrived \in 0..MaxEvents
      BY DEF IInv, TypeOK
    <3>2. QED
      BY <3>1, EventsType, BoundsAssumption
  <2>3. QED
    BY <2>1, <2>2 DEF IInv, Arrivals
<1>5. TypeOK'
  <2>1. row' \in [Events -> RowStates] /\ workflow' \in [Events -> Workflows]
    BY DEF IInv, TypeOK, RowStates, Workflows
  <2>2. QED
    BY <1>2, <1>3, <2>1 DEF IInv, TypeOK, RowStates
<1>6. Arrivals'
  <2> SUFFICES ASSUME NEW d \in Events
               PROVE  /\ d > arrived' => /\ kind'[d] = "none" /\ row'[d] = "absent"
                                         /\ workflow'[d] = "none" /\ under'[d] = {}
                      /\ d <= arrived' => kind'[d] # "none"
                      /\ kind'[d] = "resolved" =>
                           workflow'[d] = "none" /\ row'[d] \in {"resolved", "failed"}
                      /\ row'[d] = "open" => workflow'[d] = "none"
                      /\ workflow'[d] = "none" => tries'[d] = 0
                      /\ child'[d] # 0 => workflow'[d] \in {"child", "dispatched", "failed"}
    BY DEF Arrivals
  <2>1. CASE d = e
    <3>1. ~(e > arrived)
      <4>1. arrived \in 0..MaxEvents
        BY DEF IInv, TypeOK
      <4>2. QED
        BY <1>4, <4>1, EventsType, BoundsAssumption
    <3>2. QED
      BY <1>1, <1>2, <1>4, <2>1, <3>1 DEF IInv, Arrivals
  <2>2. CASE d # e
    BY <1>1, <1>2, <2>2 DEF IInv, Arrivals
  <2>3. QED
    BY <2>1, <2>2
<1>7. Attempted'
  <2>1. \A d \in Events : workflow'[d] = workflow[d] \/ workflow[d] = "none"
    BY <1>1 DEF IInv, Arrivals
  <2>2. QED
    BY <2>1, AttemptsAlone
<1>8. Counted'
  <2> SUFFICES ASSUME NEW d \in Events
               PROVE  /\ workflow'[d] = "gate" => tries'[d] <= MaxAttempts
                      /\ workflow'[d] = "create" =>
                           /\ tries'[d] > 0 /\ tries'[d] <= MaxAttempts + faults' + 1
                           /\ Current(d)' \in lost' => tries'[d] <= MaxAttempts + faults'
                           /\ Current(d)' \notin lost' /\ pc'[Current(d)'] \notin Creating =>
                                deleted' \/ tries'[d] <= MaxAttempts
    BY DEF Counted
  <2>1. CASE workflow'[d] = workflow[d]
    <3>1. tries[d] \in 0..Bound /\ Bound \in Nat
      BY BoundType DEF IInv, TypeOK, Bound
    <3>2. Current(d)' = Current(d) /\ tries'[d] = tries[d] /\ pc' = pc /\ lost' = lost
          /\ deleted' = deleted
      BY DEF Current
    <3>3. QED
      BY <1>3, <2>1, <3>1, <3>2, BoundsAssumption DEF IInv, Counted
  <2>2. CASE workflow'[d] # workflow[d]
    <3>1. d = e /\ w = "gate" /\ tries[d] = 0
      BY <1>1, <2>2 DEF IInv, Arrivals
    <3>2. QED
      BY <1>1, <3>1, BoundsAssumption
  <2>3. QED
    BY <2>1, <2>2
<1>9. Investigated'
  <2> SUFFICES ASSUME NEW d \in Events, child'[d] # 0, ~Overlapped(d)'
               PROVE  row'[d] = "started" \/ (row'[d] = "resolved" /\ ResolvedSince(d)')
    BY DEF Investigated
  <2>1. row[d] = "started" \/ (row[d] = "resolved" /\ ResolvedSince(d))
    BY DEF IInv, Investigated, Overlapped
  <2>2. row'[d] = row[d]
    BY <1>1, <2>1 DEF Uncommitted
  <2>3. ASSUME ResolvedSince(d) PROVE ResolvedSince(d)'
    <3>1. PICK x \in (d + 1)..arrived : kind[x] = "resolved" /\ row[x] = "resolved"
      BY <2>3 DEF ResolvedSince
    <3>2. row'[x] = row[x]
      BY <3>1 DEF Uncommitted
    <3>3. QED
      BY <1>2, <3>1, <3>2 DEF ResolvedSince
  <2>4. QED
    BY <2>1, <2>2, <2>3
<1>10. Passed'
  <2>1. \A x : Overlapped(x)' <=> Overlapped(x)
    BY DEF Overlapped
  <2>2. \A d \in Events : row'[d] \in Uncommitted \/ workflow'[d] # "none" =>
                           row[d] \in Uncommitted \/ workflow[d] # "none"
    BY <1>1
  <2>3. QED
    BY <1>2, <2>1, <2>2 DEF IInv, Passed
<1>11. QED
  BY <1>5, <1>6, <1>7, <1>8, <1>9, <1>10 DEF IInv

LEMMA FaultRange ==
  ASSUME IInv
  PROVE  /\ faults \in faults .. MaxFaults
         /\ Fault => faults' \in faults .. MaxFaults
<1>1. faults \in 0..MaxFaults
  BY DEF IInv, TypeOK
<1>2. QED
  BY <1>1, BoundsAssumption DEF Fault

LEMMA RequestStep ==
  ASSUME IInv, NEW e \in Events, Dispatch(e) \/ Commit(e) \/ Rollback(e)
  PROVE  IInv'
<1>1. CASE Dispatch(e)
  <2>1. PICK v \in {"dispatched", "undispatched"}, w \in {"none", "gate"} :
          row' = [row EXCEPT ![e] = v] /\ workflow' = [workflow EXCEPT ![e] = w]
    BY <1>1 DEF Dispatch
  <2>2. row[e] = "open" /\ workflow[e] = "none" /\ row[e] \in Uncommitted
    BY <1>1 DEF Dispatch, IInv, Arrivals, Uncommitted
  <2>3. v \in RowStates \ {"open", "absent"}
    BY DEF RowStates, Uncommitted
  <2>4. faults' \in faults .. MaxFaults
    BY <1>1, FaultRange DEF Dispatch
  <2>5. UNCHANGED <<eventVars, linked, deleted, tries, pc, lost, execution, child, raced,
                    early, hasty>>
    BY <1>1 DEF Dispatch
  <2>6. QED
    BY <2>1, <2>2, <2>3, <2>4, <2>5, TransactionStep
<1>2. CASE Commit(e) \/ Rollback(e)
  <2>1. PICK v \in {"correlated", "failed", "rolled back"} : row' = [row EXCEPT ![e] = v]
    BY <1>2 DEF Commit, Rollback
  <2>2. row[e] \in Uncommitted
    BY <1>2 DEF Commit, Rollback, Uncommitted
  <2>3. v \in RowStates \ {"open", "absent"}
    BY DEF RowStates, Dispositions
  <2>4. faults' \in faults .. MaxFaults
    BY <1>2, FaultRange DEF Commit, Rollback
  <2>5. UNCHANGED <<eventVars, linked, deleted, tries, pc, lost, execution, child, raced,
                    early, hasty, workflow>>
    BY <1>2 DEF Commit, Rollback, admissionVars
  <2>6. workflow' = [workflow EXCEPT ![e] = workflow[e]]
    BY <2>5 DEF IInv, TypeOK
  <2>7. QED
    BY <2>1, <2>2, <2>3, <2>4, <2>5, <2>6, TransactionStep
<1>3. QED
  BY <1>1, <1>2

-----------------------------------------------------------------------------
(* The admission workflow and its attempts. *)

\* The numbers of a state, for the leaves that compare them.
LEMMA Numbers ==
  ASSUME IInv
  PROVE  /\ faults \in Nat /\ faults <= MaxFaults
         /\ \A e \in Events : tries[e] \in Nat /\ tries[e] <= Bound
         /\ MaxAttempts \in Nat \ {0} /\ MaxFaults \in Nat /\ Bound = MaxAttempts + MaxFaults + 1
<1>1. faults \in 0..MaxFaults /\ \A e \in Events : tries[e] \in 0..Bound
  BY DEF IInv, TypeOK, Bound
<1>2. QED
  BY <1>1, BoundsAssumption, BoundType DEF Bound

\* A row is saved only by an attempt of an admission, and either that admission
\* has a given-up attempt or what is saved agrees with its investigation.
LEMMA AdmissionStep ==
  ASSUME IInv, TypeOK', Attempted', Counted', UNCHANGED eventVars, lost \subseteq lost',
         \A d \in Events :
           /\ workflow[d] = "none" <=> workflow'[d] = "none"
           /\ workflow[d] = "none" => tries'[d] = tries[d]
           /\ child'[d] # 0 => workflow'[d] \in {"child", "dispatched", "failed"}
           /\ child'[d] = child[d] \/ row'[d] = "started"
           /\ \/ row'[d] = row[d]
              \/ /\ row'[d] \in Dispositions /\ workflow[d] # "none"
                 /\ Overlapped(d) \/ child'[d] = 0 \/ row'[d] = "started"
  PROVE  IInv'
<1>1. UNCHANGED <<arrived, kind, related, under>>
  BY DEF eventVars
<1>2. Arrivals'
  BY <1>1 DEF IInv, Arrivals, Dispositions
<1>3. \A d : Overlapped(d) => Overlapped(d)'
  BY DEF Overlapped
<1>4. Investigated'
  <2> SUFFICES ASSUME NEW d \in Events, child'[d] # 0, ~Overlapped(d)', row'[d] # "started"
               PROVE  row'[d] = "resolved" /\ ResolvedSince(d)'
    BY DEF Investigated
  <2>1. child[d] # 0 /\ ~Overlapped(d) /\ row'[d] = row[d]
    BY <1>3
  <2>2. row[d] = "resolved" /\ ResolvedSince(d)
    BY <2>1 DEF IInv, Investigated
  <2>3. PICK x \in (d + 1)..arrived : kind[x] = "resolved" /\ row[x] = "resolved"
    BY <2>2 DEF ResolvedSince
  <2>4. x \in Events
    <3>1. arrived \in 0..MaxEvents /\ d \in 1..MaxEvents
      BY DEF IInv, TypeOK, Events
    <3>2. QED
      BY <2>3, <3>1, BoundsAssumption DEF Events
  <2>5. row'[x] = row[x]
    BY <2>3, <2>4 DEF IInv, Arrivals
  <2>6. QED
    BY <1>1, <2>1, <2>2, <2>3, <2>5 DEF ResolvedSince
<1>5. Passed'
  <2>1. \A d \in Events : row'[d] \in Uncommitted => row[d] \in Uncommitted
    BY DEF Uncommitted, Dispositions
  <2>2. QED
    BY <1>1, <1>3, <2>1 DEF IInv, Passed
<1>6. QED
  BY <1>2, <1>4, <1>5 DEF IInv

\* An attempt takes a step; if it ends and is listened to, the workflow goes on,
\* or the receiver is deleted.
LEMMA MoveStep ==
  ASSUME IInv, NEW r \in Attempts, pc[r] = "deciding" \/ pc[r] \in Creating,
         NEW p, p = "over" \/ (p = "linking" /\ pc[r] = "creating" /\ workflow' = workflow),
         pc' = [pc EXCEPT ![r] = p], UNCHANGED <<tries, lost, deleted, faults>>,
         NEW w, w = "create" => pc[r] = "deciding", w \notin {"gate", "none"},
         \/ workflow' = workflow /\ (p = "linking" \/ r \in lost \/ deleted)
         \/ workflow' = [workflow EXCEPT ![r[1]] = w] /\ r \notin lost
  PROVE  Attempted' /\ Counted'
<1>1. r[1] \in Events /\ r[2] \in Nat /\ r[2] > 0 /\ r = <<r[1], r[2]>>
  BY AttemptParts, BoundType
<1>2. pc'[r] = p /\ \A q \in Attempts : q # r => pc'[q] = pc[q]
  BY DEF IInv, TypeOK
<1>3. workflow'[r[1]] \in {workflow[r[1]], w}
      /\ \A d \in Events : d # r[1] => workflow'[d] = workflow[d]
  BY <1>1 DEF IInv, TypeOK
<1>4. r \notin lost => r[2] = tries[r[1]] /\ r = Current(r[1])
      /\ workflow[r[1]] = IF pc[r] = "deciding" THEN "gate" ELSE "create"
  BY <1>1 DEF IInv, Attempted, Current, Creating
<1>5. Attempted'
  <2> SUFFICES ASSUME NEW q \in Attempts
               PROVE  /\ q[2] > tries'[q[1]] => pc'[q] = "none" /\ q \notin lost'
                      /\ pc'[q] = "deciding" /\ q \notin lost' =>
                           q[2] = tries'[q[1]] /\ workflow'[q[1]] = "gate"
                      /\ pc'[q] \in Creating /\ q \notin lost' =>
                           q[2] = tries'[q[1]] /\ workflow'[q[1]] = "create"
    BY DEF Attempted
  <2>1. q[1] \in Events /\ q = <<q[1], q[2]>>
    BY AttemptParts
  <2>2. CASE q = r
    <3>1. ~(r[2] > tries[r[1]])
      BY DEF IInv, Attempted, Creating
    <3>2. CASE p = "over"
      BY <1>2, <2>2, <3>1, <3>2 DEF Creating
    <3>3. CASE p = "linking"
      BY <1>2, <1>4, <2>2, <3>1, <3>3 DEF Creating
    <3>4. QED
      BY <3>2, <3>3
  <2>3. CASE q # r
    <3>1. pc'[q] = pc[q]
      BY <1>2, <2>3
    <3>2. CASE workflow'[q[1]] = workflow[q[1]]
      BY <3>1, <3>2 DEF IInv, Attempted
    <3>3. CASE workflow'[q[1]] # workflow[q[1]]
      <4>1. q[1] = r[1] /\ r \notin lost
        BY <1>3, <2>1, <3>3
      <4>2. q[2] # tries[q[1]]
        BY <1>1, <1>4, <2>1, <2>3, <4>1
      <4>3. QED
        BY <3>1, <4>2 DEF IInv, Attempted
    <3>4. QED
      BY <3>2, <3>3
  <2>4. QED
    BY <2>2, <2>3
<1>6. Counted'
  <2> SUFFICES ASSUME NEW d \in Events
               PROVE  /\ workflow'[d] = "gate" => tries'[d] <= MaxAttempts
                      /\ workflow'[d] = "create" =>
                           /\ tries'[d] > 0 /\ tries'[d] <= MaxAttempts + faults' + 1
                           /\ Current(d)' \in lost' => tries'[d] <= MaxAttempts + faults'
                           /\ Current(d)' \notin lost' /\ pc'[Current(d)'] \notin Creating =>
                                deleted' \/ tries'[d] <= MaxAttempts
    BY DEF Counted
  <2>1. Current(d)' = Current(d) /\ tries'[d] = tries[d] /\ lost' = lost /\ faults' = faults
        /\ deleted' = deleted
    BY DEF Current
  <2>2. CASE workflow'[d] = workflow[d] /\ Current(d) # r
    <3>1. workflow[d] = "create" => Current(d) \in Attempts
      BY Numbers, AttemptParts DEF IInv, Counted, Current
    <3>2. workflow[d] = "create" => pc'[Current(d)] = pc[Current(d)]
      BY <1>2, <2>2, <3>1
    <3>3. QED
      BY <2>1, <2>2, <3>2 DEF IInv, Counted
  <2>3. CASE workflow'[d] = workflow[d] /\ Current(d) = r
    <3>1. d = r[1]
      BY <2>3 DEF Current
    <3>2. r \notin lost /\ pc'[r] \notin Creating /\ workflow[d] = "create" => deleted
      <4> SUFFICES ASSUME r \notin lost, p = "over", workflow[d] = "create" PROVE deleted
        BY <1>2 DEF Creating
      <4>1. pc[r] # "deciding"
        BY <1>4, <3>1
      <4>2. w # "create"
        BY <4>1
      <4>3. workflow' # [workflow EXCEPT ![r[1]] = w]
        BY <1>1, <2>3, <3>1, <4>2 DEF IInv, TypeOK
      <4>4. QED
        BY <4>3, p # "linking"
    <3>3. QED
      BY <2>1, <2>3, <3>1, <3>2 DEF IInv, Counted
  <2>4. CASE workflow'[d] # workflow[d]
    <3>1. d = r[1] /\ workflow'[d] = w /\ r \notin lost
      BY <1>3, <2>4
    <3>2. w = "create" => tries[d] > 0 /\ tries[d] <= MaxAttempts
      BY <1>1, <1>4, <3>1 DEF IInv, Counted
    <3>3. QED
      BY <2>1, <3>1, <3>2, <1>4, Numbers
  <2>5. QED
    BY <2>2, <2>3, <2>4
<1>7. QED
  BY <1>5, <1>6

\* An attempt that may save a row belongs to an admission; if it was not given
\* up, that admission has no investigation yet.
LEMMA Saver ==
  ASSUME IInv, NEW r \in Attempts, pc[r] = "deciding" \/ pc[r] \in Creating
  PROVE  /\ r[1] \in Events /\ r[2] \in 1..Bound
         /\ workflow[r[1]] # "none"
         /\ r \in lost => Overlapped(r[1])
         /\ r \notin lost => workflow[r[1]] \in {"gate", "create"} /\ child[r[1]] = 0
<1>1. r[1] \in Events /\ r[2] \in 1..Bound /\ r[2] \in Nat /\ r[2] > 0
  BY AttemptParts, BoundType
<1>2. workflow[r[1]] # "none"
  <2>1. ~(r[2] > tries[r[1]])
    BY DEF IInv, Attempted, Creating
  <2>2. workflow[r[1]] = "none" => tries[r[1]] = 0
    BY <1>1 DEF IInv, Arrivals
  <2>3. QED
    BY <1>1, <2>1, <2>2
<1>3. r \notin lost => workflow[r[1]] \in {"gate", "create"}
  BY DEF IInv, Attempted
<1>4. r \notin lost => child[r[1]] = 0
  BY <1>1, <1>3 DEF IInv, Arrivals
<1>5. QED
  BY <1>1, <1>2, <1>3, <1>4 DEF Overlapped

\* An attempt saves v, or nothing, and ends, with no investigation begun.
LEMMA SaveStep ==
  ASSUME IInv, NEW r \in Attempts, pc[r] \in {"deciding", "refusing"}, Goto(r, "over"),
         UNCHANGED <<eventVars, linked, deleted, tries, lost, execution, child, faults, raced,
                     early, hasty>>,
         NEW v \in Dispositions, NEW w \in {"create", "suppressed", "refused"},
         w = "create" => pc[r] = "deciding",
         \/ deleted /\ UNCHANGED <<row, workflow>>
         \/ ~deleted /\ Saved(r[1], v) /\ Answer(r, w)
  PROVE  IInv'
<1>1. /\ r[1] \in Events /\ workflow[r[1]] # "none" /\ (r \in lost => Overlapped(r[1]))
      /\ r \notin lost => workflow[r[1]] \in {"gate", "create"} /\ child[r[1]] = 0
  BY Saver DEF Creating
<1>2. pc' = [pc EXCEPT ![r] = "over"]
  BY DEF Goto
<1>3. \/ workflow' = workflow /\ (r \in lost \/ deleted)
      \/ workflow' = [workflow EXCEPT ![r[1]] = w] /\ r \notin lost
  BY DEF Answer, Advance, Heard
<1>4. Attempted' /\ Counted'
  BY <1>2, <1>3, MoveStep DEF Creating
<1>5. TypeOK'
  <2>1. row' \in [Events -> RowStates]
    BY DEF Saved, IInv, TypeOK, RowStates
  <2>2. workflow' \in [Events -> Workflows]
    BY <1>3 DEF IInv, TypeOK, Workflows
  <2>3. pc' \in [Attempts -> {"none", "deciding", "refusing", "creating", "linking", "over"}]
    BY <1>2 DEF IInv, TypeOK
  <2>4. QED
    BY <2>1, <2>2, <2>3 DEF IInv, TypeOK, RowStates, eventVars
<1>6. ASSUME NEW d \in Events
      PROVE  /\ workflow[d] = "none" <=> workflow'[d] = "none"
             /\ workflow[d] = "none" => tries'[d] = tries[d]
             /\ child'[d] # 0 => workflow'[d] \in {"child", "dispatched", "failed"}
             /\ child'[d] = child[d] \/ row'[d] = "started"
             /\ \/ row'[d] = row[d]
                \/ /\ row'[d] \in Dispositions /\ workflow[d] # "none"
                   /\ Overlapped(d) \/ child'[d] = 0 \/ row'[d] = "started"
  <2>1. child[d] # 0 => workflow[d] \in {"child", "dispatched", "failed"}
    BY DEF IInv, Arrivals
  <2>2. CASE d = r[1]
    <3>1. workflow'[d] \in {workflow[d], w} /\ row'[d] \in {row[d], v}
      BY <1>1, <1>3, <2>2 DEF Saved, IInv, TypeOK
    <3>2. workflow'[d] # workflow[d] => r \notin lost
      BY <1>3
    <3>3. QED
      BY <1>1, <2>1, <2>2, <3>1, <3>2
  <2>3. CASE d # r[1]
    <3>1. workflow'[d] = workflow[d] /\ row'[d] = row[d]
      BY <1>3, <2>3 DEF Saved, IInv, TypeOK
    <3>2. QED
      BY <2>1, <3>1
  <2>4. QED
    BY <2>2, <2>3
<1>7. QED
  BY <1>4, <1>5, <1>6, AdmissionStep

LEMMA SaveDecisionStep ==
  ASSUME IInv, NEW r \in Attempts, SaveDecision(r)
  PROVE  IInv'
<1>1. /\ pc[r] = "deciding" /\ Goto(r, "over")
      /\ UNCHANGED <<eventVars, linked, deleted, tries, lost, execution, child, faults, raced,
                     early, hasty>>
  BY DEF SaveDecision
<1>2. \/ deleted /\ UNCHANGED <<row, workflow>>
      \/ ~deleted /\ Saved(r[1], "decided") /\ Answer(r, "create")
      \/ ~deleted /\ Saved(r[1], "low_value") /\ Answer(r, "suppressed")
  BY DEF SaveDecision
<1>3. /\ "decided" \in Dispositions /\ "low_value" \in Dispositions
      /\ pc[r] \in {"deciding", "refusing"}
      /\ {"create", "suppressed"} \subseteq {"create", "suppressed", "refused"}
  BY <1>1 DEF Dispositions
<1>4. CASE deleted /\ UNCHANGED <<row, workflow>>
  BY <1>1, <1>3, <1>4, SaveStep
<1>5. CASE ~deleted /\ Saved(r[1], "decided") /\ Answer(r, "create")
  BY <1>1, <1>3, <1>5, SaveStep
<1>6. CASE ~deleted /\ Saved(r[1], "low_value") /\ Answer(r, "suppressed")
  BY <1>1, <1>3, <1>6, SaveStep
<1>7. QED
  BY <1>2, <1>4, <1>5, <1>6

LEMMA RefuseStep ==
  ASSUME IInv, NEW r \in Attempts, Refuse(r)
  PROVE  IInv'
<1>1. /\ pc[r] = "refusing" /\ Goto(r, "over")
      /\ UNCHANGED <<eventVars, linked, deleted, tries, lost, execution, child, faults, raced,
                     early, hasty>>
      /\ \/ deleted /\ UNCHANGED <<row, workflow>>
         \/ ~deleted /\ Saved(r[1], "failed") /\ Answer(r, "refused")
  BY DEF Refuse
<1>2. "failed" \in Dispositions /\ pc[r] \in {"deciding", "refusing"}
      /\ "refused" \in {"create", "suppressed", "refused"}
  BY <1>1 DEF Dispositions
<1>3. CASE deleted /\ UNCHANGED <<row, workflow>>
  BY <1>1, <1>2, <1>3, SaveStep
<1>4. CASE ~deleted /\ Saved(r[1], "failed") /\ Answer(r, "refused")
  BY <1>1, <1>2, <1>4, SaveStep
<1>5. QED
  BY <1>1, <1>3, <1>4

LEMMA CreateExecutionStep ==
  ASSUME IInv, NEW r \in Attempts, CreateExecution(r)
  PROVE  IInv'
<1>1. /\ pc[r] = "creating" /\ pc' = [pc EXCEPT ![r] = "linking"]
      /\ execution' = [execution EXCEPT ![r] = "queued"]
      /\ UNCHANGED <<eventVars, row, linked, deleted, workflow, tries, lost, child, faults, raced,
                     early, hasty>>
  BY DEF CreateExecution, Goto
<1>2. Attempted' /\ Counted'
  <2>1. pc[r] \in Creating /\ UNCHANGED <<tries, lost, deleted, faults>>
    BY <1>1 DEF Creating
  <2>2. QED
    BY <1>1, <2>1, MoveStep
<1>3. TypeOK'
  BY <1>1 DEF IInv, TypeOK, eventVars
<1>4. \A d \in Events : child[d] # 0 => workflow[d] \in {"child", "dispatched", "failed"}
  BY DEF IInv, Arrivals
<1>5. QED
  BY <1>1, <1>2, <1>3, <1>4, AdmissionStep

LEMMA LinkStep ==
  ASSUME IInv, NEW r \in Attempts, Link(r)
  PROVE  IInv'
<1>1. /\ pc[r] = "linking" /\ pc' = [pc EXCEPT ![r] = "over"] /\ pc[r] \in Creating
      /\ UNCHANGED <<eventVars, deleted, tries, lost, execution, faults, raced, early, hasty>>
  BY DEF Link, Goto, Creating
<1>2. /\ r[1] \in Events /\ r[2] \in 1..Bound
      /\ workflow[r[1]] # "none" /\ (r \in lost => Overlapped(r[1]))
      /\ r \notin lost => workflow[r[1]] \in {"gate", "create"} /\ child[r[1]] = 0
  BY <1>1, Saver
<1>3. CASE deleted /\ UNCHANGED <<row, linked, workflow, child>>
  <2>1. Attempted' /\ Counted'
    BY <1>1, <1>3, MoveStep
  <2>2. TypeOK'
    BY <1>1, <1>3 DEF IInv, TypeOK, eventVars
  <2>3. \A d \in Events : child[d] # 0 => workflow[d] \in {"child", "dispatched", "failed"}
    BY DEF IInv, Arrivals
  <2>4. QED
    BY <1>1, <1>3, <2>1, <2>2, <2>3, AdmissionStep
<1>4. CASE /\ ~deleted /\ row' = [row EXCEPT ![r[1]] = "started"]
           /\ linked' = [linked EXCEPT ![r[1]] = r[2]]
           /\ workflow' = IF r \notin lost THEN [workflow EXCEPT ![r[1]] = "child"] ELSE workflow
           /\ child' = IF r \notin lost THEN [child EXCEPT ![r[1]] = r[2]] ELSE child
  <2>1. Attempted' /\ Counted'
    <3>1. \/ workflow' = workflow /\ (r \in lost \/ deleted)
          \/ workflow' = [workflow EXCEPT ![r[1]] = "child"] /\ r \notin lost
      BY <1>4
    <3>2. QED
      BY <1>1, <3>1, MoveStep
  <2>2. TypeOK'
    <3>1. row' \in [Events -> RowStates] /\ workflow' \in [Events -> Workflows]
      BY <1>4 DEF IInv, TypeOK, RowStates, Dispositions, Workflows
    <3>2. linked' \in [Events -> 0..Bound] /\ child' \in [Events -> 0..Bound]
      <4>1. linked \in [Events -> 0..Bound] /\ child \in [Events -> 0..Bound]
        BY DEF IInv, TypeOK, Bound
      <4>2. r[2] \in 0..Bound
        BY <1>2, BoundType
      <4>3. QED
        BY <1>4, <4>1, <4>2
    <3>3. pc' \in [Attempts -> {"none", "deciding", "refusing", "creating", "linking", "over"}]
      BY <1>1 DEF IInv, TypeOK
    <3>4. QED
      BY <1>1, <3>1, <3>2, <3>3 DEF IInv, TypeOK, eventVars, RowStates, Bound
  <2>3. ASSUME NEW d \in Events
        PROVE  /\ workflow[d] = "none" <=> workflow'[d] = "none"
               /\ workflow[d] = "none" => tries'[d] = tries[d]
               /\ child'[d] # 0 => workflow'[d] \in {"child", "dispatched", "failed"}
               /\ child'[d] = child[d] \/ row'[d] = "started"
               /\ \/ row'[d] = row[d]
                  \/ /\ row'[d] \in Dispositions /\ workflow[d] # "none"
                     /\ Overlapped(d) \/ child'[d] = 0 \/ row'[d] = "started"
    <3>1. child[d] # 0 => workflow[d] \in {"child", "dispatched", "failed"}
      BY DEF IInv, Arrivals
    <3>2. CASE d = r[1]
      <4>1. row'[d] = "started" /\ "started" \in Dispositions
        BY <1>4, <3>2 DEF IInv, TypeOK, Dispositions
      <4>2. workflow'[d] = "child" \/ (workflow'[d] = workflow[d] /\ child'[d] = child[d])
        BY <1>4, <3>2 DEF IInv, TypeOK
      <4>3. QED
        BY <1>1, <1>2, <3>1, <3>2, <4>1, <4>2
    <3>3. CASE d # r[1]
      <4>1. workflow'[d] = workflow[d] /\ row'[d] = row[d] /\ child'[d] = child[d]
        BY <1>4, <3>3 DEF IInv, TypeOK
      <4>2. QED
        BY <1>1, <3>1, <4>1
    <3>4. QED
      BY <3>2, <3>3
  <2>4. QED
    BY <1>1, <2>1, <2>2, <2>3, AdmissionStep
<1>5. QED
  BY <1>3, <1>4 DEF Link, Saved, Answer, Advance, Heard

LEMMA MoreFaults ==
  \A k, m, f, g \in Nat : f <= g => /\ (k <= m + f => k <= m + g)
                                   /\ (k <= m + f + 1 => k <= m + g + 1)
OBVIOUS

\* Steps that leave the attempts alone and end, at most, admissions nobody works on.
LEMMA CalmStep ==
  ASSUME IInv, UNCHANGED <<tries, pc, lost>>, deleted => deleted', faults' \in faults .. MaxFaults,
         \A d \in Events :
           workflow'[d] = workflow[d] \/ (/\ workflow'[d] \notin {"gate", "create"}
                                          /\ workflow[d] = "child" \/ Idle(d))
  PROVE  Attempted' /\ Counted'
<1>1. Attempted'
  <2> SUFFICES ASSUME NEW r \in Attempts
               PROVE  /\ r[2] > tries'[r[1]] => pc'[r] = "none" /\ r \notin lost'
                      /\ pc'[r] = "deciding" /\ r \notin lost' =>
                           r[2] = tries'[r[1]] /\ workflow'[r[1]] = "gate"
                      /\ pc'[r] \in Creating /\ r \notin lost' =>
                           r[2] = tries'[r[1]] /\ workflow'[r[1]] = "create"
    BY DEF Attempted
  <2>1. r[1] \in Events /\ r = <<r[1], r[2]>> /\ r[2] \in Nat \ {0}
    BY AttemptParts, BoundType
  <2>2. CASE workflow'[r[1]] = workflow[r[1]]
    BY <2>2 DEF IInv, Attempted
  <2>3. CASE workflow'[r[1]] # workflow[r[1]]
    <3>1. workflow[r[1]] = "child" \/ Idle(r[1])
      BY <2>1, <2>3
    <3>2. ASSUME pc[r] = "deciding" \/ pc[r] \in Creating, r \notin lost PROVE FALSE
      <4>1. r = Current(r[1]) /\ tries[r[1]] > 0 /\ workflow[r[1]] # "child"
        BY <2>1, <3>2 DEF IInv, Attempted, Current
      <4>2. pc[r] = "over"
        BY <3>1, <3>2, <4>1 DEF Idle
      <4>3. QED
        BY <3>2, <4>2 DEF Creating
    <3>3. QED
      BY <3>2 DEF IInv, Attempted
  <2>4. QED
    BY <2>2, <2>3
<1>2. Counted'
  <2> SUFFICES ASSUME NEW d \in Events
               PROVE  /\ workflow'[d] = "gate" => tries'[d] <= MaxAttempts
                      /\ workflow'[d] = "create" =>
                           /\ tries'[d] > 0 /\ tries'[d] <= MaxAttempts + faults' + 1
                           /\ Current(d)' \in lost' => tries'[d] <= MaxAttempts + faults'
                           /\ Current(d)' \notin lost' /\ pc'[Current(d)'] \notin Creating =>
                                deleted' \/ tries'[d] <= MaxAttempts
    BY DEF Counted
  <2>1. Current(d)' = Current(d) /\ tries'[d] = tries[d] /\ pc' = pc /\ lost' = lost
    BY DEF Current
  <2>2. tries[d] \in Nat /\ faults \in Nat /\ faults' \in Nat /\ faults <= faults'
        /\ MaxAttempts \in Nat
    BY Numbers
  <2>3. CASE workflow'[d] = workflow[d]
    <3>1. /\ workflow[d] = "gate" => tries[d] <= MaxAttempts
          /\ workflow[d] = "create" =>
               /\ tries[d] > 0 /\ tries[d] <= MaxAttempts + faults + 1
               /\ Current(d) \in lost => tries[d] <= MaxAttempts + faults
               /\ Current(d) \notin lost /\ pc[Current(d)] \notin Creating =>
                    deleted \/ tries[d] <= MaxAttempts
      BY DEF IInv, Counted
    <3>2. /\ tries[d] <= MaxAttempts + faults => tries[d] <= MaxAttempts + faults'
          /\ tries[d] <= MaxAttempts + faults + 1 => tries[d] <= MaxAttempts + faults' + 1
      BY <2>2, MoreFaults
    <3>3. workflow'[d] = "gate" => tries'[d] <= MaxAttempts
      BY <2>1, <2>3, <3>1
    <3>4. ASSUME workflow'[d] = "create"
          PROVE  /\ tries'[d] > 0 /\ tries'[d] <= MaxAttempts + faults' + 1
                 /\ Current(d)' \in lost' => tries'[d] <= MaxAttempts + faults'
      BY <2>1, <2>3, <3>1, <3>2, <3>4
    <3>5. ASSUME workflow'[d] = "create", Current(d)' \notin lost',
                 pc'[Current(d)'] \notin Creating
          PROVE  deleted' \/ tries'[d] <= MaxAttempts
      <4>1. deleted \/ tries[d] <= MaxAttempts
        BY <2>1, <2>3, <3>1, <3>5
      <4>2. QED
        BY <2>1, <4>1
    <3>6. QED
      BY <3>3, <3>4, <3>5
  <2>4. CASE workflow'[d] # workflow[d]
    BY <2>4
  <2>5. QED
    BY <2>3, <2>4
<1>3. QED
  BY <1>1, <1>2

LEMMA DeleteReceiverStep ==
  ASSUME IInv, DeleteReceiver
  PROVE  IInv'
<1>1. /\ deleted' = TRUE /\ Fault
      /\ UNCHANGED <<eventVars, row, linked, workflow, tries, pc, lost, execution, child, raced,
                     early, hasty>>
  BY DEF DeleteReceiver, admissionVars
<1>2. faults' \in faults .. MaxFaults
  BY <1>1, FaultRange
<1>3. Attempted' /\ Counted'
  BY <1>1, <1>2, CalmStep
<1>4. TypeOK'
  <2>1. faults' \in 0..MaxFaults
    BY <1>2, Numbers
  <2>2. QED
    BY <1>1, <2>1 DEF IInv, TypeOK, eventVars
<1>5. \A d \in Events : child[d] # 0 => workflow[d] \in {"child", "dispatched", "failed"}
  BY DEF IInv, Arrivals
<1>6. QED
  BY <1>1, <1>3, <1>4, <1>5, AdmissionStep

\* The admission or the investigation of an event ends, or its investigation begins.
LEMMA EndStep ==
  ASSUME IInv, NEW e \in Events,
         GateFails(e) \/ CannotCreate(e) \/ ContextFails(e) \/ StartRunning(e)
           \/ InvestigationEnds(e)
  PROVE  IInv'
<1>1. /\ UNCHANGED <<eventVars, row, linked, deleted, tries, pc, lost, child, faults, raced, early,
                     hasty>>
      /\ \/ workflow[e] \in {"gate", "create"} /\ Idle(e)
         \/ workflow[e] = "child"
      /\ \/ workflow' = workflow
         \/ workflow' = [workflow EXCEPT ![e] = "failed"]
         \/ workflow' = [workflow EXCEPT ![e] = "dispatched"]
         \/ workflow' = [workflow EXCEPT ![e] = "stuck"] /\ workflow[e] = "create"
      /\ \/ execution' = execution
         \/ execution' = [execution EXCEPT ![<<e, child[e]>>] = "running"]
         \/ execution' = [execution EXCEPT ![<<e, child[e]>>] = "ended"]
  BY DEF GateFails, CannotCreate, ContextFails, StartRunning, InvestigationEnds, Advance,
         admissionVars
<1>2. \A d \in Events : d # e => workflow'[d] = workflow[d]
  BY <1>1 DEF IInv, TypeOK
<1>3. \/ workflow'[e] = workflow[e]
      \/ workflow'[e] \in {"failed", "dispatched"}
      \/ workflow'[e] = "stuck" /\ workflow[e] = "create"
  BY <1>1 DEF IInv, TypeOK
<1>4. Attempted' /\ Counted'
  <2>1. faults' \in faults .. MaxFaults
    BY <1>1, FaultRange
  <2>2. ASSUME NEW d \in Events
        PROVE  workflow'[d] = workflow[d] \/ (/\ workflow'[d] \notin {"gate", "create"}
                                              /\ workflow[d] = "child" \/ Idle(d))
    BY <1>1, <1>2, <1>3
  <2>3. QED
    BY <1>1, <2>1, <2>2, CalmStep
<1>5. TypeOK'
  <2>1. workflow' \in [Events -> Workflows]
    <3>1. workflow \in [Events -> Workflows]
          /\ {"failed", "dispatched", "stuck"} \subseteq Workflows
      BY DEF IInv, TypeOK, Workflows
    <3>2. \A w \in Workflows : [workflow EXCEPT ![e] = w] \in [Events -> Workflows]
      BY <3>1
    <3>3. QED
      BY <1>1, <3>1, <3>2
  <2>2. execution' \in [Attempts -> {"absent", "queued", "running", "ended"}]
    BY <1>1 DEF IInv, TypeOK
  <2>3. QED
    BY <1>1, <2>1, <2>2 DEF IInv, TypeOK, eventVars
<1>6. ASSUME NEW d \in Events
      PROVE  /\ workflow[d] = "none" <=> workflow'[d] = "none"
             /\ child'[d] # 0 => workflow'[d] \in {"child", "dispatched", "failed"}
  <2>1. child[d] # 0 => workflow[d] \in {"child", "dispatched", "failed"}
    BY DEF IInv, Arrivals
  <2>2. QED
    BY <1>1, <1>2, <1>3, <2>1
<1>7. QED
  BY <1>1, <1>4, <1>5, <1>6, AdmissionStep

\* An idle admission is given its next attempt.
LEMMA AttemptBegins ==
  ASSUME IInv, NEW e \in Events, Idle(e), tries[e] < Bound, NEW p, NextAttempt(e, p),
         UNCHANGED <<workflow, lost, deleted, faults>>,
         \/ workflow[e] = "gate" /\ tries[e] < MaxAttempts /\ p \in {"deciding", "over"}
         \/ workflow[e] = "create" /\ tries[e] <= MaxAttempts + faults /\ p \in Creating
  PROVE  Attempted' /\ Counted'
<1> DEFINE n == <<e, tries[e] + 1>>
<1>1. /\ n \in Attempts /\ n[1] = e /\ n[2] = tries[e] + 1 /\ pc'[n] = p
      /\ \A r \in Attempts : r # n => pc'[r] = pc[r]
      /\ \A r \in Attempts : r[1] = e /\ r[2] = tries[e] + 1 => r = n
      /\ tries'[e] = tries[e] + 1 /\ \A d \in Events : d # e => tries'[d] = tries[d]
  BY NextAttemptNew DEF IInv
<1>2. tries[e] \in Nat /\ faults \in Nat /\ MaxAttempts \in Nat
  BY Numbers
<1>3. Current(e)' = n
  BY <1>1 DEF Current
<1> HIDE DEF n
<1>4. n \notin lost
  BY <1>1, <1>2 DEF IInv, Attempted
<1>5. Attempted'
  <2> SUFFICES ASSUME NEW r \in Attempts
               PROVE  /\ r[2] > tries'[r[1]] => pc'[r] = "none" /\ r \notin lost'
                      /\ pc'[r] = "deciding" /\ r \notin lost' =>
                           r[2] = tries'[r[1]] /\ workflow'[r[1]] = "gate"
                      /\ pc'[r] \in Creating /\ r \notin lost' =>
                           r[2] = tries'[r[1]] /\ workflow'[r[1]] = "create"
    BY DEF Attempted
  <2>1. r[1] \in Events /\ r = <<r[1], r[2]>> /\ r[2] \in Nat \ {0}
    BY AttemptParts, BoundType
  <2>2. CASE r = n
    BY <1>1, <1>2, <2>2 DEF Creating
  <2>3. CASE r # n /\ r[1] # e
    BY <1>1, <2>1, <2>3 DEF IInv, Attempted
  <2>4. CASE r # n /\ r[1] = e
    <3>1. pc'[r] = pc[r] /\ tries'[r[1]] = tries[r[1]] + 1
      BY <1>1, <2>4
    <3>2. r[2] > tries'[r[1]] => r[2] > tries[r[1]]
      BY <1>2, <2>1, <2>4, <3>1
    <3>3. ASSUME pc[r] = "deciding" \/ pc[r] \in Creating, r \notin lost PROVE FALSE
      <4>1. r[2] = tries[e]
        BY <2>4, <3>3 DEF IInv, Attempted
      <4>2. r = Current(e) /\ tries[e] > 0
        BY <2>1, <2>4, <4>1 DEF Current
      <4>3. pc[r] = "over"
        BY <3>3, <4>2 DEF Idle
      <4>4. QED
        BY <3>3, <4>3 DEF Creating
    <3>4. QED
      BY <3>1, <3>2, <3>3 DEF IInv, Attempted
  <2>5. QED
    BY <2>2, <2>3, <2>4
<1>6. Counted'
  <2> SUFFICES ASSUME NEW d \in Events
               PROVE  /\ workflow'[d] = "gate" => tries'[d] <= MaxAttempts
                      /\ workflow'[d] = "create" =>
                           /\ tries'[d] > 0 /\ tries'[d] <= MaxAttempts + faults' + 1
                           /\ Current(d)' \in lost' => tries'[d] <= MaxAttempts + faults'
                           /\ Current(d)' \notin lost' /\ pc'[Current(d)'] \notin Creating =>
                                deleted' \/ tries'[d] <= MaxAttempts
    BY DEF Counted
  <2>1. CASE d = e
    BY <1>1, <1>2, <1>3, <1>4, <2>1
  <2>2. CASE d # e
    <3>1. Current(d)' = Current(d) /\ tries'[d] = tries[d]
      BY <1>1, <2>2 DEF Current
    <3>2. workflow[d] = "create" => Current(d) \in Attempts /\ Current(d) # n
      BY <1>1, <2>2, Numbers, AttemptParts DEF IInv, Counted, Current
    <3>3. workflow[d] = "create" => pc'[Current(d)] = pc[Current(d)]
      BY <1>1, <3>2
    <3>4. QED
      BY <3>1, <3>3 DEF IInv, Counted
  <2>3. QED
    BY <2>1, <2>2
<1>7. QED
  BY <1>5, <1>6

LEMMA BeginStep ==
  ASSUME IInv, NEW e \in Events, BeginGate(e) \/ BeginCreate(e)
  PROVE  IInv'
<1>1. /\ Idle(e)
      /\ UNCHANGED <<eventVars, row, linked, deleted, workflow, lost, execution, child, faults,
                     hasty>>
      /\ raced' \subseteq raced \cup {e} /\ early' \subseteq early \cup {e}
  BY DEF BeginGate, BeginCreate
<1>2. tries[e] \in Nat /\ faults \in Nat /\ faults <= MaxFaults /\ MaxAttempts \in Nat
      /\ MaxFaults \in Nat /\ Bound = MaxAttempts + MaxFaults + 1
  BY Numbers
<1>3. PICK p \in {"deciding", "over"} \cup Creating :
        /\ NextAttempt(e, p)
        /\ \/ workflow[e] = "gate" /\ tries[e] < MaxAttempts /\ p \in {"deciding", "over"}
           \/ workflow[e] = "create" /\ tries[e] <= MaxAttempts + faults /\ p \in Creating
  <2>1. CASE BeginGate(e)
    BY <2>1 DEF BeginGate
  <2>2. CASE BeginCreate(e)
    <3>1. workflow[e] = "create" /\ ~deleted
          /\ \E p \in Creating : NextAttempt(e, p)
      BY <2>2 DEF BeginCreate, Creating
    <3>2. tries[e] > 0
      BY <3>1 DEF IInv, Counted
    <3>3. tries[e] <= MaxAttempts + faults
      <4>1. CASE Current(e) \in lost
        BY <3>1, <4>1 DEF IInv, Counted
      <4>2. CASE Current(e) \notin lost
        <5>1. pc[Current(e)] \notin Creating
          BY <1>1, <3>2, <4>2 DEF Idle, Creating
        <5>2. tries[e] <= MaxAttempts
          BY <3>1, <4>2, <5>1 DEF IInv, Counted
        <5>3. QED
          BY <1>2, <5>2
      <4>3. QED
        BY <4>1, <4>2
    <3>4. QED
      BY <3>1, <3>3
  <2>3. QED
    BY <2>1, <2>2
<1>4. tries[e] < Bound
  BY <1>2, <1>3
<1>5. Attempted' /\ Counted'
  BY <1>1, <1>3, <1>4, AttemptBegins
<1>6. TypeOK'
  <2>1. tries' = [tries EXCEPT ![e] = tries[e] + 1] /\ tries[e] + 1 \in 0..Bound
    BY <1>2, <1>3, <1>4 DEF NextAttempt
  <2>2. tries' \in [Events -> 0..Bound]
    <3>1. tries \in [Events -> 0..Bound]
      BY DEF IInv, TypeOK, Bound
    <3>2. QED
      BY <2>1, <3>1
  <2>3. pc' \in [Attempts -> {"none", "deciding", "refusing", "creating", "linking", "over"}]
    BY <1>3 DEF NextAttempt, IInv, TypeOK, Creating
  <2>4. raced' \subseteq Events /\ early' \subseteq Events
    BY <1>1 DEF IInv, TypeOK
  <2>5. QED
    BY <1>1, <2>2, <2>3, <2>4 DEF IInv, TypeOK, eventVars, Bound
<1>7. ASSUME NEW d \in Events
      PROVE  /\ workflow[d] = "none" => tries'[d] = tries[d]
             /\ child[d] # 0 => workflow[d] \in {"child", "dispatched", "failed"}
  <2>1. d # e => tries'[d] = tries[d]
    BY <1>3 DEF NextAttempt, IInv, TypeOK
  <2>2. QED
    BY <1>3, <2>1 DEF IInv, Arrivals
<1>8. QED
  BY <1>1, <1>5, <1>6, <1>7, AdmissionStep

LEMMA GiveUpStep ==
  ASSUME IInv, NEW e \in Events, GiveUp(e)
  PROVE  IInv'
<1>1. /\ workflow[e] \in {"gate", "create"} /\ tries[e] > 0 /\ Fault
      /\ lost' = lost \cup {Current(e)}
      /\ UNCHANGED <<eventVars, row, linked, deleted, workflow, tries, pc, execution, child, raced,
                     early, hasty>>
  BY DEF GiveUp, admissionVars
<1>2. /\ faults \in Nat /\ faults' = faults + 1 /\ faults' \in 0..MaxFaults
      /\ MaxAttempts \in Nat /\ \A d \in Events : tries[d] \in Nat /\ tries[d] <= Bound
  <2>1. faults' = faults + 1 /\ faults' \in faults .. MaxFaults
    BY <1>1, FaultRange DEF Fault
  <2>2. QED
    BY <2>1, Numbers
<1>3. Current(e) \in Attempts /\ Current(e)[1] = e /\ Current(e)[2] = tries[e]
  BY <1>1, <1>2, AttemptParts, BoundType DEF Current
<1>4. Attempted'
  <2>1. ASSUME NEW r \in Attempts, r[2] > tries[r[1]] PROVE r # Current(e)
    BY <1>2, <1>3, <2>1
  <2>2. QED
    BY <1>1, <2>1 DEF IInv, Attempted
<1>5. Counted'
  <2> SUFFICES ASSUME NEW d \in Events
               PROVE  /\ workflow'[d] = "gate" => tries'[d] <= MaxAttempts
                      /\ workflow'[d] = "create" =>
                           /\ tries'[d] > 0 /\ tries'[d] <= MaxAttempts + faults' + 1
                           /\ Current(d)' \in lost' => tries'[d] <= MaxAttempts + faults'
                           /\ Current(d)' \notin lost' /\ pc'[Current(d)'] \notin Creating =>
                                deleted' \/ tries'[d] <= MaxAttempts
    BY DEF Counted
  <2>1. Current(d)' = Current(d) /\ tries'[d] = tries[d] /\ workflow' = workflow /\ pc' = pc
        /\ deleted' = deleted
    BY <1>1 DEF Current
  <2>2. workflow[d] = "create" => tries[d] > 0 /\ tries[d] <= MaxAttempts + faults + 1
    BY DEF IInv, Counted
  <2>3. QED
    BY <1>1, <1>2, <2>1, <2>2 DEF IInv, Counted
<1>6. TypeOK'
  <2>1. lost' \in SUBSET Attempts
    BY <1>1, <1>3 DEF IInv, TypeOK
  <2>2. QED
    BY <1>1, <1>2, <2>1 DEF IInv, TypeOK, eventVars
<1>7. \A d \in Events : child[d] # 0 => workflow[d] \in {"child", "dispatched", "failed"}
  BY DEF IInv, Arrivals
<1>8. QED
  BY <1>1, <1>4, <1>5, <1>6, <1>7, AdmissionStep

-----------------------------------------------------------------------------
(* Every step keeps the invariant. *)

LEMMA NextInv == IInv /\ [Next]_vars => IInv'
<1> SUFFICES ASSUME IInv, [Next]_vars PROVE IInv'
  OBVIOUS
<1>1. CASE \E e \in Events : Ingest(e)
  BY <1>1, SkipStep, IngestResolvedStep, IngestFiringStep DEF Ingest
<1>2. CASE \E e \in Events : Transaction(e) \/ Rollback(e)
  BY <1>2, RequestStep DEF Transaction
<1>3. CASE \E e \in Events : Begin(e) \/ Investigate(e)
  BY <1>3, BeginStep, EndStep DEF Begin, Investigate
<1>4. CASE \E e \in Events : GiveUp(e)
  BY <1>4, GiveUpStep
<1>5. CASE \E r \in Attempts : Step(r)
  BY <1>5, SaveDecisionStep, RefuseStep, CreateExecutionStep, LinkStep DEF Step
<1>6. CASE DeleteReceiver
  BY <1>6, DeleteReceiverStep
<1>7. CASE UNCHANGED vars
  <2>1. UNCHANGED <<arrived, kind, row, related, linked, deleted, workflow, tries, pc, lost,
                    execution, child, faults, under, raced, early, hasty>>
    BY <1>7 DEF vars, eventVars, admissionVars
  <2>2. TypeOK' /\ Arrivals' /\ Attempted'
    BY <2>1 DEF IInv, TypeOK, Arrivals, Attempted
  <2>3. Counted'
    BY <2>1 DEF IInv, Counted, Current
  <2>4. Investigated' /\ Passed'
    BY <2>1 DEF IInv, Investigated, Passed, Overlapped, ResolvedSince
  <2>5. QED
    BY <2>2, <2>3, <2>4 DEF IInv
<1>8. QED
  BY <1>1, <1>2, <1>3, <1>4, <1>5, <1>6, <1>7 DEF Next

LEMMA Invariant == Spec => []IInv
<1>1. QED
  BY InitInv, NextInv, PTL DEF Spec

-----------------------------------------------------------------------------
(* What an event is suppressed for is covered. *)

\* An attached event has no admission, and what suppresses is covered.
Covering ==
  /\ \A d \in Events : /\ row[d] = "attached" => workflow[d] = "none"
                       /\ row[d] \in ActiveDispositions => Covered(d)
  /\ SuppressedIsCovered

\* A step keeps d covered, or covers d as it makes it active, and relates d only
\* to what was active.
CoverKept(d) ==
  /\ Covered(d) => Covered(d)'
  /\ \/ row'[d] = row[d] /\ (row[d] = "attached" => workflow'[d] = "none")
     \/ row'[d] \notin ActiveDispositions
     \/ row'[d] = "attached" /\ workflow'[d] = "none"
     \/ row'[d] # "attached" /\ Covered(d)'
  /\ related'[d] = related[d] \/ (related'[d] \in Events /\ row[related'[d]] \in ActiveDispositions)

LEMMA CoveringKept ==
  ASSUME IInv, Covering, \A d \in Events : CoverKept(d)
  PROVE  Covering'
<1>1. \A d \in Events : related[d] # 0 => related[d] \in Events
  <2>1. \A d \in Events : related[d] \in 0..MaxEvents
    BY DEF IInv, TypeOK
  <2>2. QED
    BY <2>1, BoundsAssumption DEF Events
<1>2. SuppressedIsCovered'
  <2>1. ASSUME NEW e \in Events, NEW d, d = related'[e], d # 0
        PROVE  Covered(d)'
    <3>1. d \in Events /\ Covered(d)
      BY <1>1, <2>1 DEF CoverKept, Covering, SuppressedIsCovered
    <3>2. QED
      BY <3>1 DEF CoverKept
  <2>2. QED
    BY <2>1 DEF SuppressedIsCovered, Covered, Overlapped
<1>3. \A d \in Events : /\ row'[d] = "attached" => workflow'[d] = "none"
                        /\ row'[d] \in ActiveDispositions => Covered(d)'
  BY DEF Covering, CoverKept, Covered, ActiveDispositions
<1>4. QED
  BY <1>2, <1>3 DEF Covering

LEMMA CoveringIngest ==
  ASSUME IInv, Covering, NEW e \in Events, Ingest(e)
  PROVE  Covering'
<1>1. /\ UNCHANGED <<workflow, lost, child>> /\ e = arrived + 1 /\ row[e] = "absent"
      /\ workflow[e] = "none" /\ child[e] = 0
  <2>1. UNCHANGED <<workflow, lost, child>> /\ e = arrived + 1
    BY DEF Ingest, Skip, Kinds, IngestResolved, IngestFiring, Receive, admissionVars
  <2>2. arrived \in Nat
    <3>1. arrived \in 0..MaxEvents
      BY DEF IInv, TypeOK
    <3>2. QED
      BY <3>1, BoundsAssumption
  <2>3. QED
    BY <2>1, <2>2 DEF IInv, Arrivals
<1>2. \A d \in Events : Overlapped(d)' <=> Overlapped(d)
  BY <1>1 DEF Overlapped
<1>3. row \in [Events -> RowStates] /\ related \in [Events -> 0..MaxEvents]
  BY DEF IInv, TypeOK, RowStates
<1>4. CASE Skip(e)
  <2>1. /\ \A d \in Events : d # e => row'[d] = row[d]
        /\ row'[e] = "failed" /\ related' = related
    BY <1>3, <1>4 DEF Skip, Kinds
  <2>2. \A d \in Events : CoverKept(d)
    BY <1>1, <1>2, <2>1 DEF CoverKept, Covered, Overlapped, ActiveDispositions, Covering
  <2>3. QED
    BY <2>2, CoveringKept
<1>5. CASE IngestResolved(e)
  <2>1. /\ \A d \in Events : d # e => row'[d] \in {row[d], "resolved"}
        /\ row'[e] = "resolved" /\ related' = related
    BY <1>3, <1>5 DEF IngestResolved
  <2>2. \A d \in Events : CoverKept(d)
    BY <1>1, <1>2, <2>1 DEF CoverKept, Covered, Overlapped, ActiveDispositions, Covering
  <2>3. QED
    BY <2>2, CoveringKept
<1>6. CASE IngestFiring(e)
  <2>1. PICK oldest \in 1..e :
          \/ /\ Duplicates(oldest..(e - 1)) # {}
             /\ SuppressDuplicate(e, Duplicates(oldest..(e - 1)))
          \/ /\ row' \in {[row EXCEPT ![e] = "attached"], [row EXCEPT ![e] = "open"]}
             /\ UNCHANGED related
    BY <1>6 DEF IngestFiring
  <2> DEFINE D == Duplicates(oldest..(e - 1))
  <2>2. D \subseteq Events /\ \A d \in D : row[d] \in ActiveDispositions
    BY EventsType, BoundsAssumption DEF Duplicates, Events
  <2> HIDE DEF D
  <2>3. CASE D # {} /\ SuppressDuplicate(e, D)
    <3>1. Max(D) \in Events /\ row[Max(D)] \in ActiveDispositions
      BY <2>2, <2>3, Newest
    <3>2. /\ \A d \in Events : d # e => row'[d] = row[d] /\ related'[d] = related[d]
          /\ row'[e] = "suppressed" /\ related'[e] = Max(D)
      BY <1>3, <2>3 DEF SuppressDuplicate
    <3>3. \A d \in Events : CoverKept(d)
      BY <1>1, <1>2, <3>1, <3>2 DEF CoverKept, Covered, Overlapped, ActiveDispositions, Covering
    <3>4. QED
      BY <3>3, CoveringKept
  <2>4. CASE /\ row' \in {[row EXCEPT ![e] = "attached"], [row EXCEPT ![e] = "open"]}
             /\ UNCHANGED related
    <3>1. /\ \A d \in Events : d # e => row'[d] = row[d]
          /\ row'[e] \in {"attached", "open"}
      BY <1>3, <2>4
    <3>2. \A d \in Events : CoverKept(d)
      BY <1>1, <1>2, <2>4, <3>1 DEF CoverKept, Covered, Overlapped, ActiveDispositions, Covering
    <3>3. QED
      BY <3>2, CoveringKept
  <2>5. QED
    BY <2>1, <2>3, <2>4 DEF D
<1>7. QED
  BY <1>4, <1>5, <1>6 DEF Ingest

\* The admission of an event and its investigation.
LEMMA CoveringAdmission ==
  ASSUME IInv, Covering, NEW e \in Events,
         Transaction(e) \/ Rollback(e) \/ Begin(e) \/ Investigate(e) \/ GiveUp(e)
  PROVE  Covering'
<1>1. UNCHANGED <<related, child>> /\ lost \subseteq lost'
  BY DEF Transaction, Dispatch, Commit, Rollback, Begin, BeginGate, GateFails, BeginCreate,
         CannotCreate, Investigate, ContextFails, StartRunning, InvestigationEnds, GiveUp,
         eventVars
<1>2. \A d \in Events : Overlapped(d) => Overlapped(d)'
  BY <1>1 DEF Overlapped
<1>3. row \in [Events -> RowStates] /\ workflow \in [Events -> Workflows]
  BY DEF IInv, TypeOK, RowStates
<1>4. CASE Transaction(e) \/ Rollback(e)
  <2>1. /\ \A d \in Events : d # e => row'[d] = row[d] /\ workflow'[d] = workflow[d]
        /\ row[e] \in Uncommitted
        /\ row'[e] \in Uncommitted \cup {"correlated", "failed", "rolled back"}
        /\ workflow'[e] = workflow[e] \/ row[e] = "open"
    BY <1>3, <1>4 DEF Transaction, Dispatch, Commit, Rollback, Uncommitted, admissionVars
  <2>2. row[e] = "open" => workflow[e] = "none"
    BY DEF IInv, Arrivals
  <2>3. \A d \in Events : CoverKept(d)
    BY <1>1, <1>2, <2>1, <2>2 DEF CoverKept, Covered, ActiveDispositions, Uncommitted, Covering
  <2>4. QED
    BY <2>3, CoveringKept
<1>5. CASE Begin(e) \/ Investigate(e) \/ GiveUp(e)
  <2>1. /\ \A d \in Events : d # e => workflow'[d] = workflow[d]
        /\ row' = row
        /\ \/ workflow'[e] = workflow[e]
           \/ workflow[e] = "gate" /\ workflow'[e] = "failed"
           \/ workflow[e] = "create" /\ workflow'[e] = "stuck"
           \/ workflow[e] = "child" /\ workflow'[e] \in {"failed", "dispatched"}
    BY <1>3, <1>5
    DEF Begin, BeginGate, GateFails, BeginCreate, CannotCreate, Investigate, ContextFails,
        StartRunning, InvestigationEnds, GiveUp, Advance, admissionVars
  <2>2. ASSUME NEW d \in Events
        PROVE  /\ Covered(d) => Covered(d)'
               /\ row[d] = "attached" => workflow'[d] = "none"
    BY <1>1, <1>2, <2>1 DEF Covered, Covering
  <2>3. \A d \in Events : CoverKept(d)
    BY <1>1, <2>1, <2>2 DEF CoverKept
  <2>4. QED
    BY <2>3, CoveringKept
<1>6. QED
  BY <1>4, <1>5

\* What an attempt saves as active, its admission covers.
LEMMA CoveringAttempt ==
  ASSUME IInv, Covering, NEW r \in Attempts, Step(r)
  PROVE  Covering'
<1>1. /\ r[1] \in Events /\ r[2] # 0 /\ workflow[r[1]] # "none"
      /\ r \in lost => Overlapped(r[1])
      /\ r \notin lost => workflow[r[1]] \in {"gate", "create"}
      /\ UNCHANGED <<related, lost>>
  <2>1. pc[r] = "deciding" \/ pc[r] \in Creating
    BY DEF Step, SaveDecision, Refuse, CreateExecution, Link, Creating
  <2>2. r[2] # 0
    BY AttemptParts, BoundType
  <2>3. UNCHANGED <<related, lost>>
    BY DEF Step, SaveDecision, Refuse, CreateExecution, Link, eventVars
  <2>4. QED
    BY <2>1, <2>2, <2>3, Saver
<1>2. \A d \in Events : Overlapped(d)' <=> Overlapped(d)
  BY <1>1 DEF Overlapped
<1>3. /\ row \in [Events -> RowStates] /\ workflow \in [Events -> Workflows]
      /\ child \in [Events -> 0..Bound]
  BY DEF IInv, TypeOK, RowStates, Bound
<1>4. /\ \A d \in Events : d # r[1] =>
           row'[d] = row[d] /\ workflow'[d] = workflow[d] /\ child'[d] = child[d]
      /\ \/ /\ row'[r[1]] = row[r[1]] /\ workflow'[r[1]] = workflow[r[1]]
            /\ child'[r[1]] = child[r[1]]
         \/ /\ row'[r[1]] \in {"decided", "low_value", "failed", "started"}
            /\ r \in lost /\ workflow'[r[1]] = workflow[r[1]] /\ child'[r[1]] = child[r[1]]
         \/ /\ row'[r[1]] = "decided" /\ workflow'[r[1]] = "create" /\ child' = child
         \/ /\ row'[r[1]] = "low_value" /\ workflow'[r[1]] = "suppressed" /\ child' = child
            /\ pc[r] = "deciding" /\ r \notin lost
         \/ /\ row'[r[1]] = "failed" /\ workflow'[r[1]] = "refused" /\ child' = child
         \/ /\ row'[r[1]] = "started" /\ child'[r[1]] # 0
  BY <1>1, <1>3
  DEF Step, SaveDecision, Refuse, CreateExecution, Link, Saved, Answer, Advance, Heard
<1>5. pc[r] = "deciding" /\ r \notin lost => workflow[r[1]] = "gate"
  BY DEF IInv, Attempted
<1>6. child[r[1]] # 0 => r \in lost
  BY <1>1 DEF IInv, Arrivals
<1>7. ASSUME NEW d \in Events
      PROVE  CoverKept(d)
  <2>1. CASE d # r[1]
    BY <1>1, <1>2, <1>4, <2>1 DEF CoverKept, Covered, Covering
  <2>2. CASE d = r[1]
    <3>1. row[d] # "attached"
      BY <1>1, <2>2 DEF Covering
    <3>2. QED
      BY <1>1, <1>2, <1>4, <1>5, <1>6, <2>2, <3>1 DEF CoverKept, Covered, Overlapped, ActiveDispositions, Covering
  <2>3. QED
    BY <2>1, <2>2
<1>8. QED
  BY <1>7, CoveringKept

LEMMA CoveringStep == IInv /\ Covering /\ [Next]_vars => Covering'
<1> SUFFICES ASSUME IInv, Covering, [Next]_vars PROVE Covering'
  OBVIOUS
<1>1. CASE DeleteReceiver \/ UNCHANGED vars
  <2>1. UNCHANGED <<row, related, workflow, lost, child>>
    BY <1>1 DEF DeleteReceiver, vars, eventVars, admissionVars
  <2>2. QED
    BY <2>1 DEF Covering, SuppressedIsCovered, Covered, Overlapped
<1>2. QED
  BY <1>1, CoveringIngest, CoveringAdmission, CoveringAttempt DEF Next

-----------------------------------------------------------------------------
(* A duplicate is suppressed only by an event that is still alive. *)

\* The alert fires again between d and x.
Refires(d, x) == \E y \in (d + 1)..(x - 1) : kind[y] = "firing"

\* A received event has a row, and only a received one is related; an attempt
\* that may save an outcome has found its event.
Loaded ==
  /\ \A e \in Events : /\ e <= arrived => row[e] # "absent"
                       /\ related[e] # 0 => e <= arrived
                       /\ workflow[e] = "create" => row[e] \in Dispositions
  /\ \A r \in Attempts :
       pc[r] = "deciding" \/ pc[r] \in Creating => row[r[1]] \in Dispositions

\* No admission goes on for a resolved event unless it was under way.
Quiet ==
  \A d \in Events :
    kind[d] = "firing" /\ row[d] = "resolved" => workflow[d] \notin {"gate", "create"} \/ d \in hasty

\* A resolution settles the firing events before it, or there was a newer one.
Settled ==
  \A d, x \in Events :
    d < x /\ kind[d] = "firing" /\ kind[x] = "resolved" /\ row[x] = "resolved" =>
      row[d] \in {"resolved", "rolled back"} \/ d \in hasty \/ Overlapped(d) \/ Refires(d, x)

Lively == Loaded /\ Quiet /\ Settled /\ SuppressedByLive

LEMMA ArrivedType ==
  ASSUME IInv
  PROVE  /\ arrived \in Nat /\ arrived <= MaxEvents
         /\ \A e \in Events : related[e] \in 0..MaxEvents
         /\ \A d \in Events : \A x \in (d + 1)..arrived : x \in Events
         /\ \A e \in Events : e > arrived \/ e <= arrived
<1>1. arrived \in 0..MaxEvents /\ \A e \in Events : related[e] \in 0..MaxEvents
  BY DEF IInv, TypeOK
<1>2. QED
  BY <1>1, BoundsAssumption DEF Events

\* The row of d is left alone, its transaction goes on, or an attempt saves it.
RowKept(d) ==
  \/ row'[d] = row[d]
  \/ row[d] \in Uncommitted /\ row'[d] \notin {"resolved", "absent"}
  \/ /\ row[d] # "rolled back" /\ workflow[d] # "none" /\ row'[d] \notin {"resolved", "absent"}
     /\ row[d] = "resolved" => d \in hasty \/ Overlapped(d)

\* Steps that receive nothing.
LEMMA LivelyKept ==
  ASSUME IInv, Lively, UNCHANGED <<arrived, kind, related, hasty>>, lost \subseteq lost',
         \A d \in Events :
           /\ RowKept(d)
           /\ workflow'[d] \in {"gate", "create"} =>
                workflow[d] \in {"gate", "create"} \/ row[d] = "open"
  PROVE  Quiet' /\ Settled' /\ SuppressedByLive'
<1>1. \A d : Overlapped(d) => Overlapped(d)'
  BY DEF Overlapped
<1>2. Quiet'
  BY DEF Lively, Quiet, RowKept, Uncommitted
<1>3. \A x \in Events : kind[x] = "resolved" => row'[x] = row[x]
  BY DEF IInv, Arrivals, RowKept, Uncommitted
<1>4. \A d, x : Refires(d, x)' <=> Refires(d, x)
  BY DEF Refires
<1>5. Settled'
  <2> SUFFICES ASSUME NEW d \in Events, NEW x \in Events, d < x, kind[d] = "firing",
                      kind[x] = "resolved", row'[x] = "resolved"
               PROVE  row'[d] \in {"resolved", "rolled back"} \/ d \in hasty \/ Overlapped(d)'
                        \/ Refires(d, x)'
    BY DEF Settled
  <2>1. row[d] \in {"resolved", "rolled back"} \/ d \in hasty \/ Overlapped(d) \/ Refires(d, x)
    BY <1>3 DEF Lively, Settled
  <2>2. QED
    BY <1>1, <1>4, <2>1 DEF RowKept, Uncommitted
<1>6. SuppressedByLive'
  <2>1. \A e \in Events : related'[e] = related[e] /\ (related[e] # 0 => related[e] \in Events)
    BY ArrivedType, BoundsAssumption DEF Events
  <2>2. ASSUME NEW e \in Events, NEW d \in Events, d = related[e], d # 0,
               NEW x \in (d + 1)..(e - 1), kind[x] = "resolved", row'[x] = "resolved"
        PROVE  \/ \E y \in (d + 1)..(x - 1) : kind[y] = "firing"
               \/ d \in hasty \/ Overlapped(d)
    <3>1. x \in Events
      BY EventsType, BoundsAssumption DEF Events
    <3>2. row[x] = "resolved"
      BY <1>3, <2>2, <3>1
    <3>3. QED
      BY <2>2, <3>2 DEF Lively, SuppressedByLive
  <2>3. QED
    BY <1>1, <2>1, <2>2 DEF SuppressedByLive, Overlapped
<1>7. QED
  BY <1>2, <1>5, <1>6

\* An event is received, and at most one other row resolved: the newest that can be.
LEMMA LivelyReceive ==
  ASSUME IInv, Lively, NEW e \in Events, NEW status \in {"firing", "resolved"}, Receive(e, status),
         row'[e] # "absent", status = "firing" => row'[e] # "resolved", hasty \subseteq hasty',
         \A d \in Events : d # e =>
           /\ \/ row'[d] = row[d]
              \/ /\ kind[d] = "firing" /\ row'[d] = "resolved" /\ row[d] \in Dispositions
                 /\ workflow[d] \in {"gate", "create"} => d \in hasty'
           /\ related'[d] = related[d],
         kind'[e] = "resolved" /\ row'[e] = "resolved" =>
           \A d \in Resolvable(e) :
             row'[d] = "resolved" \/ \E y \in (d + 1)..(e - 1) : kind[y] = "firing",
         related'[e] = related[e] \/ (related'[e] \in Events /\ row[related'[e]] \in ActiveDispositions)
  PROVE  Lively'
<1>1. /\ e = arrived + 1 /\ arrived' = e /\ kind' = [kind EXCEPT ![e] = status]
      /\ UNCHANGED <<workflow, pc, lost>> /\ \A d \in Events : row[d] \notin Uncommitted
  BY DEF Receive, admissionVars
<1>2. /\ arrived \in Nat /\ e \in Nat /\ Events \subseteq Nat
      /\ \A d \in Events : d # e => (d <= arrived' <=> d <= arrived)
      /\ e > arrived
  BY <1>1, ArrivedType, EventsType
<1>3. /\ kind'[e] = status /\ \A d \in Events : d # e => kind'[d] = kind[d]
      /\ row[e] = "absent" /\ kind[e] = "none" /\ workflow[e] = "none"
      /\ \A d \in Events : d > e => kind'[d] = "none"
  <2>1. kind'[e] = status /\ \A d \in Events : d # e => kind'[d] = kind[d]
    BY <1>1 DEF IInv, TypeOK
  <2>2. row[e] = "absent" /\ kind[e] = "none" /\ workflow[e] = "none"
    BY <1>2 DEF IInv, Arrivals
  <2>3. \A d \in Events : d > e => d > arrived /\ d # e
    BY <1>1, <1>2
  <2>4. QED
    BY <2>1, <2>2, <2>3 DEF IInv, Arrivals
<1>4. \A d : Overlapped(d)' <=> Overlapped(d)
  BY <1>1 DEF Overlapped
<1>5. Loaded'
  <2>1. related[e] = 0
    BY <1>2 DEF Lively, Loaded
  <2>2. ASSUME NEW d \in Events
        PROVE  /\ d <= arrived' => row'[d] # "absent"
               /\ related'[d] # 0 => d <= arrived'
               /\ row[d] \in Dispositions => row'[d] \in Dispositions
    <3>1. CASE d = e
      BY <1>1, <1>2, <1>3, <3>1 DEF Dispositions
    <3>2. CASE d # e
      BY <1>2, <3>2 DEF Lively, Loaded, Dispositions
    <3>3. QED
      BY <3>1, <3>2
  <2>3. QED
    BY <1>1, <2>2, AttemptParts DEF Lively, Loaded
<1>6. Quiet'
  BY <1>1, <1>3 DEF Lively, Quiet
<1>7. ASSUME NEW d \in Events, NEW x \in Events, d < x, x # e, Refires(d, x)
      PROVE  Refires(d, x)'
  <2>1. PICK y \in (d + 1)..(x - 1) : kind[y] = "firing"
    BY <1>7 DEF Refires
  <2>2. y \in Events /\ y # e
    BY <1>2, <1>3, <2>1, EventsType, BoundsAssumption DEF Events
  <2>3. QED
    BY <1>3, <2>1, <2>2 DEF Refires
<1>8. Settled'
  <2> SUFFICES ASSUME NEW d \in Events, NEW x \in Events, d < x, kind'[d] = "firing",
                      kind'[x] = "resolved", row'[x] = "resolved"
               PROVE  row'[d] \in {"resolved", "rolled back"} \/ d \in hasty' \/ Overlapped(d)'
                        \/ Refires(d, x)'
    BY DEF Settled
  <2>1. d # e /\ kind[d] = "firing"
    BY <1>2, <1>3
  <2>2. CASE x = e
    <3>1. row[d] \in Dispositions \cup {"rolled back"}
      <4>1. d <= arrived
        BY <1>1, <1>2, <2>2
      <4>2. row[d] # "absent" /\ row[d] \notin Uncommitted
        BY <1>1, <4>1 DEF Lively, Loaded
      <4>3. row[d] \in RowStates
        BY DEF IInv, TypeOK, RowStates
      <4>4. QED
        BY <4>2, <4>3 DEF RowStates
    <3>2. CASE row[d] \in {"resolved", "rolled back"}
      BY <2>1, <3>2
    <3>3. CASE row[d] \notin {"resolved", "rolled back"}
      <4>1. d \in Resolvable(e)
        <5>1. d \in 1..(e - 1)
          BY <1>2, <2>2, BoundsAssumption DEF Events
        <5>2. QED
          BY <2>1, <3>1, <3>3, <5>1 DEF Resolvable
      <4>2. CASE row'[d] = "resolved"
        BY <4>2
      <4>3. ASSUME NEW y \in (d + 1)..(e - 1), kind[y] = "firing"
            PROVE  Refires(d, x)'
        <5>1. y \in Events /\ y # e
          BY <1>2, <4>3, EventsType, BoundsAssumption DEF Events
        <5>2. QED
          BY <1>3, <2>2, <4>3, <5>1 DEF Refires
      <4>4. QED
        BY <2>2, <4>1, <4>2, <4>3
    <3>4. QED
      BY <3>2, <3>3
  <2>3. CASE x # e
    <3>1. kind[x] = "resolved" /\ row[x] = "resolved"
      BY <1>3, <2>3
    <3>2. row[d] \in {"resolved", "rolled back"} \/ d \in hasty \/ Overlapped(d) \/ Refires(d, x)
      BY <2>1, <3>1 DEF Lively, Settled
    <3>3. QED
      BY <1>4, <1>7, <2>1, <2>3, <3>2
  <2>4. QED
    BY <2>2, <2>3
<1>9. SuppressedByLive'
  <2> SUFFICES ASSUME NEW f \in Events, NEW d, d = related'[f], d # 0, NEW x \in (d + 1)..(f - 1),
                      kind'[x] = "resolved", row'[x] = "resolved"
               PROVE  \/ \E y \in (d + 1)..(x - 1) : kind'[y] = "firing"
                      \/ d \in hasty' \/ Overlapped(d)
    BY <1>4 DEF SuppressedByLive, Overlapped
  <2>1. \A i \in Events : related[i] # 0 => i <= arrived /\ related[i] \in Events
    BY ArrivedType, BoundsAssumption DEF Events, Lively, Loaded
  <2>2. f <= e /\ d \in Events
    <3>1. CASE f = e
      BY <1>2, <2>1, <3>1
    <3>2. CASE f # e
      BY <1>1, <1>2, <2>1, <3>2
    <3>3. QED
      BY <3>1, <3>2
  <2>3. x \in Events /\ x # e /\ d < x
    BY <1>2, <2>2, EventsType, BoundsAssumption DEF Events
  <2>4. kind[x] = "resolved" /\ row[x] = "resolved"
    BY <1>3, <2>3
  <2>5. \/ \E y \in (d + 1)..(x - 1) : kind[y] = "firing"
        \/ d \in hasty \/ Overlapped(d)
    <3>1. CASE related'[f] = related[f]
      BY <2>4, <3>1 DEF Lively, SuppressedByLive
    <3>2. CASE related'[f] # related[f]
      <4>1. f = e /\ row[d] \in ActiveDispositions
        BY <3>2
      <4>2. kind[d] = "firing"
        <5>1. kind[d] # "resolved"
          BY <2>2, <4>1 DEF IInv, Arrivals, ActiveDispositions
        <5>2. d <= arrived
          <6>1. ~(d > arrived)
            BY <2>2, <4>1 DEF IInv, Arrivals, ActiveDispositions
          <6>2. QED
            BY <1>2, <2>2, <6>1
        <5>3. kind[d] \in {"none", "firing", "resolved"} /\ kind[d] # "none"
          BY <2>2, <5>2 DEF IInv, TypeOK, Arrivals
        <5>4. QED
          BY <5>1, <5>3
      <4>3. row[d] \notin {"resolved", "rolled back"}
        BY <4>1 DEF ActiveDispositions
      <4>4. QED
        BY <2>2, <2>3, <2>4, <4>2, <4>3 DEF Lively, Settled, Refires
    <3>3. QED
      BY <3>1, <3>2
  <2>6. ASSUME NEW y \in (d + 1)..(x - 1), kind[y] = "firing"
        PROVE  kind'[y] = "firing"
    BY <1>2, <1>3, <2>2, <2>3, <2>6, EventsType, BoundsAssumption DEF Events
  <2>7. QED
    BY <2>5, <2>6
<1>10. QED
  BY <1>5, <1>6, <1>8, <1>9 DEF Lively

LEMMA LivelyIngest ==
  ASSUME IInv, Lively, NEW e \in Events, Ingest(e)
  PROVE  Lively'
<1>1. row \in [Events -> RowStates] /\ related \in [Events -> 0..MaxEvents]
  BY DEF IInv, TypeOK, RowStates
<1>2. CASE Skip(e)
  <2>1. PICK status \in {"firing", "resolved"} : Receive(e, status)
    BY <1>2 DEF Skip, Kinds
  <2>2. /\ row'[e] = "failed" /\ related' = related /\ hasty' = hasty
        /\ \A d \in Events : d # e => row'[d] = row[d]
    BY <1>1, <1>2 DEF Skip, Kinds
  <2>3. QED
    BY <2>1, <2>2, LivelyReceive
<1>3. CASE IngestResolved(e) /\ Resolvable(e) = {}
  <2>1. /\ Receive(e, "resolved") /\ row'[e] = "resolved" /\ related' = related
        /\ hasty' = hasty /\ \A d \in Events : d # e => row'[d] = row[d]
    BY <1>1, <1>3 DEF IngestResolved
  <2>2. QED
    BY <1>3, <2>1, LivelyReceive
<1>4. CASE IngestResolved(e) /\ Resolvable(e) # {}
  <2> DEFINE m == Max(Resolvable(e))
  <2>1. Resolvable(e) \subseteq Events
    BY EventsType, BoundsAssumption DEF Resolvable, Events
  <2>2. m \in Resolvable(e) /\ \A d \in Resolvable(e) : d <= m
    BY <1>4, <2>1, Newest
  <2>3. /\ Receive(e, "resolved") /\ related' = related
        /\ row' = [row EXCEPT ![e] = "resolved", ![m] = "resolved"]
        /\ hasty' = IF workflow[m] \in {"gate", "create"} THEN hasty \cup {m} ELSE hasty
    BY <1>4 DEF IngestResolved
  <2> HIDE DEF m
  <2>4. m \in Events /\ m \in 1..(e - 1) /\ kind[m] = "firing" /\ row[m] \in Dispositions
    BY <2>1, <2>2 DEF Resolvable
  <2>5. /\ row'[e] = "resolved" /\ row'[m] = "resolved" /\ hasty \subseteq hasty'
        /\ \A d \in Events : d # e => row'[d] = row[d] \/ (d = m /\ row'[d] = "resolved")
        /\ workflow[m] \in {"gate", "create"} => m \in hasty'
    <3>1. row'[e] = "resolved" /\ row'[m] = "resolved"
      BY <1>1, <2>3, <2>4
    <3>2. \A d \in Events : d # e => row'[d] = row[d] \/ (d = m /\ row'[d] = "resolved")
      BY <1>1, <2>3, <2>4
    <3>3. hasty \subseteq hasty' /\ (workflow[m] \in {"gate", "create"} => m \in hasty')
      BY <2>3
    <3>4. QED
      BY <3>1, <3>2, <3>3
  <2>6. ASSUME NEW d \in Resolvable(e)
        PROVE  row'[d] = "resolved" \/ \E y \in (d + 1)..(e - 1) : kind[y] = "firing"
    <3>1. CASE d = m
      BY <2>5, <3>1
    <3>2. CASE d # m
      <4>1. d \in Events /\ d <= m
        BY <2>1, <2>2
      <4>2. m \in (d + 1)..(e - 1)
        BY <2>4, <3>2, <4>1, EventsType
      <4>3. QED
        BY <2>4, <4>2
    <3>3. QED
      BY <3>1, <3>2
  <2>7. \A d \in Events : d # e =>
          /\ \/ row'[d] = row[d]
             \/ /\ kind[d] = "firing" /\ row'[d] = "resolved" /\ row[d] \in Dispositions
                /\ workflow[d] \in {"gate", "create"} => d \in hasty'
          /\ related'[d] = related[d]
    BY <2>3, <2>4, <2>5
  <2>8. QED
    BY <2>3, <2>5, <2>6, <2>7, LivelyReceive
<1>5. CASE IngestFiring(e)
  <2>1. Receive(e, "firing") /\ hasty' = hasty
    BY <1>5 DEF IngestFiring
  <2>2. PICK oldest \in 1..e :
          \/ /\ Duplicates(oldest..(e - 1)) # {}
             /\ SuppressDuplicate(e, Duplicates(oldest..(e - 1)))
          \/ /\ row' \in {[row EXCEPT ![e] = "attached"], [row EXCEPT ![e] = "open"]}
             /\ UNCHANGED related
    BY <1>5 DEF IngestFiring
  <2> DEFINE D == Duplicates(oldest..(e - 1))
  <2>3. D \subseteq Events /\ \A d \in D : row[d] \in ActiveDispositions
    BY EventsType, BoundsAssumption DEF Duplicates, Events
  <2> HIDE DEF D
  <2>4. kind'[e] = "firing"
    BY <2>1 DEF Receive, IInv, TypeOK
  <2>5. CASE D # {} /\ SuppressDuplicate(e, D)
    <3>1. Max(D) \in Events /\ row[Max(D)] \in ActiveDispositions
      BY <2>3, <2>5, Newest
    <3>2. /\ \A d \in Events : d # e => row'[d] = row[d] /\ related'[d] = related[d]
          /\ row'[e] = "suppressed" /\ related'[e] = Max(D)
      BY <1>1, <2>5 DEF SuppressDuplicate
    <3>3. QED
      BY <2>1, <2>4, <3>1, <3>2, LivelyReceive
  <2>6. CASE /\ row' \in {[row EXCEPT ![e] = "attached"], [row EXCEPT ![e] = "open"]}
             /\ UNCHANGED related
    <3>1. /\ \A d \in Events : d # e => row'[d] = row[d] /\ related'[d] = related[d]
          /\ row'[e] \in {"attached", "open"} /\ related'[e] = related[e]
      BY <1>1, <2>6
    <3>2. QED
      BY <2>1, <2>4, <3>1, LivelyReceive
  <2>7. QED
    BY <2>2, <2>5, <2>6 DEF D
<1>6. QED
  BY <1>2, <1>3, <1>4, <1>5 DEF Ingest

LEMMA LivelyAdmission ==
  ASSUME IInv, Lively, NEW e \in Events,
         Transaction(e) \/ Rollback(e) \/ Begin(e) \/ Investigate(e) \/ GiveUp(e)
  PROVE  Lively'
<1>1. UNCHANGED <<arrived, kind, related, hasty>> /\ lost \subseteq lost'
  BY DEF Transaction, Dispatch, Commit, Rollback, Begin, BeginGate, GateFails, BeginCreate,
         CannotCreate, Investigate, ContextFails, StartRunning, InvestigationEnds, GiveUp,
         eventVars
<1>2. row \in [Events -> RowStates] /\ workflow \in [Events -> Workflows]
  BY DEF IInv, TypeOK, RowStates
<1>3. CASE Transaction(e) \/ Rollback(e)
  <2>1. /\ \A d \in Events : d # e => row'[d] = row[d] /\ workflow'[d] = workflow[d]
        /\ row[e] \in Uncommitted
        /\ row'[e] \in Uncommitted \cup {"correlated", "failed", "rolled back"}
        /\ workflow'[e] = workflow[e] \/ (row[e] = "open" /\ workflow'[e] # "create")
        /\ pc' = pc
    BY <1>2, <1>3 DEF Transaction, Dispatch, Commit, Rollback, Uncommitted, admissionVars
  <2>2. \A d \in Events : /\ RowKept(d)
                          /\ workflow'[d] \in {"gate", "create"} =>
                               workflow[d] \in {"gate", "create"} \/ row[d] = "open"
    BY <2>1 DEF RowKept, Uncommitted
  <2>3. Loaded'
    BY <1>1, <2>1, AttemptParts, ZenonT(60) DEF Lively, Loaded, Uncommitted, Dispositions
  <2>4. QED
    BY <1>1, <2>2, <2>3, LivelyKept DEF Lively
<1>4. CASE Begin(e) \/ Investigate(e) \/ GiveUp(e)
  <2>1. /\ row' = row
        /\ \A d \in Events : workflow'[d] = workflow[d] \/ workflow'[d] \notin {"gate", "create"}
    BY <1>2, <1>4
    DEF Begin, BeginGate, GateFails, BeginCreate, CannotCreate, Investigate, ContextFails,
        StartRunning, InvestigationEnds, GiveUp, Advance, admissionVars
  <2>2. \A d \in Events : /\ RowKept(d)
                          /\ workflow'[d] \in {"gate", "create"} =>
                               workflow[d] \in {"gate", "create"} \/ row[d] = "open"
    BY <2>1 DEF RowKept
  <2>3. pc' = pc \/ \E p : /\ NextAttempt(e, p)
                           /\ p = "deciding" \/ p \in Creating => row[e] \in Dispositions
    <3>1. CASE BeginGate(e)
      <4>1. NextAttempt(e, IF Visible(e) THEN "deciding" ELSE "over")
        BY <3>1 DEF BeginGate
      <4>2. QED
        BY <4>1 DEF Visible, Creating
    <3>2. CASE BeginCreate(e)
      <4>1. workflow[e] = "create" /\ \E p : NextAttempt(e, p)
        BY <3>2 DEF BeginCreate
      <4>2. QED
        BY <4>1 DEF Lively, Loaded
    <3>3. CASE ~BeginGate(e) /\ ~BeginCreate(e)
      BY <1>4, <3>3
      DEF Begin, GateFails, CannotCreate, Investigate, ContextFails, StartRunning,
          InvestigationEnds, GiveUp, admissionVars
    <3>4. QED
      BY <3>1, <3>2, <3>3
  <2>4. \A r \in Attempts : pc'[r] = "deciding" \/ pc'[r] \in Creating => row[r[1]] \in Dispositions
    <3>1. CASE pc' = pc
      BY <3>1 DEF Lively, Loaded
    <3>2. ASSUME NEW p, NextAttempt(e, p),
                 p = "deciding" \/ p \in Creating => row[e] \in Dispositions
          PROVE  \A r \in Attempts :
                   pc'[r] = "deciding" \/ pc'[r] \in Creating => row[r[1]] \in Dispositions
      <4> DEFINE n == <<e, tries[e] + 1>>
      <4>1. n[1] = e /\ pc' = [pc EXCEPT ![n] = p] /\ DOMAIN pc = Attempts
        BY <3>2 DEF NextAttempt, IInv, TypeOK
      <4> HIDE DEF n
      <4>2. \A r \in Attempts : pc'[r] = IF r = n THEN p ELSE pc[r]
        BY <4>1
      <4>3. QED
        BY <3>2, <4>1, <4>2 DEF Lively, Loaded
    <3>3. QED
      BY <2>3, <3>1, <3>2
  <2>5. Loaded'
    BY <1>1, <2>1, <2>4 DEF Lively, Loaded
  <2>6. QED
    BY <1>1, <2>2, <2>5, LivelyKept DEF Lively
<1>5. QED
  BY <1>3, <1>4

LEMMA LivelyAttempt ==
  ASSUME IInv, Lively, NEW r \in Attempts, Step(r)
  PROVE  Lively'
<1>1. pc[r] = "deciding" \/ pc[r] \in Creating
  BY DEF Step, SaveDecision, Refuse, CreateExecution, Link, Creating
<1>2. UNCHANGED <<arrived, kind, related, lost, hasty>>
  BY DEF Step, SaveDecision, Refuse, CreateExecution, Link, eventVars
<1>3. /\ r[1] \in Events /\ workflow[r[1]] # "none" /\ row[r[1]] \in Dispositions
      /\ r \in lost => Overlapped(r[1])
      /\ r \notin lost => workflow[r[1]] \in {"gate", "create"}
  BY <1>1, Saver DEF Lively, Loaded
<1>4. row \in [Events -> RowStates] /\ workflow \in [Events -> Workflows]
  BY DEF IInv, TypeOK, RowStates
<1>5. /\ \A d \in Events : d # r[1] => row'[d] = row[d] /\ workflow'[d] = workflow[d]
      /\ \/ row'[r[1]] = row[r[1]] /\ workflow'[r[1]] = workflow[r[1]]
         \/ /\ row'[r[1]] \in {"decided", "low_value", "failed", "started"}
            /\ workflow'[r[1]] = workflow[r[1]] \/ r \notin lost
      /\ workflow'[r[1]] # "gate" \/ workflow'[r[1]] = workflow[r[1]]
  BY <1>3, <1>4
  DEF Step, SaveDecision, Refuse, CreateExecution, Link, Saved, Answer, Advance, Heard
<1>6. kind[r[1]] = "firing"
  <2>1. kind[r[1]] \in {"none", "firing", "resolved"}
    BY <1>3 DEF IInv, TypeOK
  <2>2. kind[r[1]] # "resolved"
    BY <1>3 DEF IInv, Arrivals
  <2>3. kind[r[1]] # "none"
    <3>1. ~(r[1] > arrived)
      BY <1>3 DEF IInv, Arrivals
    <3>2. r[1] <= arrived
      BY <1>3, <3>1, ArrivedType
    <3>3. QED
      BY <1>3, <3>2 DEF IInv, Arrivals
  <2>4. QED
    BY <2>1, <2>2, <2>3
<1>7. row[r[1]] = "resolved" => r[1] \in hasty \/ Overlapped(r[1])
  BY <1>3, <1>6 DEF Lively, Quiet
<1>8. \A d \in Events : /\ RowKept(d)
                        /\ workflow'[d] \in {"gate", "create"} =>
                             workflow[d] \in {"gate", "create"} \/ row[d] = "open"
  BY <1>3, <1>5, <1>7 DEF RowKept, Dispositions
<1>9. Loaded'
  <2>1. \A q \in Attempts :
          pc'[q] = "deciding" \/ pc'[q] \in Creating => pc[q] = "deciding" \/ pc[q] \in Creating
    BY DEF Step, SaveDecision, Refuse, CreateExecution, Link, Goto, IInv, TypeOK, Creating
  <2>2. \A d \in Events : /\ row[d] \in Dispositions => row'[d] \in Dispositions
                          /\ row[d] # "absent" => row'[d] # "absent"
    BY <1>3, <1>5 DEF Dispositions
  <2>3. \A d \in Events : workflow'[d] = "create" => workflow[d] = "create" \/ d = r[1]
    BY <1>5
  <2>4. QED
    BY <1>2, <1>3, <2>1, <2>2, <2>3, AttemptParts DEF Lively, Loaded
<1>10. QED
  BY <1>2, <1>8, <1>9, LivelyKept DEF Lively

LEMMA LivelyStep == IInv /\ Lively /\ [Next]_vars => Lively'
<1> SUFFICES ASSUME IInv, Lively, [Next]_vars PROVE Lively'
  OBVIOUS
<1>1. CASE DeleteReceiver \/ UNCHANGED vars
  <2>1. UNCHANGED <<arrived, kind, row, related, workflow, pc, lost, hasty>>
    BY <1>1 DEF DeleteReceiver, vars, eventVars, admissionVars
  <2>2. \A d \in Events : RowKept(d) /\ workflow'[d] = workflow[d]
    BY <2>1 DEF RowKept
  <2>3. Quiet' /\ Settled' /\ SuppressedByLive'
    BY <2>1, <2>2, LivelyKept
  <2>4. Loaded'
    BY <2>1 DEF Lively, Loaded
  <2>5. QED
    BY <2>3, <2>4 DEF Lively
<1>2. QED
  BY <1>1, LivelyIngest, LivelyAdmission, LivelyAttempt DEF Next

LEMMA LivelyInit == Init => Lively
<1> SUFFICES ASSUME Init PROVE Lively
  OBVIOUS
<1>1. \A e \in Events : ~(e <= arrived)
  BY DEF Init, Events
<1>2. QED
  BY <1>1, AttemptParts
  DEF Init, Lively, Loaded, Quiet, Settled, SuppressedByLive, Creating

-----------------------------------------------------------------------------
(* The executions and who runs them. *)

\* An execution is made by one attempt, between its creation and its link; one
\* that is queued when its attempt is over is the one its investigation was given.
Executions ==
  /\ \A r \in Attempts :
       /\ pc[r] = "linking" => execution[r] = "queued"
       /\ execution[r] # "absent" => pc[r] \in {"linking", "over"}
       /\ execution[r] = "queued" /\ pc[r] = "over" =>
            \/ r \in lost \/ deleted
            \/ child[r[1]] = r[2] /\ workflow[r[1]] \in {"child", "failed"}
  /\ \A e \in Events : /\ child[e] # 0 => pc[<<e, child[e]>>] = "over"
                       /\ workflow[e] \in {"child", "dispatched"} => child[e] # 0

LEMMA ChildAttempt ==
  ASSUME IInv
  PROVE  \A e \in Events : child[e] # 0 => /\ <<e, child[e]>> \in Attempts
                                          /\ <<e, child[e]>>[1] = e /\ <<e, child[e]>>[2] = child[e]
<1>1. \A e \in Events : child[e] \in 0..Bound
  BY DEF IInv, TypeOK, Bound
<1>2. \A e \in Events : child[e] # 0 => child[e] \in 1..Bound
  BY <1>1, BoundType
<1>3. QED
  BY <1>2, AttemptParts

\* Steps of the requests and of what ends or gives up an admission.
LEMMA ExecutionsKept ==
  ASSUME IInv, Executions, UNCHANGED <<pc, execution, child>>, lost \subseteq lost',
         deleted => deleted',
         \A d \in Events :
           /\ workflow[d] \in {"child", "failed"} => workflow'[d] \in {"child", "failed"}
           /\ workflow'[d] \in {"child", "dispatched"} => workflow[d] \in {"child", "dispatched"}
  PROVE  Executions'
BY AttemptParts DEF Executions

LEMMA ExecutionsBegin ==
  ASSUME IInv, Executions, NEW e \in Events, BeginGate(e) \/ BeginCreate(e)
  PROVE  Executions'
<1>1. UNCHANGED <<workflow, lost, deleted, execution, child>>
  BY DEF BeginGate, BeginCreate
<1>2. PICK p \in {"deciding", "over", "refusing", "creating"} : NextAttempt(e, p)
  BY DEF BeginGate, BeginCreate
<1>3. tries[e] \in Nat
  BY Numbers
<1> DEFINE n == <<e, tries[e] + 1>>
<1>4. pc' = [pc EXCEPT ![n] = p] /\ n[1] = e /\ n[2] = tries[e] + 1 /\ DOMAIN pc = Attempts
  BY <1>2 DEF NextAttempt, IInv, TypeOK
<1> HIDE DEF n
<1>5. \A r \in Attempts : pc'[r] = IF r = n THEN p ELSE pc[r]
  BY <1>4
<1>6. n \in Attempts => pc[n] = "none"
  BY <1>3, <1>4 DEF IInv, Attempted
<1>7. \A d \in Events : child[d] # 0 => <<d, child[d]>> # n /\ <<d, child[d]>> \in Attempts
  BY <1>6, ChildAttempt DEF Executions
<1>8. QED
  BY <1>1, <1>5, <1>6, <1>7 DEF Executions

LEMMA ExecutionsRun ==
  ASSUME IInv, Executions, NEW e \in Events, StartRunning(e) \/ InvestigationEnds(e)
  PROVE  Executions'
<1> DEFINE n == <<e, child[e]>>
<1>1. /\ UNCHANGED <<pc, lost, deleted, child>> /\ workflow[e] = "child"
      /\ \E s \in {"running", "ended"} : execution' = [execution EXCEPT ![n] = s]
      /\ workflow' \in {workflow, [workflow EXCEPT ![e] = "dispatched"]}
  BY DEF StartRunning, InvestigationEnds, admissionVars, Advance
<1>2. child[e] # 0
  BY <1>1 DEF Executions
<1>3. n \in Attempts /\ pc[n] = "over" /\ \A r \in Attempts : r[1] = e /\ r[2] = child[e] => r = n
  BY <1>2, ChildAttempt, AttemptParts DEF Executions
<1> HIDE DEF n
<1>4. /\ execution'[n] \in {"running", "ended"}
      /\ \A r \in Attempts : r # n => execution'[r] = execution[r]
  BY <1>1, <1>3 DEF IInv, TypeOK
<1>5. \A d \in Events : workflow'[d] = workflow[d] \/ (d = e /\ workflow'[d] = "dispatched")
  BY <1>1 DEF IInv, TypeOK
<1>6. ASSUME NEW r \in Attempts
      PROVE  /\ pc[r] = "linking" => execution'[r] = "queued"
             /\ execution'[r] # "absent" => pc[r] \in {"linking", "over"}
             /\ execution'[r] = "queued" /\ pc[r] = "over" =>
                  \/ r \in lost \/ deleted
                  \/ child[r[1]] = r[2] /\ workflow'[r[1]] \in {"child", "failed"}
  <2>1. r[1] \in Events
    BY AttemptParts
  <2>2. CASE r = n
    BY <1>3, <1>4, <2>2
  <2>3. CASE r # n
    BY <1>3, <1>4, <1>5, <2>1, <2>3 DEF Executions
  <2>4. QED
    BY <2>2, <2>3
<1>7. \A d \in Events : workflow'[d] \in {"child", "dispatched"} => child[d] # 0
  BY <1>2, <1>5 DEF Executions
<1>8. QED
  BY <1>1, <1>6, <1>7 DEF Executions

LEMMA ExecutionsStep ==
  ASSUME IInv, Executions, NEW r \in Attempts, Step(r)
  PROVE  Executions'
<1>1. /\ pc[r] = "deciding" \/ pc[r] \in Creating
      /\ UNCHANGED <<lost, deleted>>
  BY DEF Step, SaveDecision, Refuse, CreateExecution, Link, Creating
<1>2. /\ r[1] \in Events /\ r[2] # 0 /\ r = <<r[1], r[2]>>
      /\ r \notin lost => workflow[r[1]] \in {"gate", "create"} /\ child[r[1]] = 0
  BY <1>1, Saver, AttemptParts, BoundType
<1>3. PICK p \in {"over", "linking"} :
        /\ \A q \in Attempts : pc'[q] = IF q = r THEN p ELSE pc[q]
        /\ p = "linking" <=> pc[r] = "creating"
  BY DEF Step, SaveDecision, Refuse, CreateExecution, Link, Goto, IInv, TypeOK
<1>4. \A q \in Attempts : /\ q # r => execution'[q] = execution[q]
                          /\ q = r => execution'[q] = IF p = "linking" THEN "queued" ELSE execution[q]
  BY <1>3 DEF Step, SaveDecision, Refuse, CreateExecution, Link, Goto, IInv, TypeOK
<1>5. /\ \A d \in Events : d # r[1] => child'[d] = child[d] /\ workflow'[d] = workflow[d]
      /\ \/ child'[r[1]] = child[r[1]] /\ workflow'[r[1]] = workflow[r[1]]
            /\ (pc[r] = "linking" => r \in lost \/ deleted)
         \/ /\ child'[r[1]] = child[r[1]] /\ r \notin lost /\ pc[r] # "linking"
            /\ workflow'[r[1]] \in {"create", "suppressed", "refused"}
         \/ child'[r[1]] = r[2] /\ workflow'[r[1]] = "child" /\ r \notin lost
  <2>1. workflow \in [Events -> Workflows] /\ child \in [Events -> 0..Bound]
    BY DEF IInv, TypeOK, Bound
  <2>2. QED
    BY <1>2, <2>1
    DEF Step, SaveDecision, Refuse, CreateExecution, Link, Answer, Advance, Heard
<1>6. execution[r] = IF pc[r] = "linking" THEN "queued" ELSE "absent"
  BY <1>1 DEF Executions, Creating
<1>7. ASSUME NEW q \in Attempts
      PROVE  /\ pc'[q] = "linking" => execution'[q] = "queued"
             /\ execution'[q] # "absent" => pc'[q] \in {"linking", "over"}
             /\ execution'[q] = "queued" /\ pc'[q] = "over" =>
                  \/ q \in lost \/ deleted
                  \/ child'[q[1]] = q[2] /\ workflow'[q[1]] \in {"child", "failed"}
  <2>1. q[1] \in Events /\ q[2] # 0 /\ q = <<q[1], q[2]>>
    BY AttemptParts, BoundType
  <2>2. CASE q = r
    BY <1>1, <1>3, <1>4, <1>5, <1>6, <2>2 DEF Creating
  <2>3. CASE q # r
    BY <1>2, <1>3, <1>4, <1>5, <2>1, <2>3 DEF Executions
  <2>4. QED
    BY <2>2, <2>3
<1>8. ASSUME NEW d \in Events
      PROVE  /\ child'[d] # 0 => pc'[<<d, child'[d]>>] = "over"
             /\ workflow'[d] \in {"child", "dispatched"} => child'[d] # 0
  <2>1. CASE child'[d] = child[d]
    <3>1. child[d] # 0 => <<d, child[d]>> # r /\ <<d, child[d]>> \in Attempts
      BY <1>1, ChildAttempt DEF Executions, Creating
    <3>2. QED
      BY <1>2, <1>3, <1>5, <2>1, <3>1 DEF Executions
  <2>2. CASE child'[d] # child[d]
    <3>1. d = r[1] /\ child'[d] = r[2] /\ <<d, child'[d]>> = r
      BY <1>2, <1>5, <2>2
    <3>2. pc[r] # "creating"
      BY <2>2, <3>1 DEF Step, SaveDecision, Refuse, CreateExecution, Link
    <3>3. QED
      BY <1>2, <1>3, <3>1, <3>2
  <2>3. QED
    BY <2>1, <2>2
<1>9. QED
  BY <1>1, <1>7, <1>8 DEF Executions

LEMMA ExecutionsNext == IInv /\ Executions /\ [Next]_vars => Executions'
<1> SUFFICES ASSUME IInv, Executions, [Next]_vars PROVE Executions'
  OBVIOUS
<1>1. workflow \in [Events -> Workflows]
  BY DEF IInv, TypeOK
<1>2. ASSUME NEW e \in Events,
             Ingest(e) \/ Transaction(e) \/ Rollback(e) \/ GateFails(e) \/ CannotCreate(e)
               \/ ContextFails(e) \/ GiveUp(e)
      PROVE  Executions'
  <2>1. /\ UNCHANGED <<pc, execution, child>> /\ lost \subseteq lost' /\ deleted' = deleted
        /\ \/ workflow' = workflow
           \/ workflow' = [workflow EXCEPT ![e] = "failed"]
           \/ workflow' = [workflow EXCEPT ![e] = "stuck"] /\ workflow[e] = "create"
           \/ /\ workflow' \in {[workflow EXCEPT ![e] = w] : w \in {"none", "gate"}}
              /\ row[e] = "open"
    BY <1>2
    DEF Ingest, Skip, Kinds, IngestResolved, IngestFiring, Receive, Transaction, Dispatch, Commit,
        Rollback, GateFails, CannotCreate, ContextFails, GiveUp, Advance, admissionVars
  <2>2. row[e] = "open" => workflow[e] = "none"
    BY DEF IInv, Arrivals
  <2>3. ASSUME NEW d \in Events
        PROVE  /\ workflow[d] \in {"child", "failed"} => workflow'[d] \in {"child", "failed"}
               /\ workflow'[d] \in {"child", "dispatched"} => workflow[d] \in {"child", "dispatched"}
    BY <1>1, <2>1, <2>2
  <2>4. QED
    BY <2>1, <2>3, ExecutionsKept
<1>3. CASE DeleteReceiver \/ UNCHANGED vars
  <2>1. UNCHANGED <<pc, execution, child, lost, workflow>> /\ (deleted => deleted')
    BY <1>3 DEF DeleteReceiver, vars, admissionVars
  <2>2. QED
    BY <2>1, ExecutionsKept
<1>4. QED
  BY <1>2, <1>3, ExecutionsBegin, ExecutionsRun, ExecutionsStep
  DEF Next, Begin, Investigate

-----------------------------------------------------------------------------
(* The limit of the receiver. *)

\* The investigation of e runs; with e on its way to it, e takes one of the places.
Runs(e) == child[e] # 0 /\ execution[<<e, child[e]>>] = "running"
Holding == {e \in Events \ raced : Admitting(e) \/ Runs(e)}

\* What was not raced to its place keeps to the limit.
Held == Cardinality(Holding) <= MaxActive

LEMMA FiniteEvents == IsFiniteSet(Events) /\ IsFiniteSet(Attempts)
<1>1. IsFiniteSet(Events) /\ IsFiniteSet(1..Bound)
  BY BoundsAssumption, BoundType, FS_Interval DEF Events
<1>2. QED
  BY <1>1, FS_Product DEF Attempts, Bound

LEMMA HeldKept ==
  ASSUME Held, Holding' \subseteq Holding
  PROVE  Held'
<1>1. IsFiniteSet(Holding)
  BY FiniteEvents, FS_Subset DEF Holding
<1>2. Cardinality(Holding') <= Cardinality(Holding) /\ Cardinality(Holding) \in Nat
      /\ Cardinality(Holding') \in Nat
  BY <1>1, FS_Subset, FS_CardinalityType
<1>3. QED
  BY <1>2, BoundsAssumption DEF Held

\* No more admissions have a running investigation than executions run.
LEMMA RunsCounted ==
  ASSUME IInv, NEW S \in SUBSET {e \in Events : Runs(e)}
  PROVE  /\ IsFiniteSet(S) /\ Cardinality(S) <= Cardinality(Running)
         /\ Cardinality(S) \in Nat /\ Cardinality(Running) \in Nat
<1>1. IsFiniteSet(S) /\ IsFiniteSet(Running)
  BY FiniteEvents, FS_Subset DEF Running
<1>2. Cardinality(S) \in Nat /\ Cardinality(Running) \in Nat
  BY <1>1, FS_CardinalityType
<1> DEFINE f == [e \in S |-> <<e, child[e]>>]
<1>3. f \in [S -> Running]
  BY ChildAttempt DEF Runs, Running
<1>4. \A x, y \in S : f[x] = f[y] => x = y
  OBVIOUS
<1> HIDE DEF f
<1>5. ~(Cardinality(Running) < Cardinality(S))
  BY <1>1, <1>3, <1>4, FS_PigeonHole
<1>6. QED
  BY <1>1, <1>2, <1>5

\* Where an admission is that is past the limits.
LEMMA CurrentAttempt ==
  ASSUME IInv
  PROVE  \A e \in Events : workflow[e] = "create" =>
           Current(e) \in Attempts /\ Current(e)[1] = e /\ Current(e)[2] = tries[e]
BY Numbers, AttemptParts DEF IInv, Counted, Current

LEMMA HeldBegin ==
  ASSUME IInv, Executions, Held, NEW e \in Events, BeginGate(e) \/ BeginCreate(e)
  PROVE  Held'
<1>1. UNCHANGED <<workflow, execution, child>> /\ workflow[e] \in {"gate", "create"}
  BY DEF BeginGate, BeginCreate
<1>2. PICK p \in {"deciding", "over", "refusing", "creating"} :
        /\ NextAttempt(e, p)
        /\ \/ (p # "creating" \/ workflow[e] = "gate") /\ raced' = raced
           \/ /\ p = "creating" /\ workflow[e] = "create" /\ BelowLimit
              /\ raced' = IF \E d \in Events \ {e} : Admitting(d) THEN raced \cup {e} ELSE raced
  BY DEF BeginGate, BeginCreate
<1>3. tries[e] \in Nat /\ \A d \in Events : tries[d] \in Nat
  BY Numbers
<1> DEFINE n == <<e, tries[e] + 1>>
<1>4. /\ pc' = [pc EXCEPT ![n] = p] /\ n[1] = e /\ n[2] = tries[e] + 1 /\ DOMAIN pc = Attempts
      /\ tries' = [tries EXCEPT ![e] = tries[e] + 1] /\ tries \in [Events -> 0..Bound]
  BY <1>2 DEF NextAttempt, IInv, TypeOK, Bound
<1>5. Current(e)' = n /\ \A d \in Events : d # e => Current(d)' = Current(d)
  BY <1>4 DEF Current
<1> HIDE DEF n
<1>6. /\ pc'[n] \in {"none", p} \/ n \notin Attempts
      /\ \A r \in Attempts : r # n => pc'[r] = pc[r]
  BY <1>4
<1>7. ASSUME NEW d \in Events, d # e
      PROVE  Admitting(d)' => Admitting(d)
  <2>1. workflow[d] = "create" => Current(d) \in Attempts /\ Current(d) # n
    BY <1>4, <1>7, CurrentAttempt
  <2>2. Current(d)' = Current(d)
    BY <1>5, <1>7
  <2>3. QED
    BY <1>1, <1>6, <2>1, <2>2 DEF Admitting
<1>8. \A d \in Events : Runs(d)' <=> Runs(d)
  BY <1>1 DEF Runs
<1>9. CASE p # "creating" \/ workflow[e] = "gate"
  <2>1. raced' = raced
    BY <1>2, <1>9
  <2>2. n \in Attempts => pc'[n] = p
    BY <1>4
  <2>3. n \in Attempts
    <3>1. tries'[e] = tries[e] + 1
      BY <1>4
    <3>2. tries'[e] \in 0..Bound
      BY BeginStep DEF IInv, TypeOK, Bound
    <3>3. tries[e] + 1 \in 1..Bound
      BY <1>3, <3>1, <3>2, BoundType
    <3>4. QED
      BY <3>3, AttemptParts DEF n
  <2>4. ~Admitting(e)'
    BY <1>1, <1>2, <1>5, <1>9, <2>2, <2>3 DEF Admitting
  <2>5. Holding' \subseteq Holding
    BY <1>7, <1>8, <2>1, <2>4 DEF Holding
  <2>6. QED
    BY <2>5, HeldKept
<1>10. CASE p = "creating" /\ workflow[e] = "create"
  <2>1. CASE \E d \in Events \ {e} : Admitting(d)
    <3>1. raced' = raced \cup {e}
      BY <1>1, <1>2, <1>10, <2>1
    <3>2. Holding' \subseteq Holding
      BY <1>7, <1>8, <3>1 DEF Holding
    <3>3. QED
      BY <3>2, HeldKept
  <2>2. CASE ~\E d \in Events \ {e} : Admitting(d)
    <3> DEFINE S == {d \in Events \ raced : d # e /\ Runs(d)}
    <3>1. Holding' \subseteq S \cup {e}
      <4>1. \A d \in Holding' : d # e => d \in Events \ raced /\ Runs(d)
        BY <1>2, <1>7, <1>8, <2>2 DEF Holding
      <4>2. QED
        BY <4>1
    <3>2. S \in SUBSET {d \in Events : Runs(d)}
      OBVIOUS
    <3> HIDE DEF S
    <3>3. /\ IsFiniteSet(S) /\ Cardinality(S) <= Cardinality(Running)
          /\ Cardinality(S) \in Nat /\ Cardinality(Running) \in Nat
      BY <3>2, RunsCounted
    <3>4. Cardinality(Running) < MaxActive
      BY <1>2, <1>10 DEF BelowLimit
    <3>5. IsFiniteSet(S \cup {e}) /\ Cardinality(S \cup {e}) <= Cardinality(S) + 1
      <4>1. /\ IsFiniteSet(S \cup {e})
            /\ Cardinality(S \cup {e}) = IF e \in S THEN Cardinality(S) ELSE Cardinality(S) + 1
        BY <3>3, FS_AddElement
      <4>2. QED
        BY <3>3, <4>1
    <3>6. /\ Cardinality(Holding') <= Cardinality(S \cup {e})
          /\ Cardinality(Holding') \in Nat /\ Cardinality(S \cup {e}) \in Nat
      BY <3>1, <3>5, FS_Subset, FS_CardinalityType
    <3>7. QED
      BY <3>3, <3>4, <3>5, <3>6, BoundsAssumption DEF Held
  <2>3. QED
    BY <2>1, <2>2
<1>11. QED
  BY <1>2, <1>9, <1>10

\* An admission goes from one stage to the next in the place it holds.
LEMMA HeldMove ==
  ASSUME IInv, Executions, Held, NEW e \in Events, StartRunning(e) \/ InvestigationEnds(e)
  PROVE  Held'
<1> DEFINE n == <<e, child[e]>>
<1>1. /\ UNCHANGED <<tries, pc, child, raced>> /\ workflow[e] = "child"
      /\ workflow' \in {workflow, [workflow EXCEPT ![e] = "dispatched"]}
      /\ \/ execution[n] = "queued" /\ execution' = [execution EXCEPT ![n] = "running"]
         \/ execution[n] = "running" /\ execution' = [execution EXCEPT ![n] = "ended"]
  BY DEF StartRunning, InvestigationEnds, admissionVars, Advance
<1>2. child[e] # 0
  BY <1>1 DEF Executions
<1>3. n \in Attempts
  BY <1>2, ChildAttempt
<1>4. \A d \in Events : d # e => <<d, child[d]>> # n
  OBVIOUS
<1> HIDE DEF n
<1>5. /\ \/ execution[n] = "queued" /\ execution'[n] = "running"
         \/ execution[n] = "running" /\ execution'[n] = "ended"
      /\ \A r \in Attempts : r # n => execution'[r] = execution[r]
  BY <1>1, <1>3, ZenonT(60) DEF IInv, TypeOK
<1>6. \A d \in Events : workflow'[d] \in {"create", "child"} => workflow'[d] = workflow[d]
  BY <1>1 DEF IInv, TypeOK
<1>7. \A d \in Events : Current(d)' = Current(d)
  BY <1>1 DEF Current
<1>8. ASSUME NEW d \in Events, Admitting(d)' \/ Runs(d)'
      PROVE  Admitting(d) \/ Runs(d)
  <2>1. CASE d = e
    BY <1>1, <1>2, <1>5, <1>6, <1>8, <2>1 DEF Admitting, Runs, n
  <2>2. CASE d # e
    <3>1. child[d] # 0 => execution'[<<d, child[d]>>] = execution[<<d, child[d]>>]
      BY <1>4, <1>5, <2>2, ChildAttempt
    <3>2. workflow[d] = "child" => child[d] # 0
      BY DEF Executions
    <3>3. QED
      BY <1>1, <1>6, <1>7, <1>8, <3>1, <3>2 DEF Admitting, Runs
  <2>3. QED
    BY <2>1, <2>2
<1>9. Holding' \subseteq Holding
  BY <1>1, <1>8 DEF Holding
<1>10. QED
  BY <1>9, HeldKept

LEMMA HeldStep ==
  ASSUME IInv, Executions, Held, NEW r \in Attempts, Step(r)
  PROVE  Held'
<1>1. /\ pc[r] = "deciding" \/ pc[r] \in Creating
      /\ UNCHANGED <<tries, raced>>
  BY DEF Step, SaveDecision, Refuse, CreateExecution, Link, Creating
<1>2. /\ r[1] \in Events /\ r[2] # 0 /\ r = <<r[1], r[2]>>
      /\ r \notin lost => r = Current(r[1])
      /\ r \notin lost /\ pc[r] \in Creating => workflow[r[1]] = "create"
  <2>1. r[1] \in Events /\ r[2] # 0 /\ r = <<r[1], r[2]>>
    BY AttemptParts, BoundType
  <2>2. r \notin lost => r[2] = tries[r[1]]
    BY <1>1 DEF IInv, Attempted
  <2>3. QED
    BY <2>1, <2>2 DEF IInv, Attempted, Current
<1>3. /\ \A q \in Attempts : q # r => pc'[q] = pc[q]
      /\ pc'[r] = IF pc[r] = "creating" THEN "linking" ELSE "over"
  BY DEF Step, SaveDecision, Refuse, CreateExecution, Link, Goto, IInv, TypeOK
<1>4. /\ \A q \in Attempts : q # r => execution'[q] = execution[q]
      /\ pc[r] # "creating" => execution'[r] = execution[r]
      /\ pc[r] = "creating" => execution'[r] = "queued" /\ UNCHANGED <<workflow, child>>
  BY DEF Step, SaveDecision, Refuse, CreateExecution, Link, Goto, IInv, TypeOK
<1>5. /\ \A d \in Events : d # r[1] => child'[d] = child[d] /\ workflow'[d] = workflow[d]
      /\ \/ child'[r[1]] = child[r[1]] /\ workflow'[r[1]] = workflow[r[1]]
         \/ /\ child'[r[1]] = child[r[1]] /\ r \notin lost
            /\ workflow'[r[1]] \in {"create", "suppressed", "refused"}
            /\ pc[r] # "creating"
         \/ child'[r[1]] = r[2] /\ workflow'[r[1]] = "child" /\ r \notin lost /\ pc[r] = "linking"
  <2>1. workflow \in [Events -> Workflows] /\ child \in [Events -> 0..Bound]
    BY DEF IInv, TypeOK, Bound
  <2>2. QED
    BY <1>2, <2>1
    DEF Step, SaveDecision, Refuse, CreateExecution, Link, Answer, Advance, Heard
<1>6. \A d \in Events : Current(d)' = Current(d)
  BY <1>1 DEF Current
<1>7. execution[r] = IF pc[r] = "linking" THEN "queued" ELSE "absent"
  BY <1>1 DEF Executions, Creating
<1>8. ASSUME NEW d \in Events, Admitting(d)' \/ Runs(d)'
      PROVE  Admitting(d) \/ Runs(d)
  <2>1. CASE child'[d] = child[d] /\ workflow'[d] = workflow[d]
    <3>1. child[d] # 0 => <<d, child[d]>> \in Attempts /\ <<d, child[d]>> # r
      BY <1>1, ChildAttempt DEF Executions, Creating
    <3>2. workflow[d] = "child" => child[d] # 0
      BY DEF Executions
    <3>3. child[d] # 0 => execution'[<<d, child[d]>>] = execution[<<d, child[d]>>]
      BY <1>4, <3>1
    <3>4. workflow[d] = "create" /\ pc'[Current(d)] \in {"creating", "linking"} =>
            pc[Current(d)] \in {"creating", "linking"}
      BY <1>3, CurrentAttempt
    <3>5. QED
      BY <1>6, <1>8, <2>1, <3>2, <3>3, <3>4 DEF Admitting, Runs
  <2>2. CASE ~(child'[d] = child[d] /\ workflow'[d] = workflow[d])
    <3>1. d = r[1] /\ r \notin lost /\ Current(d) = r /\ pc[r] # "creating"
      BY <1>2, <1>5, <2>2
    <3>2. CASE child'[d] = r[2] /\ workflow'[d] = "child" /\ pc[r] = "linking"
      BY <1>2, <3>1, <3>2 DEF Admitting, Creating
    <3>3. CASE child'[d] = child[d] /\ workflow'[d] \in {"create", "suppressed", "refused"}
      <4>1. ~Admitting(d)'
        BY <1>3, <1>6, <3>1, <3>3 DEF Admitting
      <4>2. child[d] # 0 => <<d, child[d]>> \in Attempts /\ <<d, child[d]>> # r
        BY <1>1, ChildAttempt DEF Executions, Creating
      <4>3. QED
        BY <1>4, <1>8, <3>3, <4>1, <4>2 DEF Runs
    <3>4. QED
      BY <1>5, <2>2, <3>1, <3>2, <3>3
  <2>3. QED
    BY <2>1, <2>2
<1>9. Holding' \subseteq Holding
  BY <1>1, <1>8 DEF Holding
<1>10. QED
  BY <1>9, HeldKept

LEMMA HeldNext == IInv /\ Executions /\ Held /\ [Next]_vars => Held'
<1> SUFFICES ASSUME IInv, Executions, Held, [Next]_vars PROVE Held'
  OBVIOUS
<1>1. workflow \in [Events -> Workflows]
  BY DEF IInv, TypeOK
<1>2. ASSUME UNCHANGED <<tries, pc, execution, child, raced>>,
             \A d \in Events : workflow'[d] \in {"create", "child"} => workflow'[d] = workflow[d]
      PROVE  Held'
  <2>1. Holding' \subseteq Holding
    BY <1>2 DEF Holding, Admitting, Runs, Current
  <2>2. QED
    BY <2>1, HeldKept
<1>3. ASSUME NEW e \in Events,
             Ingest(e) \/ Transaction(e) \/ Rollback(e) \/ GateFails(e) \/ CannotCreate(e)
               \/ ContextFails(e) \/ GiveUp(e)
      PROVE  Held'
  <2>1. /\ UNCHANGED <<tries, pc, execution, child, raced>>
        /\ \/ workflow' = workflow
           \/ \E w \in {"failed", "stuck", "none", "gate"} : workflow' = [workflow EXCEPT ![e] = w]
    BY <1>3
    DEF Ingest, Skip, Kinds, IngestResolved, IngestFiring, Receive, Transaction, Dispatch, Commit,
        Rollback, GateFails, CannotCreate, ContextFails, GiveUp, Advance, admissionVars
  <2>2. \A d \in Events : workflow'[d] \in {"create", "child"} => workflow'[d] = workflow[d]
    BY <1>1, <2>1
  <2>3. QED
    BY <1>2, <2>1, <2>2
<1>4. CASE DeleteReceiver \/ UNCHANGED vars
  BY <1>2, <1>4 DEF DeleteReceiver, vars, admissionVars
<1>5. QED
  BY <1>3, <1>4, HeldBegin, HeldMove, HeldStep DEF Next, Begin, Investigate

-----------------------------------------------------------------------------
(* What an event says of its admission. *)

\* The gate of e has answered no attempt, or e has failed before an investigation.
Unanswered(e) ==
  child[e] = 0 /\ (workflow[e] = "failed" \/ (workflow[e] = "gate" /\ tries[e] > 0
                                               /\ pc[Current(e)] = "over"))

Told(e) ==
  ~Overlapped(e) =>
    /\ linked[e] = child[e]
    /\ workflow[e] = "suppressed" => row[e] \in {"low_value", "resolved"}
    /\ workflow[e] = "refused" => row[e] \in {"failed", "resolved"}
    /\ Unanswered(e) => deleted \/ row[e] = "rolled back" \/ e \in early

AllTold == \A e \in Events : Told(e)

LEMMA IngestRows ==
  ASSUME IInv, NEW e \in Events, Ingest(e)
  PROVE  /\ UNCHANGED <<linked, deleted, workflow, tries, pc, lost, execution, child, early>>
         /\ workflow[e] = "none"
         /\ \A d \in Events : d # e => row'[d] = row[d]
                                       \/ (row'[d] = "resolved" /\ row[d] \in Dispositions)
<1>1. row \in [Events -> RowStates]
  BY DEF IInv, TypeOK, RowStates
<1>2. /\ UNCHANGED <<linked, deleted, workflow, tries, pc, lost, execution, child, early>>
      /\ e = arrived + 1
  BY DEF Ingest, Skip, Kinds, IngestResolved, IngestFiring, Receive, admissionVars
<1>3. workflow[e] = "none"
  BY <1>2, ArrivedType DEF IInv, Arrivals
<1>4. CASE Skip(e) \/ IngestFiring(e) \/ (IngestResolved(e) /\ Resolvable(e) = {})
  BY <1>1, <1>2, <1>3, <1>4 DEF Skip, Kinds, IngestFiring, IngestResolved, SuppressDuplicate
<1>5. CASE IngestResolved(e) /\ Resolvable(e) # {}
  <2> DEFINE m == Max(Resolvable(e))
  <2>1. Resolvable(e) \subseteq Events
    BY EventsType, BoundsAssumption DEF Resolvable, Events
  <2>2. m \in Events /\ row[m] \in Dispositions
    BY <1>5, <2>1, Newest DEF Resolvable
  <2>3. row' = [row EXCEPT ![e] = "resolved", ![m] = "resolved"]
    BY <1>5 DEF IngestResolved
  <2> HIDE DEF m
  <2>4. QED
    BY <1>1, <1>2, <1>3, <2>2, <2>3
<1>6. QED
  BY <1>4, <1>5 DEF Ingest

\* A current attempt of one event is no attempt of another.
LEMMA CurrentApart ==
  ASSUME IInv, NEW d \in Events, tries[d] > 0
  PROVE  Current(d) \in Attempts /\ Current(d)[1] = d
BY Numbers, AttemptParts, BoundType DEF Current

LEMMA ToldRequests ==
  ASSUME IInv, AllTold, NEW e \in Events, Ingest(e) \/ Transaction(e) \/ Rollback(e)
  PROVE  AllTold'
<1> SUFFICES ASSUME NEW d \in Events PROVE Told(d)'
  BY DEF AllTold
<1>1. Told(d)
  BY DEF AllTold
<1>2. CASE Ingest(e)
  <2>1. /\ UNCHANGED <<linked, deleted, workflow, tries, pc, lost, child, early>>
        /\ workflow[e] = "none"
        /\ d # e => row'[d] = row[d] \/ (row'[d] = "resolved" /\ row[d] \in Dispositions)
    BY <1>2, IngestRows
  <2>2. QED
    BY <1>1, <2>1 DEF Told, Unanswered, Overlapped, Current, Dispositions
<1>3. CASE Transaction(e) \/ Rollback(e)
  <2>1. row \in [Events -> RowStates] /\ workflow \in [Events -> Workflows]
    BY DEF IInv, TypeOK, RowStates
  <2>2. /\ d # e => row'[d] = row[d] /\ workflow'[d] = workflow[d]
        /\ row[e] \in Uncommitted
        /\ workflow'[e] = workflow[e] \/ (row[e] = "open" /\ workflow'[e] \in {"none", "gate"})
        /\ UNCHANGED <<linked, deleted, tries, pc, lost, child, early>>
    BY <1>3, <2>1 DEF Transaction, Dispatch, Commit, Rollback, Uncommitted, admissionVars
  <2>3. row[e] = "open" => tries[e] = 0
    BY DEF IInv, Arrivals
  <2>4. CASE d # e
    BY <1>1, <2>2, <2>4 DEF Told, Unanswered, Overlapped, Current
  <2>5. CASE d = e /\ workflow'[e] = workflow[e]
    BY <1>1, <2>2, <2>5 DEF Told, Unanswered, Overlapped, Current, Uncommitted
  <2>6. CASE d = e /\ workflow'[e] # workflow[e]
    <3>1. tries[d] = 0 /\ tries' = tries /\ workflow'[d] \in {"none", "gate"}
      BY <2>2, <2>3, <2>6
    <3>2. ~Unanswered(d)' /\ workflow'[d] # "suppressed" /\ workflow'[d] # "refused"
      BY <3>1 DEF Unanswered
    <3>3. (~Overlapped(d) => linked[d] = child[d])'
      BY <1>1, <2>2 DEF Told, Overlapped
    <3>4. QED
      BY <3>2, <3>3 DEF Told
  <2>7. QED
    BY <2>4, <2>5, <2>6
<1>4. QED
  BY <1>2, <1>3

LEMMA ToldBegin ==
  ASSUME IInv, Lively, AllTold, NEW e \in Events, BeginGate(e) \/ BeginCreate(e)
  PROVE  AllTold'
<1> SUFFICES ASSUME NEW d \in Events PROVE Told(d)'
  BY DEF AllTold
<1>1. Told(d)
  BY DEF AllTold
<1>2. /\ UNCHANGED <<row, linked, deleted, workflow, lost, child>> /\ early \subseteq early'
      /\ workflow[e] \in {"gate", "create"}
  BY DEF BeginGate, BeginCreate
<1>3. PICK p :
        /\ NextAttempt(e, p)
        /\ workflow[e] = "gate" /\ p = "over" =>
             ~Visible(e) /\ (row[e] \in Uncommitted => e \in early')
  BY DEF BeginGate, BeginCreate
<1> DEFINE n == <<e, tries[e] + 1>>
<1>4. /\ pc' = [pc EXCEPT ![n] = p] /\ n[1] = e /\ DOMAIN pc = Attempts
      /\ tries' = [tries EXCEPT ![e] = tries[e] + 1] /\ tries \in [Events -> 0..Bound]
  BY <1>3 DEF NextAttempt, IInv, TypeOK, Bound
<1>5. Current(e)' = n /\ \A b \in Events : b # e => Current(b)' = Current(b) /\ tries'[b] = tries[b]
  BY <1>4 DEF Current
<1>6. n \in Attempts
  <2>1. tries'[e] = tries[e] + 1 /\ tries[e] \in Nat
    BY <1>4, Numbers
  <2>2. tries'[e] \in 0..Bound
    BY BeginStep DEF IInv, TypeOK, Bound
  <2>3. tries[e] + 1 \in 1..Bound
    BY <2>1, <2>2, BoundType
  <2>4. QED
    BY <2>3, AttemptParts
<1> HIDE DEF n
<1>7. \A r \in Attempts : pc'[r] = IF r = n THEN p ELSE pc[r]
  BY <1>4
<1>8. CASE d = e
  <2>1. row[e] # "absent"
    <3>1. e <= arrived
      BY <1>2, ArrivedType DEF IInv, Arrivals
    <3>2. QED
      BY <3>1 DEF Lively, Loaded
  <2>2. row[e] \in RowStates
    BY DEF IInv, TypeOK, RowStates
  <2>3. workflow[e] = "gate" /\ p = "over" => deleted \/ row[e] = "rolled back" \/ e \in early'
    BY <1>3, <2>1, <2>2 DEF Visible, RowStates
  <2>4. pc'[Current(e)'] = p
    BY <1>5, <1>6, <1>7
  <2>5. QED
    BY <1>1, <1>2, <1>8, <2>3, <2>4 DEF Told, Unanswered, Overlapped
<1>9. CASE d # e
  <2>1. tries[d] > 0 => pc'[Current(d)] = pc[Current(d)]
    BY <1>4, <1>7, <1>9, CurrentApart
  <2>2. Current(d)' = Current(d) /\ tries'[d] = tries[d]
    BY <1>5, <1>9
  <2>3. QED
    BY <1>1, <1>2, <2>1, <2>2 DEF Told, Unanswered, Overlapped
<1>10. QED
  BY <1>8, <1>9

LEMMA ToldEnds ==
  ASSUME IInv, Executions, AllTold, NEW e \in Events,
         GateFails(e) \/ CannotCreate(e) \/ Investigate(e) \/ GiveUp(e)
  PROVE  AllTold'
<1> SUFFICES ASSUME NEW d \in Events PROVE Told(d)'
  BY DEF AllTold
<1>1. Told(d)
  BY DEF AllTold
<1>2. /\ UNCHANGED <<row, linked, deleted, tries, pc, child, early>> /\ lost \subseteq lost'
      /\ workflow \in [Events -> Workflows]
  BY DEF GateFails, CannotCreate, Investigate, ContextFails, StartRunning, InvestigationEnds,
         GiveUp, admissionVars, IInv, TypeOK
<1>3. Overlapped(d) => Overlapped(d)'
  BY <1>2 DEF Overlapped
<1>4. CASE GateFails(e)
  <2>1. workflow' = [workflow EXCEPT ![e] = "failed"] /\ workflow[e] = "gate" /\ Idle(e)
        /\ tries[e] > 0
    BY <1>4, BoundsAssumption DEF GateFails, Advance
  <2>2. pc[Current(e)] = "over" \/ Overlapped(e)
    BY <2>1, CurrentApart DEF Idle, Overlapped
  <2>3. d = e /\ ~Overlapped(d) /\ child[d] = 0 => Unanswered(d)
    BY <2>1, <2>2 DEF Unanswered
  <2>4. workflow'[d] = IF d = e THEN "failed" ELSE workflow[d]
    BY <1>2, <2>1
  <2>5. QED
    BY <1>1, <1>2, <1>3, <2>3, <2>4 DEF Told, Unanswered, Current
<1>5. CASE CannotCreate(e) \/ Investigate(e) \/ GiveUp(e)
  <2>1. \/ workflow'[d] = workflow[d]
        \/ workflow'[d] \in {"stuck", "dispatched"}
        \/ workflow'[d] = "failed" /\ workflow[d] = "child"
    BY <1>2, <1>5
    DEF CannotCreate, Investigate, ContextFails, StartRunning, InvestigationEnds, GiveUp, Advance,
        admissionVars
  <2>2. workflow[d] = "child" => child[d] # 0
    BY DEF Executions
  <2>3. QED
    BY <1>1, <1>2, <1>3, <2>1, <2>2 DEF Told, Unanswered, Current
<1>6. QED
  BY <1>4, <1>5

LEMMA ToldStep ==
  ASSUME IInv, AllTold, NEW r \in Attempts, Step(r)
  PROVE  AllTold'
<1> SUFFICES ASSUME NEW d \in Events PROVE Told(d)'
  BY DEF AllTold
<1>1. Told(d)
  BY DEF AllTold
<1>2. UNCHANGED <<deleted, tries, lost, early>> /\ (pc[r] = "deciding" \/ pc[r] \in Creating)
  BY DEF Step, SaveDecision, Refuse, CreateExecution, Link, Creating
<1>3. Overlapped(d)' <=> Overlapped(d)
  BY <1>2 DEF Overlapped
<1>4. r[1] \in Events /\ (r \in lost => Overlapped(r[1]))
      /\ (r \notin lost => child[r[1]] = 0)
  BY <1>2, Saver
<1>5. /\ row \in [Events -> RowStates] /\ workflow \in [Events -> Workflows]
      /\ child \in [Events -> 0..Bound] /\ linked \in [Events -> 0..Bound]
  BY DEF IInv, TypeOK, RowStates, Bound
<1>6. CASE d # r[1]
  <2>1. /\ row'[d] = row[d] /\ workflow'[d] = workflow[d] /\ child'[d] = child[d]
        /\ linked'[d] = linked[d]
    BY <1>4, <1>5, <1>6
    DEF Step, SaveDecision, Refuse, CreateExecution, Link, Saved, Answer, Advance
  <2>2. tries[d] > 0 => pc'[Current(d)] = pc[Current(d)]
    <3>1. \A q \in Attempts : q # r => pc'[q] = pc[q]
      BY DEF Step, SaveDecision, Refuse, CreateExecution, Link, Goto, IInv, TypeOK
    <3>2. QED
      BY <1>6, <3>1, CurrentApart
  <2>3. Current(d)' = Current(d)
    BY <1>2 DEF Current
  <2>4. QED
    BY <1>1, <1>2, <1>3, <2>1, <2>2, <2>3 DEF Told, Unanswered
<1>7. CASE d = r[1] /\ r \in lost
  BY <1>3, <1>4, <1>7 DEF Told
<1>8. CASE d = r[1] /\ r \notin lost
  <2>1. \/ /\ linked'[d] = linked[d] /\ child'[d] = child[d]
           /\ \/ deleted /\ workflow'[d] = workflow[d] /\ row'[d] = row[d]
              \/ workflow'[d] = workflow[d] /\ row'[d] = row[d] /\ pc[r] = "creating"
              \/ workflow'[d] = "create"
              \/ workflow'[d] = "suppressed" /\ row'[d] = "low_value"
              \/ workflow'[d] = "refused" /\ row'[d] = "failed"
        \/ linked'[d] = r[2] /\ child'[d] = r[2] /\ workflow'[d] = "child"
    BY <1>4, <1>5, <1>8
    DEF Step, SaveDecision, Refuse, CreateExecution, Link, Saved, Answer, Advance, Heard
  <2>2. pc[r] = "creating" => workflow[d] = "create"
    BY <1>8 DEF IInv, Attempted, Creating
  <2>3. QED
    BY <1>1, <1>2, <1>3, <2>1, <2>2 DEF Told, Unanswered
<1>9. QED
  BY <1>6, <1>7, <1>8

LEMMA ToldNext == IInv /\ Lively /\ Executions /\ AllTold /\ [Next]_vars => AllTold'
<1> SUFFICES ASSUME IInv, Lively, Executions, AllTold, [Next]_vars PROVE AllTold'
  OBVIOUS
<1>1. CASE DeleteReceiver \/ UNCHANGED vars
  <2>1. UNCHANGED <<row, linked, workflow, tries, pc, lost, child, early>> /\ (deleted => deleted')
    BY <1>1 DEF DeleteReceiver, vars, admissionVars
  <2>2. QED
    BY <2>1 DEF AllTold, Told, Unanswered, Overlapped, Current
<1>2. QED
  BY <1>1, ToldRequests, ToldBegin, ToldEnds, ToldStep DEF Next, Begin

-----------------------------------------------------------------------------
(* The theorems. *)

\* Every variable keeps its type; above all no admission makes more than
\* MaxAttempts + MaxFaults + 1 attempts at its activities, so that the bound on
\* Attempts cuts off no run: create_check_execution is retried without limit, but
\* only after a fault or, once, after the gate.
THEOREM TypeCorrect == Spec => []TypeOK
<1>1. IInv => TypeOK
  BY DEF IInv
<1>2. QED
  BY Invariant, <1>1, PTL

\* DeduplicationEngine and the admission workflow: however the attempts, faults
\* and resolutions interleave, an alert under investigation is investigated again
\* within the window only after it resolved or a given-up attempt wrote over it.
THEOREM InvestigatedOnce == Spec => []NoSecondInvestigation
<1>1. IInv => NoSecondInvestigation
  BY DEF IInv, Arrivals, Passed, NoSecondInvestigation
<1>2. QED
  BY Invariant, <1>1, PTL

\* DeduplicationEngine: what an event was suppressed for is or was investigated,
\* is part of an investigation or resolved, or was turned away after it, unless a
\* given-up attempt wrote over its disposition.
THEOREM NoneForgotten == Spec => []SuppressedIsCovered
<1>1. Init => Covering
  BY DEF Init, Covering, SuppressedIsCovered, ActiveDispositions
<1>2. Covering => SuppressedIsCovered
  BY DEF Covering
<1>3. QED
  BY <1>1, <1>2, CoveringStep, Invariant, PTL DEF Spec

\* DeduplicationEngine: an alert that resolved and fires again is a duplicate of an
\* event from before only if another firing event took the resolution in its
\* place, or an outcome was saved over RESOLVED.
THEOREM LiveSuppressor == Spec => []SuppressedByLive
<1>1. Lively => SuppressedByLive
  BY DEF Lively
<1>2. QED
  BY <1>1, LivelyInit, LivelyStep, Invariant, PTL DEF Spec

\* CheckReceiver.max_active_executions: an investigation that met no other
\* admission between its check of the limits and its start keeps to them.
THEOREM LimitHeld == Spec => []LimitHeldUnlessRaced
<1>1. Init => Executions /\ Held
  <2> SUFFICES ASSUME Init PROVE Executions /\ Held
    OBVIOUS
  <2>1. Executions
    BY DEF Init, Executions
  <2>2. Holding = {}
    BY DEF Init, Holding, Admitting, Runs
  <2>3. Held
    BY <2>2, FS_EmptySet, BoundsAssumption DEF Held
  <2>4. QED
    BY <2>1, <2>3
<1>2. Held => LimitHeldUnlessRaced
  <2> SUFFICES ASSUME Held PROVE LimitHeldUnlessRaced
    OBVIOUS
  <2> DEFINE S == {e \in Events \ raced : /\ child[e] # 0
                                         /\ execution[<<e, child[e]>>] = "running"}
  <2>1. S \subseteq Holding
    BY DEF Holding, Runs
  <2> HIDE DEF S
  <2>2. IsFiniteSet(Holding)
    BY FiniteEvents, FS_Subset DEF Holding
  <2>3. Cardinality(S) <= Cardinality(Holding) /\ Cardinality(S) \in Nat
        /\ Cardinality(Holding) \in Nat
    BY <2>1, <2>2, FS_Subset, FS_CardinalityType
  <2>4. Cardinality(S) <= MaxActive
    BY <2>3, BoundsAssumption DEF Held
  <2>5. QED
    BY <2>4 DEF LimitHeldUnlessRaced, S
<1>3. QED
  BY <1>1, <1>2, ExecutionsNext, HeldNext, Invariant, PTL DEF Spec

\* create_check_execution, evaluate_admission_gate and their workflow: when an
\* admission is over its event says how it ended and is linked to the execution
\* that was run, and no execution is queued that nobody will run, unless an
\* attempt was given up, the receiver deleted or the check not loaded.
THEOREM OutcomesRecorded == Spec => []OutcomeRecorded
<1>1. Init => Executions /\ AllTold /\ Lively
  <2> SUFFICES ASSUME Init PROVE Executions /\ AllTold /\ Lively
    OBVIOUS
  <2>1. Executions
    BY DEF Init, Executions
  <2>2. AllTold
    BY DEF Init, AllTold, Told, Unanswered
  <2>3. QED
    BY <2>1, <2>2, LivelyInit
<1>2. IInv /\ Executions /\ AllTold => OutcomeRecorded
  <2> SUFFICES ASSUME IInv, Executions, AllTold PROVE OutcomeRecorded
    OBVIOUS
  <2>1. ASSUME NEW e \in Events, ~Overlapped(e), ~deleted, row[e] # "resolved"
        PROVE  CASE workflow[e] \in {"child", "dispatched"} ->
                      row[e] = "started" /\ linked[e] = child[e]
                 [] workflow[e] = "suppressed" -> row[e] = "low_value" /\ linked[e] = 0
                 [] workflow[e] = "refused" -> row[e] = "failed" /\ linked[e] = 0
                 [] workflow[e] = "failed" /\ child[e] = 0 -> row[e] = "rolled back" \/ e \in early
                 [] OTHER -> TRUE
    <3>1. Told(e)
      BY DEF AllTold
    <3>2. child[e] # 0 => workflow[e] \in {"child", "dispatched", "failed"}
      BY DEF IInv, Arrivals
    <3>3. workflow[e] \in {"child", "dispatched"} => row[e] = "started"
      BY <2>1 DEF IInv, Investigated, Executions
    <3>4. QED
      BY <2>1, <3>1, <3>2, <3>3 DEF Told, Unanswered
  <2>2. QED
    BY <2>1 DEF OutcomeRecorded, Executions
<1>3. QED
  BY <1>1, <1>2, LivelyStep, ExecutionsNext, ToldNext, Invariant, PTL DEF Spec


-----------------------------------------------------------------------------
(* Admissions end: what their fairness rests on. *)

\* Every attempt that was begun is somewhere, and an investigation that was started
\* has its execution.
Alive ==
  /\ \A r \in Attempts : r[2] <= tries[r[1]] => pc[r] # "none"
  /\ \A e \in Events : workflow[e] = "child" => execution[<<e, child[e]>>] \in {"queued", "running"}

\* The guard of a step that goes on with the admission of e.
Ready(e) ==
  /\ workflow[e] = "gate" =>
       \/ Idle(e) /\ tries[e] <= MaxAttempts
       \/ Heard(Current(e)) /\ pc[Current(e)] = "deciding"
  /\ workflow[e] = "create" => Idle(e) \/ (Heard(Current(e)) /\ pc[Current(e)] \in Creating)
  /\ workflow[e] = "child" => execution[<<e, child[e]>>] \in {"queued", "running"}

LEMMA BeginBound ==
  ASSUME IInv, NEW e \in Events, BeginGate(e) \/ BeginCreate(e)
  PROVE  tries[e] < Bound
<1>1. /\ tries[e] \in Nat /\ faults \in Nat /\ faults <= MaxFaults
      /\ MaxAttempts \in Nat /\ MaxFaults \in Nat /\ Bound = MaxAttempts + MaxFaults + 1
  BY Numbers
<1>2. CASE BeginGate(e)
  BY <1>1, <1>2 DEF BeginGate
<1>3. CASE BeginCreate(e)
  <2>1. workflow[e] = "create" /\ Idle(e) /\ ~deleted /\ tries[e] > 0
    BY <1>3 DEF BeginCreate, IInv, Counted
  <2>2. CASE Current(e) \in lost
    BY <1>1, <2>1, <2>2 DEF IInv, Counted
  <2>3. CASE Current(e) \notin lost
    <3>1. pc[Current(e)] \notin Creating
      BY <2>1, <2>3 DEF Idle, Creating
    <3>2. tries[e] <= MaxAttempts
      BY <2>1, <2>3, <3>1 DEF IInv, Counted
    <3>3. QED
      BY <1>1, <3>2
  <2>4. QED
    BY <2>2, <2>3
<1>4. QED
  BY <1>2, <1>3

LEMMA AliveBegin ==
  ASSUME IInv, Alive, NEW e \in Events, Begin(e)
  PROVE  Alive'
<1>1. workflow \in [Events -> Workflows] /\ tries \in [Events -> 0..Bound]
  BY DEF IInv, TypeOK, Bound
<1>2. CASE GateFails(e) \/ CannotCreate(e)
  BY <1>1, <1>2 DEF GateFails, CannotCreate, Advance, Alive, Workflows
<1>3. CASE BeginGate(e) \/ BeginCreate(e)
  <2>1. PICK p \in {"deciding", "over", "refusing", "creating"} : NextAttempt(e, p)
    BY <1>3 DEF BeginGate, BeginCreate
  <2>2. UNCHANGED <<workflow, execution, child>>
    BY <1>3 DEF BeginGate, BeginCreate
  <2>3. tries[e] < Bound
    BY <1>3, BeginBound
  <2>4. ASSUME NEW r \in Attempts, r[2] <= tries'[r[1]]
        PROVE  pc'[r] # "none"
    <3> DEFINE n == <<e, tries[e] + 1>>
    <3>1. /\ pc'[n] = p /\ \A q \in Attempts : q # n => pc'[q] = pc[q]
          /\ \A q \in Attempts : q[1] = e /\ q[2] = tries[e] + 1 => q = n
          /\ tries'[e] = tries[e] + 1 /\ \A d \in Events : d # e => tries'[d] = tries[d]
          /\ tries[e] \in 0..Bound
      BY <2>1, <2>3, NextAttemptNew DEF IInv
    <3> HIDE DEF n
    <3>2. r[1] \in Events /\ r[2] \in 1..Bound /\ Bound \in Nat
      BY AttemptParts, BoundType
    <3>3. CASE r = n
      BY <2>1, <3>1, <3>3
    <3>4. CASE r # n
      <4>1. r[2] <= tries[r[1]]
        BY <2>4, <3>1, <3>2, <3>4
      <4>2. QED
        BY <3>1, <3>4, <4>1 DEF Alive
    <3>5. QED
      BY <3>3, <3>4
  <2>5. QED
    BY <2>2, <2>4 DEF Alive
<1>4. QED
  BY <1>2, <1>3 DEF Begin

LEMMA AliveAttempt ==
  ASSUME IInv, Executions, Alive, NEW r \in Attempts, Step(r)
  PROVE  Alive'
<1>1. /\ pc[r] = "deciding" \/ pc[r] \in Creating
      /\ UNCHANGED tries
  BY DEF Step, SaveDecision, Refuse, CreateExecution, Link, Creating
<1>2. /\ r[1] \in Events /\ r = <<r[1], r[2]>>
      /\ r \notin lost => workflow[r[1]] \in {"gate", "create"} /\ child[r[1]] = 0
  BY <1>1, Saver, AttemptParts
<1>3. \A q \in Attempts : pc'[q] = pc[q] \/ pc'[q] \in {"over", "linking"}
  BY DEF Step, SaveDecision, Refuse, CreateExecution, Link, Goto, IInv, TypeOK
<1>4. \A q \in Attempts : execution'[q] = execution[q] \/ execution'[q] = "queued"
  BY DEF Step, SaveDecision, Refuse, CreateExecution, Link, IInv, TypeOK
<1>5. ASSUME NEW e \in Events, workflow'[e] = "child"
      PROVE  execution'[<<e, child'[e]>>] \in {"queued", "running"}
  <2>1. \/ workflow[e] = "child" /\ child'[e] = child[e]
        \/ e = r[1] /\ pc[r] = "linking" /\ child'[e] = r[2] /\ UNCHANGED execution
    <3>1. workflow \in [Events -> Workflows] /\ child \in [Events -> 0..Bound]
      BY DEF IInv, TypeOK, Bound
    <3>2. r[1] = e /\ r \notin lost => workflow[e] # "child"
      BY <1>2
    <3>3. CASE SaveDecision(r) \/ Refuse(r) \/ CreateExecution(r)
      BY <1>2, <1>5, <3>1, <3>3
      DEF SaveDecision, Refuse, CreateExecution, Answer, Advance, Heard
    <3>4. CASE Link(r)
      BY <1>2, <1>5, <3>1, <3>2, <3>4 DEF Link, Answer, Advance, Heard
    <3>5. QED
      BY <3>3, <3>4 DEF Step
  <2>2. CASE workflow[e] = "child" /\ child'[e] = child[e]
    <3>1. <<e, child[e]>> \in Attempts
      BY <2>2, ChildAttempt DEF Executions
    <3>2. QED
      BY <1>4, <2>2, <3>1 DEF Alive
  <2>3. CASE e = r[1] /\ pc[r] = "linking" /\ child'[e] = r[2] /\ UNCHANGED execution
    BY <1>2, <2>3 DEF Executions
  <2>4. QED
    BY <2>1, <2>2, <2>3
<1>6. QED
  BY <1>1, <1>3, <1>5 DEF Alive

LEMMA AliveRun ==
  ASSUME IInv, Executions, Alive, NEW e \in Events, Investigate(e)
  PROVE  Alive'
<1>1. /\ UNCHANGED <<tries, pc, child>> /\ workflow[e] = "child"
      /\ \/ workflow' \in {[workflow EXCEPT ![e] = "failed"], [workflow EXCEPT ![e] = "dispatched"]}
         \/ workflow' = workflow /\ execution' = [execution EXCEPT ![<<e, child[e]>>] = "running"]
      /\ \A q \in Attempts : q # <<e, child[e]>> => execution'[q] = execution[q]
  BY DEF Investigate, ContextFails, StartRunning, InvestigationEnds, Advance, admissionVars, IInv, TypeOK
<1>2. workflow \in [Events -> Workflows] /\ execution \in [Attempts -> {"absent", "queued", "running", "ended"}]
  BY DEF IInv, TypeOK
<1>3. ASSUME NEW d \in Events, workflow'[d] = "child"
      PROVE  execution'[<<d, child[d]>>] \in {"queued", "running"}
  <2>1. workflow[d] = "child" /\ <<d, child[d]>> \in Attempts
    BY <1>1, <1>2, <1>3, ChildAttempt DEF Executions
  <2>2. CASE d = e
    BY <1>1, <1>2, <1>3, <2>1, <2>2
  <2>3. CASE d # e
    BY <1>1, <2>1, <2>3 DEF Alive
  <2>4. QED
    BY <2>2, <2>3
<1>4. QED
  BY <1>1, <1>3 DEF Alive

LEMMA AliveNext == IInv /\ Executions /\ Alive /\ [Next]_vars => Alive'
<1> SUFFICES ASSUME IInv, Executions, Alive, [Next]_vars PROVE Alive'
  OBVIOUS
<1>1. ASSUME NEW e \in Events, Ingest(e) \/ Transaction(e) \/ Rollback(e) \/ GiveUp(e)
      PROVE  Alive'
  <2>1. /\ UNCHANGED <<tries, pc, execution, child>>
        /\ \/ workflow' = workflow
           \/ workflow' \in {[workflow EXCEPT ![e] = w] : w \in {"none", "gate"}}
    BY <1>1
    DEF Ingest, Skip, Kinds, IngestResolved, IngestFiring, Receive, Transaction, Dispatch, Commit,
        Rollback, GiveUp, admissionVars
  <2>2. \A d \in Events : workflow'[d] = "child" => workflow[d] = "child"
    BY <2>1 DEF IInv, TypeOK
  <2>3. QED
    BY <2>1, <2>2 DEF Alive
<1>2. CASE DeleteReceiver \/ UNCHANGED vars
  <2>1. UNCHANGED <<tries, pc, execution, child, workflow>>
    BY <1>2 DEF DeleteReceiver, vars, admissionVars
  <2>2. QED
    BY <2>1 DEF Alive
<1>3. QED
  BY <1>1, <1>2, AliveBegin, AliveRun, AliveAttempt DEF Next

LEMMA AliveInit == Init => Executions /\ Alive
<1> SUFFICES ASSUME Init PROVE Executions /\ Alive
  OBVIOUS
<1>1. Executions
  BY DEF Init, Executions
<1>2. \A r \in Attempts : r[1] \in Events /\ ~(r[2] <= 0)
  BY AttemptParts, BoundType
<1>3. Alive
  <2>1. \A e \in Events : tries[e] = 0 /\ workflow[e] # "child"
    BY DEF Init
  <2>2. QED
    BY <1>2, <2>1 DEF Alive
<1>4. QED
  BY <1>1, <1>3

\* ReceiverAdmissionWorkflow: no admission waits for something that nobody will do.
\* One that is under way has an attempt its workflow listens to and that is at work, may
\* begin another or give the gate up, or has its investigation queued or running.
THEOREM AdmissionsReady == Spec => [](\A e \in UnderWay : Ready(e))
<1>1. IInv /\ Executions /\ Alive => \A e \in UnderWay : Ready(e)
  <2> SUFFICES ASSUME IInv, Executions, Alive, NEW e \in UnderWay PROVE Ready(e)
    OBVIOUS
  <2>1. e \in Events /\ workflow[e] \in {"gate", "create", "child"}
    BY DEF UnderWay
  <2>2. CASE workflow[e] = "child"
    BY <2>1, <2>2 DEF Alive, Ready
  <2>3. CASE workflow[e] \in {"gate", "create"} /\ ~Idle(e)
    <3>1. tries[e] > 0 /\ pc[Current(e)] # "over" /\ Current(e) \notin lost
      BY <2>3 DEF Idle
    <3>2. /\ Current(e) \in Attempts /\ Current(e)[1] = e /\ Current(e)[2] = tries[e]
          /\ tries[e] \in Nat
      BY <2>1, <3>1, Numbers, AttemptParts, BoundType DEF Current
    <3>3. pc[Current(e)] \in {"deciding", "refusing", "creating", "linking"}
      <4>1. pc[Current(e)] \in {"none", "deciding", "refusing", "creating", "linking", "over"}
        BY <3>2 DEF IInv, TypeOK
      <4>2. pc[Current(e)] # "none"
        BY <3>2 DEF Alive
      <4>3. QED
        BY <3>1, <4>1, <4>2
    <3>4. /\ pc[Current(e)] = "deciding" => workflow[e] = "gate"
          /\ pc[Current(e)] \in Creating => workflow[e] = "create"
      BY <3>1, <3>2 DEF IInv, Attempted
    <3>5. QED
      BY <2>3, <3>1, <3>3, <3>4 DEF Ready, Heard, Creating
  <2>4. CASE workflow[e] \in {"gate", "create"} /\ Idle(e)
    BY <2>1, <2>4 DEF Ready, IInv, Counted
  <2>5. QED
    BY <2>1, <2>2, <2>3, <2>4
<1>2. QED
  BY <1>1, AliveInit, AliveNext, ExecutionsNext, Invariant, PTL DEF Spec

\* How far the admission of e is from its end, and how many attempts it has left.
Stage(e) ==
  IF workflow[e] = "none" THEN IF e > arrived THEN 5 ELSE IF row[e] = "open" THEN 4 ELSE 0
  ELSE IF workflow[e] = "gate" THEN 3
  ELSE IF workflow[e] = "create" THEN 2
  ELSE IF workflow[e] = "child" THEN 1 ELSE 0
\* What the current attempt, or the investigation, has left to do.
Phase(e) ==
  IF workflow[e] = "child" THEN IF execution[<<e, child[e]>>] = "queued" THEN 2 ELSE 1
  ELSE IF ~(tries[e] > 0) THEN 0
  ELSE IF pc[Current(e)] = "creating" THEN 2
  ELSE IF pc[Current(e)] \in {"deciding", "refusing", "linking"} THEN 1 ELSE 0
Uncommittedness(e) == IF row[e] \in {"dispatched", "undispatched"} THEN 1 ELSE 0

Left(e) == <<Stage(e), Bound - tries[e], Phase(e), Uncommittedness(e)>>

Lower(a, b) == \E k \in 1..4 : a[k] < b[k] /\ \A j \in 1..(k - 1) : a[j] = b[j]

\* A step that goes on with e, the one its workflow waits for if it is an attempt's.
Works(e) ==
  \/ Ingest(e) \/ Transaction(e) \/ Begin(e) \/ Investigate(e)
  \/ tries[e] > 0 /\ Heard(Current(e)) /\ Step(Current(e))

Lowered(e) == Lower(Left(e)', Left(e))
Kept(e) == Lowered(e) \/ Left(e)' = Left(e)

RunsDown ==
  /\ \A e \in Events : Kept(e)
  /\ (\E e \in Events : Works(e)) => \E e \in Events : Lowered(e)

LEMMA LeftParts ==
  ASSUME NEW e \in Events
  PROVE  /\ Left(e)[1] = Stage(e) /\ Left(e)[2] = Bound - tries[e] /\ Left(e)[3] = Phase(e)
         /\ Left(e)[4] = Uncommittedness(e)
         /\ Left(e)'[1] = Stage(e)' /\ Left(e)'[2] = Bound - tries'[e] /\ Left(e)'[3] = Phase(e)'
         /\ Left(e)'[4] = Uncommittedness(e)'
         /\ Stage(e) \in 0..5 /\ Phase(e) \in 0..2 /\ Uncommittedness(e) \in 0..1
         /\ IInv => Bound - tries[e] \in Nat
<1>1. Stage(e) \in 0..5 /\ Phase(e) \in 0..2 /\ Uncommittedness(e) \in 0..1
  BY DEF Stage, Phase, Uncommittedness
<1>2. IInv => Bound - tries[e] \in Nat
  BY BoundType, Numbers
<1>3. QED
  BY <1>1, <1>2 DEF Left, Bound

\* The ways to lower what is left.
LEMMA LowerStage ==
  ASSUME NEW e \in Events, Stage(e)' < Stage(e)
  PROVE  Lowered(e)
BY LeftParts DEF Lower, Lowered

LEMMA LowerTries ==
  ASSUME NEW e \in Events, IInv, Stage(e)' = Stage(e), tries'[e] = tries[e] + 1
  PROVE  Lowered(e)
<1>1. Bound - tries'[e] < Bound - tries[e]
  BY Numbers, BoundType
<1>2. QED
  BY <1>1, LeftParts DEF Lower, Lowered

LEMMA LowerPhase ==
  ASSUME NEW e \in Events, Stage(e)' = Stage(e), tries'[e] = tries[e], Phase(e)' < Phase(e)
  PROVE  Lowered(e)
BY LeftParts DEF Lower, Lowered

LEMMA LowerRow ==
  ASSUME NEW e \in Events, Stage(e)' = Stage(e), tries'[e] = tries[e], Phase(e)' = Phase(e),
         Uncommittedness(e)' < Uncommittedness(e)
  PROVE  Lowered(e)
BY LeftParts DEF Lower, Lowered

\* Nothing that matters to e changes, but the row of a commit.
LEMMA LeftKept ==
  ASSUME NEW e \in Events,
         Stage(e)' = Stage(e), tries'[e] = tries[e], Phase(e)' <= Phase(e),
         Uncommittedness(e)' <= Uncommittedness(e)
  PROVE  Kept(e)
<1>1. CASE Phase(e)' < Phase(e)
  BY <1>1, LowerPhase DEF Kept
<1>2. CASE Phase(e)' = Phase(e) /\ Uncommittedness(e)' < Uncommittedness(e)
  BY <1>2, LowerRow DEF Kept
<1>3. CASE Phase(e)' = Phase(e) /\ Uncommittedness(e)' = Uncommittedness(e)
  BY <1>3 DEF Kept, Left
<1>4. QED
  BY <1>1, <1>2, <1>3, LeftParts DEF Phase, Uncommittedness

\* Everything the measure of d is made of, but its row.
LEMMA SameWork ==
  ASSUME NEW d \in Events, workflow'[d] = workflow[d], tries'[d] = tries[d],
         workflow[d] = "none" /\ d > arrived <=> workflow[d] = "none" /\ d > arrived',
         workflow[d] = "none" /\ ~(d > arrived) => (row[d] = "open" <=> row'[d] = "open"),
         child'[d] = child[d],
         workflow[d] = "child" => execution'[<<d, child[d]>>] = execution[<<d, child[d]>>],
         tries[d] > 0 => pc'[Current(d)] = pc[Current(d)]
  PROVE  Stage(d)' = Stage(d) /\ Phase(d)' = Phase(d)
<1>1. Stage(d)' = Stage(d)
  BY DEF Stage
<1>2. Current(d)' = Current(d)
  BY DEF Current
<1>3. Phase(d)' = Phase(d)
  BY <1>2 DEF Phase
<1>4. QED
  BY <1>1, <1>3

LEMMA WorkIngest ==
  ASSUME IInv, NEW e \in Events, Ingest(e)
  PROVE  Lowered(e) /\ \A d \in Events : Kept(d)
<1>1. /\ e = arrived + 1 /\ arrived' = e /\ UNCHANGED <<workflow, tries, pc, execution, child>>
  BY DEF Ingest, Skip, Kinds, IngestResolved, IngestFiring, Receive, admissionVars
<1>2. workflow[e] = "none" /\ arrived \in Nat /\ e \in Nat /\ e > arrived
  <2>1. arrived \in Nat /\ e \in Nat
    <3>1. arrived \in 0..MaxEvents /\ MaxEvents \in Nat
      BY BoundsAssumption DEF IInv, TypeOK
    <3>2. QED
      BY <3>1, EventsType
  <2>2. e > arrived
    BY <1>1, <2>1
  <2>3. QED
    BY <2>1, <2>2 DEF IInv, Arrivals
<1>3. Lowered(e)
  <2>1. Stage(e) = 5 /\ Stage(e)' # 5
    <3>1. ~(e > arrived') /\ workflow'[e] = "none"
      BY <1>1, <1>2
    <3>2. QED
      BY <1>2, <3>1 DEF Stage
  <2>2. Stage(e)' \in 0..5
    BY DEF Stage
  <2>3. QED
    BY <2>1, <2>2, LowerStage
<1>4. \A d \in Events \ {e} : row'[d] = row[d] \/ (row[d] \in Dispositions /\ row'[d] = "resolved")
  <2>1. row \in [Events -> RowStates]
    BY DEF IInv, TypeOK, RowStates
  <2>2. CASE Skip(e)
    BY <2>1, <2>2 DEF Skip, Kinds
  <2>3. CASE IngestFiring(e)
    BY <2>1, <2>3 DEF IngestFiring, SuppressDuplicate
  <2>4. CASE IngestResolved(e) /\ Resolvable(e) = {}
    BY <2>1, <2>4 DEF IngestResolved
  <2>5. CASE IngestResolved(e) /\ Resolvable(e) # {}
    <3>1. Resolvable(e) \in SUBSET Events
      BY <1>2, BoundsAssumption DEF Resolvable, Events
    <3>2. Max(Resolvable(e)) \in Resolvable(e)
      BY <2>5, <3>1, Newest
    <3>3. row[Max(Resolvable(e))] \in Dispositions
      BY <3>2 DEF Resolvable
    <3>4. row' = [row EXCEPT ![e] = "resolved", ![Max(Resolvable(e))] = "resolved"]
      BY <2>5 DEF IngestResolved
    <3>5. QED
      BY <2>1, <3>3, <3>4
  <2>6. QED
    BY <2>2, <2>3, <2>4, <2>5 DEF Ingest
<1>5. ASSUME NEW d \in Events \ {e}
      PROVE  Kept(d)
  <2>1. d > arrived <=> d > arrived'
    BY <1>1, <1>2, EventsType
  <2>2. /\ row[d] = "open" <=> row'[d] = "open"
        /\ Uncommittedness(d)' = Uncommittedness(d)
    BY <1>4 DEF Uncommittedness, Dispositions
  <2>3. Stage(d)' = Stage(d) /\ Phase(d)' = Phase(d)
    BY <1>1, <2>1, <2>2, SameWork
  <2>4. QED
    BY <1>1, <2>2, <2>3, LeftKept, LeftParts
<1>6. QED
  BY <1>3, <1>5 DEF Kept

LEMMA WorkTransaction ==
  ASSUME IInv, NEW e \in Events, Transaction(e) \/ Rollback(e)
  PROVE  /\ Transaction(e) => Lowered(e)
         /\ \A d \in Events : Kept(d)
<1>1. /\ UNCHANGED <<arrived, tries, pc, execution, child>>
      /\ \A d \in Events \ {e} : row'[d] = row[d] /\ workflow'[d] = workflow[d]
      /\ e \in DOMAIN row /\ e \in DOMAIN workflow
  BY DEF Transaction, Dispatch, Commit, Rollback, eventVars, admissionVars, IInv, TypeOK
<1>2. ASSUME NEW d \in Events \ {e}
      PROVE  Kept(d)
  <2>1. Stage(d)' = Stage(d) /\ Phase(d)' = Phase(d)
    BY <1>1, SameWork
  <2>2. Uncommittedness(d)' = Uncommittedness(d)
    BY <1>1 DEF Uncommittedness
  <2>3. QED
    BY <1>1, <2>1, <2>2, LeftKept, LeftParts
<1>3. row[e] \in Uncommitted => ~(e > arrived)
  <2>1. e > arrived => row[e] = "absent"
    BY DEF IInv, Arrivals
  <2>2. QED
    BY <2>1 DEF Uncommitted
<1>4. CASE Dispatch(e)
  <2>1. row[e] = "open" /\ workflow[e] = "none" /\ row'[e] # "open" /\ workflow'[e] \in {"none", "gate"}
    BY <1>1, <1>4 DEF Dispatch, IInv, Arrivals
  <2>2. Stage(e) = 4 /\ Stage(e)' \in {0, 3}
    BY <1>1, <1>3, <2>1 DEF Stage, Uncommitted
  <2>3. QED
    BY <1>2, <2>2, LowerStage DEF Kept
<1>5. CASE Commit(e)
  <2>1. /\ row[e] \in {"dispatched", "undispatched"} /\ row'[e] \in {"correlated", "failed"}
        /\ workflow' = workflow
    BY <1>1, <1>5 DEF Commit, admissionVars
  <2>2. Stage(e)' = Stage(e) /\ Phase(e)' = Phase(e)
    BY <1>1, <2>1, SameWork
  <2>3. Uncommittedness(e)' < Uncommittedness(e)
    BY <2>1 DEF Uncommittedness
  <2>4. QED
    BY <1>1, <1>2, <2>2, <2>3, LowerRow DEF Kept
<1>6. CASE Rollback(e)
  <2>1. row'[e] = "rolled back" /\ workflow' = workflow /\ row[e] \in Uncommitted
    BY <1>1, <1>6 DEF Rollback, admissionVars
  <2>2. Uncommittedness(e)' <= Uncommittedness(e)
    <3>1. Uncommittedness(e)' = 0
      BY <2>1 DEF Uncommittedness
    <3>2. QED
      BY <3>1, LeftParts
  <2>3. CASE row[e] = "open"
    <3>1. workflow[e] = "none"
      BY <2>3 DEF IInv, Arrivals
    <3>2. Stage(e) = 4 /\ Stage(e)' = 0
      BY <1>1, <1>3, <2>1, <2>3, <3>1 DEF Stage
    <3>3. Lowered(e)
      BY <3>2, LowerStage
    <3>4. QED
      BY <1>2, <3>3 DEF Kept
  <2>4. CASE row[e] # "open"
    <3>1. Stage(e)' = Stage(e) /\ Phase(e)' = Phase(e)
      BY <1>1, <2>1, <2>4, SameWork
    <3>2. Kept(e)
      BY <1>1, <2>2, <3>1, LeftKept, LeftParts
    <3>3. Transaction(e) => Lowered(e)
      BY <1>4, <1>5 DEF Transaction
    <3>4. QED
      BY <1>2, <3>2, <3>3
  <2>5. QED
    BY <2>3, <2>4
<1>7. QED
  BY <1>4, <1>5, <1>6 DEF Transaction

\* A step at e leaves the other events what they are.
LEMMA WorkAside ==
  ASSUME IInv, Executions, NEW e \in Events, UNCHANGED arrived,
         \A d \in Events \ {e} : /\ workflow'[d] = workflow[d] /\ tries'[d] = tries[d]
                                 /\ child'[d] = child[d] /\ row'[d] = row[d],
         \A r \in Attempts : r[1] # e => pc'[r] = pc[r] /\ execution'[r] = execution[r]
  PROVE  \A d \in Events \ {e} : Kept(d)
<1> SUFFICES ASSUME NEW d \in Events \ {e} PROVE Kept(d)
  OBVIOUS
<1>1. tries[d] > 0 => pc'[Current(d)] = pc[Current(d)]
  <2>1. tries[d] > 0 => Current(d) \in Attempts /\ Current(d)[1] = d
    BY Numbers, AttemptParts, BoundType DEF Current
  <2>2. QED
    BY <2>1
<1>2. workflow[d] = "child" /\ child[d] # 0 =>
        execution'[<<d, child[d]>>] = execution[<<d, child[d]>>]
  BY ChildAttempt
<1>3. child[d] # 0 \/ workflow[d] # "child"
  BY DEF Executions
<1>4. Stage(d)' = Stage(d) /\ Phase(d)' = Phase(d)
  BY <1>1, <1>2, <1>3, SameWork
<1>5. Uncommittedness(d)' = Uncommittedness(d)
  BY DEF Uncommittedness
<1>6. QED
  BY <1>4, <1>5, LeftKept, LeftParts

LEMMA WorkBegin ==
  ASSUME IInv, Executions, NEW e \in Events, Begin(e)
  PROVE  Lowered(e) /\ \A d \in Events : Kept(d)
<1>1. CASE BeginGate(e) \/ BeginCreate(e)
  <2>1. PICK p \in {"deciding", "refusing", "creating", "over"} : NextAttempt(e, p)
    BY <1>1 DEF BeginGate, BeginCreate
  <2>2. UNCHANGED <<arrived, row, workflow, execution, child>>
    BY <1>1 DEF BeginGate, BeginCreate, eventVars
  <2>3. /\ tries'[e] = tries[e] + 1 /\ \A d \in Events \ {e} : tries'[d] = tries[d]
        /\ \A r \in Attempts : r[1] # e => pc'[r] = pc[r]
    BY <1>1, <2>1, BeginBound, NextAttemptNew DEF IInv
  <2>4. Stage(e)' = Stage(e)
    BY <2>2 DEF Stage
  <2>5. Lowered(e)
    BY <2>3, <2>4, LowerTries
  <2>6. \A d \in Events \ {e} : Kept(d)
    BY <2>2, <2>3, WorkAside
  <2>7. QED
    BY <2>5, <2>6 DEF Kept
<1>2. CASE GateFails(e) \/ CannotCreate(e)
  <2>1. /\ UNCHANGED <<arrived, row, tries, pc, execution, child>>
        /\ workflow[e] \in {"gate", "create"}
        /\ workflow'[e] \in {"failed", "stuck"}
        /\ \A d \in Events \ {e} : workflow'[d] = workflow[d]
    BY <1>2 DEF GateFails, CannotCreate, Advance, eventVars, IInv, TypeOK
  <2>2. Stage(e) \in {2, 3} /\ Stage(e)' = 0
    BY <2>1 DEF Stage
  <2>3. Lowered(e)
    BY <2>2, LowerStage
  <2>4. \A d \in Events \ {e} : Kept(d)
    BY <2>1, WorkAside
  <2>5. QED
    BY <2>3, <2>4 DEF Kept
<1>3. QED
  BY <1>1, <1>2 DEF Begin

LEMMA WorkRun ==
  ASSUME IInv, Executions, NEW e \in Events, Investigate(e)
  PROVE  Lowered(e) /\ \A d \in Events : Kept(d)
<1>1. /\ UNCHANGED <<arrived, row, tries, pc, child>> /\ workflow[e] = "child"
      /\ \A d \in Events \ {e} : workflow'[d] = workflow[d]
  BY DEF Investigate, ContextFails, StartRunning, InvestigationEnds, Advance, eventVars,
         admissionVars, IInv, TypeOK
<1>2. <<e, child[e]>> \in Attempts /\ <<e, child[e]>>[1] = e
  BY <1>1, ChildAttempt DEF Executions
<1>3. \A r \in Attempts : r[1] # e => execution'[r] = execution[r]
  BY <1>2 DEF Investigate, ContextFails, StartRunning, InvestigationEnds, IInv, TypeOK
<1>4. \A d \in Events \ {e} : Kept(d)
  BY <1>1, <1>3, WorkAside
<1>5. CASE ContextFails(e) \/ InvestigationEnds(e)
  <2>1. workflow'[e] \in {"failed", "dispatched"}
    BY <1>5 DEF ContextFails, InvestigationEnds, Advance, IInv, TypeOK
  <2>2. Stage(e) = 1 /\ Stage(e)' = 0
    BY <1>1, <2>1 DEF Stage
  <2>3. Lowered(e)
    BY <2>2, LowerStage
  <2>4. QED
    BY <1>4, <2>3 DEF Kept
<1>6. CASE StartRunning(e)
  <2>1. /\ execution[<<e, child[e]>>] = "queued" /\ execution'[<<e, child[e]>>] = "running"
        /\ workflow' = workflow
    BY <1>2, <1>6 DEF StartRunning, admissionVars, IInv, TypeOK
  <2>2. Stage(e)' = Stage(e)
    BY <1>1, <2>1 DEF Stage
  <2>3. Phase(e) = 2 /\ Phase(e)' = 1
    BY <1>1, <2>1 DEF Phase
  <2>4. Lowered(e)
    BY <1>1, <2>2, <2>3, LowerPhase
  <2>5. QED
    BY <1>4, <2>4 DEF Kept
<1>7. QED
  BY <1>5, <1>6 DEF Investigate

\* A step of an attempt of e, which may have been given up.
LEMMA WorkAttempt ==
  ASSUME IInv, Executions, NEW r \in Attempts, Step(r)
  PROVE  (Heard(r) => Lowered(r[1])) /\ \A d \in Events : Kept(d)
<1> DEFINE e == r[1]
<1>1. /\ pc[r] = "deciding" \/ pc[r] \in Creating
      /\ UNCHANGED <<arrived, tries>>
  BY DEF Step, SaveDecision, Refuse, CreateExecution, Link, Creating, eventVars
<1>2. /\ e \in Events /\ r = <<e, r[2]>> /\ r[2] \in 1..Bound /\ workflow[e] # "none"
      /\ Heard(r) => workflow[e] \in {"gate", "create"} /\ child[e] = 0
  BY <1>1, Saver, AttemptParts DEF Heard
<1>3. /\ \A q \in Attempts \ {r} : pc'[q] = pc[q] /\ execution'[q] = execution[q]
      /\ \/ pc[r] = "creating" /\ pc'[r] = "linking"
         \/ pc[r] \in {"deciding", "refusing", "linking"} /\ pc'[r] = "over"
  BY DEF Step, SaveDecision, Refuse, CreateExecution, Link, Goto, IInv, TypeOK
<1>4. /\ \A d \in Events \ {e} : row'[d] = row[d] /\ workflow'[d] = workflow[d] /\ child'[d] = child[d]
      /\ row'[e] = row[e] \/ row'[e] \in Dispositions
  <2>1. /\ \A d \in Events \ {e} : row'[d] = row[d]
        /\ row'[e] = row[e] \/ row'[e] \in Dispositions
    <3>1. row \in [Events -> RowStates]
      BY DEF IInv, TypeOK, RowStates
    <3>2. row' = row \/ \E x \in Dispositions : row' = [row EXCEPT ![e] = x]
      <4>1. CASE SaveDecision(r)
        BY <4>1 DEF SaveDecision, Saved, Dispositions
      <4>2. CASE Refuse(r) \/ CreateExecution(r) \/ Link(r)
        BY <4>2 DEF Refuse, CreateExecution, Link, Saved, Dispositions
      <4>3. QED
        BY <4>1, <4>2 DEF Step
    <3>3. QED
      BY <1>2, <3>1, <3>2
  <2>2. \A d \in Events \ {e} : workflow'[d] = workflow[d] /\ child'[d] = child[d]
    BY <1>2 DEF Step, SaveDecision, Refuse, CreateExecution, Link, Answer, Advance, IInv, TypeOK
  <2>3. QED
    BY <2>1, <2>2
<1>5. \A d \in Events \ {e} : Kept(d)
  BY <1>1, <1>2, <1>3, <1>4, WorkAside
<1>6. Heard(r) => r[2] = tries[e] /\ r = Current(e) /\ tries[e] > 0
  <2>1. Heard(r) => r[2] = tries[e]
    BY <1>1 DEF IInv, Attempted, Heard
  <2>2. QED
    BY <1>2, <2>1, BoundType DEF Current
<1>7. Uncommittedness(e)' <= Uncommittedness(e)
  <2>1. Uncommittedness(e)' \in {0, Uncommittedness(e)}
    BY <1>4 DEF Uncommittedness, Dispositions
  <2>2. QED
    BY <1>2, <2>1, LeftParts
<1>8. CASE workflow'[e] = workflow[e] /\ child'[e] = child[e]
  <2>1. Stage(e)' = Stage(e)
    BY <1>2, <1>8 DEF Stage
  <2>2. workflow[e] = "child" => Phase(e)' = Phase(e)
    <3>1. workflow[e] = "child" => execution'[<<e, child[e]>>] = execution[<<e, child[e]>>]
      <4>1. workflow[e] = "child" => <<e, child[e]>> \in Attempts /\ pc[<<e, child[e]>>] = "over"
        BY <1>2, ChildAttempt DEF Executions
      <4>2. workflow[e] = "child" => <<e, child[e]>> # r
        BY <1>3, <4>1
      <4>3. QED
        BY <1>3, <4>1, <4>2
    <3>2. QED
      BY <1>8, <3>1 DEF Phase
  <2>3. ASSUME workflow[e] # "child"
        PROVE  /\ Phase(e)' <= Phase(e)
               /\ r = Current(e) /\ tries[e] > 0 => Phase(e)' < Phase(e)
    <3>1. Current(e)' = Current(e) /\ tries'[e] = tries[e]
      BY <1>1 DEF Current
    <3>2. CASE r = Current(e) /\ tries[e] > 0
      BY <1>3, <1>8, <2>3, <3>1, <3>2 DEF Phase
    <3>3. CASE r # Current(e) /\ tries[e] > 0
      <4>1. Current(e) \in Attempts
        BY <1>2, <3>3, Numbers, AttemptParts, BoundType DEF Current
      <4>2. Phase(e)' = Phase(e)
        BY <1>3, <1>8, <2>3, <3>1, <3>3, <4>1 DEF Phase
      <4>3. QED
        BY <1>2, <3>3, <4>2, LeftParts
    <3>4. CASE ~(tries[e] > 0)
      <4>1. Phase(e)' = 0 /\ Phase(e) = 0
        BY <1>8, <2>3, <3>1, <3>4 DEF Phase
      <4>2. QED
        BY <3>4, <4>1
    <3>5. QED
      BY <3>2, <3>3, <3>4
  <2>4. Phase(e)' <= Phase(e)
    BY <1>2, <2>2, <2>3, LeftParts
  <2>5. Kept(e)
    BY <1>1, <1>2, <1>7, <2>1, <2>4, LeftKept
  <2>6. Heard(r) => Lowered(e)
    BY <1>1, <1>2, <1>6, <2>1, <2>3, LowerPhase
  <2>7. QED
    BY <1>5, <2>5, <2>6
<1>9. CASE ~(workflow'[e] = workflow[e] /\ child'[e] = child[e])
  <2>1. /\ Heard(r)
        /\ \/ pc[r] = "deciding" /\ workflow'[e] \in {"create", "suppressed"}
           \/ pc[r] \in Creating /\ workflow'[e] \in {"refused", "child"}
    <3>1. workflow \in [Events -> Workflows] /\ child \in [Events -> 0..Bound]
      BY DEF IInv, TypeOK, Bound
    <3>2. QED
      BY <1>2, <1>9, <3>1
      DEF Step, SaveDecision, Refuse, CreateExecution, Link, Answer, Advance, Creating
  <2>2. /\ pc[r] = "deciding" => workflow[e] = "gate"
        /\ pc[r] \in Creating => workflow[e] = "create"
    BY <2>1 DEF IInv, Attempted, Heard
  <2>3. Stage(e)' < Stage(e)
    BY <2>1, <2>2 DEF Stage
  <2>4. Lowered(e)
    BY <1>2, <2>3, LowerStage
  <2>5. QED
    BY <1>5, <2>4 DEF Kept
<1>10. QED
  BY <1>8, <1>9

\* ReceiverAdmissionWorkflow and ReceiverService.ingest_event: no step takes the admission
\* of an event further from its end, and each step that goes on with one brings it
\* nearer, in an order that has no infinite descent. A rollback, a deletion, a given-up
\* attempt and what one does afterwards never lead back; retries are counted.
THEOREM AdmissionsRunDown ==
  Spec => [](\A e \in Events : Left(e) \in Nat \X Nat \X Nat \X Nat) /\ [][RunsDown]_vars
<1>1. IInv => \A e \in Events : Left(e) \in Nat \X Nat \X Nat \X Nat
  BY LeftParts DEF Left
<1>2. ASSUME IInv, Executions, [Next]_vars
      PROVE  [RunsDown]_vars
  <2>1. ASSUME NEW e \in Events, Ingest(e) \/ Transaction(e) \/ Begin(e) \/ Investigate(e)
        PROVE  RunsDown
    BY <1>2, <2>1, WorkIngest, WorkTransaction, WorkBegin, WorkRun DEF RunsDown
  <2>2. ASSUME NEW r \in Attempts, Step(r)
        PROVE  \A e \in Events : Kept(e)
    BY <1>2, <2>2, WorkAttempt
  <2>3. ASSUME NEW e \in Events, Rollback(e)
        PROVE  \A d \in Events : Kept(d)
    BY <1>2, <2>3, WorkTransaction
  <2>4. ASSUME DeleteReceiver \/ \E e \in Events : GiveUp(e)
        PROVE  \A d \in Events : Kept(d)
    <3>1. UNCHANGED <<arrived, row, workflow, tries, pc, execution, child>>
      BY <2>4 DEF DeleteReceiver, GiveUp, eventVars, admissionVars
    <3>2. \A e \in Events : Left(e)' = Left(e)
      BY <3>1 DEF Left, Stage, Phase, Uncommittedness, Current, Bound
    <3>3. QED
      BY <3>2 DEF Kept
  <2>5. ASSUME NEW e \in Events, Works(e)
        PROVE  \E d \in Events : Lowered(d)
    <3>1. CASE tries[e] > 0 /\ Heard(Current(e)) /\ Step(Current(e))
      <4>1. Current(e) \in Attempts /\ Current(e)[1] = e
        BY <1>2, <3>1, Numbers, AttemptParts, BoundType DEF Current
      <4>2. Lowered(e)
        BY <1>2, <3>1, <4>1, WorkAttempt
      <4>3. QED
        BY <4>2
    <3>2. CASE Ingest(e) \/ Transaction(e) \/ Begin(e) \/ Investigate(e)
      BY <1>2, <3>2, WorkIngest, WorkTransaction, WorkBegin, WorkRun
    <3>3. QED
      BY <2>5, <3>1, <3>2 DEF Works
  <2>6. CASE Next
    <3>1. \A e \in Events : Kept(e)
      BY <2>1, <2>2, <2>3, <2>4, <2>6 DEF Next, RunsDown
    <3>2. QED
      BY <2>5, <3>1 DEF RunsDown
  <2>7. QED
    BY <1>2, <2>6
<1>3. QED
  BY <1>1, <1>2, AliveInit, ExecutionsNext, Invariant, PTL DEF Spec
=============================================================================
