------------------------ MODULE TargetResolutionProofs ------------------------
(***************************************************************************)
(* Proofs about TargetResolution for any fleet, selectors, limit and       *)
(* number of changes: the type invariant, that the merged selector is the  *)
(* conjunction of the two, and that a snapshot is sound although the fleet *)
(* changes between the queries it is put together from.                    *)
(***************************************************************************)
EXTENDS TargetResolution, TLAPS, FiniteSetTheorems, WellFoundedInduction

-----------------------------------------------------------------------------
(* Selectors: whatever the merged selector lets through, both let through. *)

LEMMA MergeFieldOfBoth ==
  ASSUME NEW own, NEW other, own # {}, other # {}, NEW a \in own, NEW b \in other
  PROVE  a \cap b \in MergeField(own, other)
<1>1. MergeField(own, other) = {x \cap y : x \in own, y \in other}
  BY DEF MergeField
<1>2. QED
  BY <1>1

LEMMA MergeFieldSound ==
  ASSUME NEW own, NEW other, NEW v, Allows(MergeField(own, other), v)
  PROVE  Allows(own, v) /\ Allows(other, v)
<1>1. CASE own = {} \/ other = {}
  BY <1>1 DEF MergeField, Allows
<1>2. CASE own # {} /\ other # {}
  <2>1. \A a \in own, b \in other : v \in a \cap b
    BY <1>2, MergeFieldOfBoth DEF Allows
  <2>2. QED
    BY <1>2, <2>1 DEF Allows
<1>3. QED
  BY <1>1, <1>2

\* The resources of a Marvin meet every list of resources.
Meets(constraint, R) == \A S \in constraint : R \cap S # {}

LEMMA MergeFieldMeets ==
  ASSUME NEW own, NEW other, NEW R, Meets(MergeField(own, other), R)
  PROVE  Meets(own, R) /\ Meets(other, R)
<1>1. CASE own = {} \/ other = {}
  BY <1>1 DEF MergeField, Meets
<1>2. CASE own # {} /\ other # {}
  <2>1. \A a \in own, b \in other : R \cap (a \cap b) # {}
    BY <1>2, MergeFieldOfBoth DEF Meets
  <2>2. QED
    BY <1>2, <2>1 DEF Meets
<1>3. QED
  BY <1>1, <1>2

LEMMA MergeLabelsSound ==
  ASSUME NEW own, NEW other, NEW m, LabelsMatch(m, MergeLabels(own, other))
  PROVE  LabelsMatch(m, own) /\ LabelsMatch(m, other)
<1> DEFINE both == MergeLabels(own, other)
<1>1. DOMAIN both = DOMAIN own \cup DOMAIN other
  BY DEF MergeLabels
<1>2. \A k \in DOMAIN both : both[k] = MergeField(LabelOf(own, k), LabelOf(other, k))
  BY DEF MergeLabels
<1>3. ASSUME NEW k \in DOMAIN both
      PROVE  /\ labels[m][k] # {}
             /\ \A v \in labels[m][k] : Allows(LabelOf(own, k), v) /\ Allows(LabelOf(other, k), v)
  BY <1>2, <1>3, MergeFieldSound DEF LabelsMatch
<1>4. QED
  BY <1>1, <1>3 DEF LabelsMatch, LabelOf

LEMMA MergeSound ==
  ASSUME NEW m, NEW own, NEW other, Matches(m, Merge(own, other))
  PROVE  Matches(m, own) /\ Matches(m, other)
<1> DEFINE both == Merge(own, other)
<1>1. /\ both.hostname = MergeField(own.hostname, other.hostname)
      /\ both.resource_ids = MergeField(own.resource_ids, other.resource_ids)
      /\ both.labels = MergeLabels(own.labels, other.labels)
  BY DEF Merge
<1>2. /\ m \in online /\ Allows(both.hostname, hostname[m])
      /\ Meets(both.resource_ids, attached[m]) /\ LabelsMatch(m, both.labels)
  BY DEF Matches, Listed, Meets
<1>3. Allows(own.hostname, hostname[m]) /\ Allows(other.hostname, hostname[m])
  BY <1>1, <1>2, MergeFieldSound
<1>4. Meets(own.resource_ids, attached[m]) /\ Meets(other.resource_ids, attached[m])
  BY <1>1, <1>2, MergeFieldMeets
<1>5. LabelsMatch(m, own.labels) /\ LabelsMatch(m, other.labels)
  BY <1>1, <1>2, MergeLabelsSound
<1>6. QED
  BY <1>2, <1>3, <1>4, <1>5 DEF Matches, Listed, Meets

\* A merged selector is a selector again: it has one list of values at most.
LEMMA MergeFieldType ==
  ASSUME NEW T, NEW own \in Constraint(T), NEW other \in Constraint(T)
  PROVE  MergeField(own, other) \in Constraint(T)
<1>1. CASE own = {} \/ other = {}
  BY <1>1 DEF MergeField
<1>2. CASE own # {} /\ other # {}
  <2>1. PICK A \in SUBSET T : own = {A}
    BY <1>2 DEF Constraint
  <2>2. PICK B \in SUBSET T : other = {B}
    BY <1>2 DEF Constraint
  <2>3. MergeField(own, other) = {A \cap B}
    BY <1>2, <2>1, <2>2 DEF MergeField
  <2>4. QED
    BY <2>3 DEF Constraint
<1>3. QED
  BY <1>1, <1>2

-----------------------------------------------------------------------------
(* select_executors takes at least one of the candidates, if there is one, *)
(* and as many of them as its strategy says, by their ids.                 *)

\* A non-empty set of ids has a first one.
LEMMA Least ==
  ASSUME NEW S \in SUBSET Nat, S # {}
  PROVE  \E m \in S : {k \in S : k < m} = {}
<1>1. PICK m \in S : \A k \in S : <<k, m>> \notin OpToRel(<, Nat)
  BY WFMin, NatLessThanWellFounded, Zenon
<1>2. \A k \in S : k \in Nat /\ m \in Nat
  OBVIOUS
<1>3. \A k \in S : ~(k < m)
  BY <1>1, <1>2, Zenon DEF OpToRel
<1>4. QED
  BY <1>3

LEMMA SelectWithin ==
  ASSUME NEW S
  PROVE  SelectExecutors(S) \subseteq S
BY DEF SelectExecutors, FirstOf

LEMMA SelectSome ==
  ASSUME NEW S \in SUBSET Marvins, S # {}
  PROVE  SelectExecutors(S) # {}
<1>1. IsFiniteSet(S) /\ S \in SUBSET Nat
  BY IdsAssumption, FS_Subset
<1>2. Cardinality(S) \in Nat /\ Cardinality(S) >= 1
  BY <1>1, FS_CardinalityType, FS_EmptySet
<1>3. (Cardinality(S) + 1) \div 2 >= 1
  BY <1>2
<1>4. PICK m \in S : {k \in S : k < m} = {}
  BY <1>1, Least
<1>5. Cardinality({k \in S : k < m}) = 0
  BY <1>4, FS_EmptySet
<1>6. ASSUME NEW n \in Int, n >= 1
      PROVE  FirstOf(n, S) # {}
  BY <1>5, <1>6 DEF FirstOf
<1>7. (Cardinality(S) + 1) \div 2 \in Int
  BY <1>2
<1>8. FirstOf((Cardinality(S) + 1) \div 2, S) # {} /\ FirstOf(1, S) # {}
  BY <1>3, <1>6, <1>7
<1>9. QED
  BY <1>8 DEF SelectExecutors

\* How many of S have a smaller id decides who is among the first of S.
Below(j, S) == {k \in S : k < j}

LEMMA FirstMember ==
  ASSUME NEW S, NEW n, NEW j
  PROVE  j \in FirstOf(n, S) <=> j \in S /\ Cardinality(Below(j, S)) < n
BY Zenon DEF FirstOf, Below

LEMMA BelowFinite ==
  ASSUME NEW S, IsFiniteSet(S), NEW j
  PROVE  IsFiniteSet(Below(j, S)) /\ Cardinality(Below(j, S)) \in Nat
<1>1. Below(j, S) \in SUBSET S
  BY DEF Below
<1>2. QED
  BY <1>1, FS_Subset, FS_CardinalityType

\* FirstOf takes the lowest ids: a larger one has as many before it, or more.
LEMMA FirstAreLowest ==
  ASSUME NEW S \in SUBSET Nat, IsFiniteSet(S), NEW n \in Nat,
         NEW m \in FirstOf(n, S), NEW k \in S \ FirstOf(n, S)
  PROVE  m < k
<1>1. m \in Nat /\ k \in Nat /\ m \in S /\ k \in S
  BY FirstMember
<1>2. Cardinality(Below(m, S)) < n /\ ~(Cardinality(Below(k, S)) < n)
  BY FirstMember
<1>3. ASSUME k <= m PROVE FALSE
  <2>1. Below(k, S) \in SUBSET Below(m, S)
    <3>1. SUFFICES ASSUME NEW i \in S, i < k PROVE i < m
      BY DEF Below
    <3>2. i \in Nat
      OBVIOUS
    <3>3. QED
      BY <1>1, <1>3, <3>1, <3>2
  <2>2. Cardinality(Below(k, S)) <= Cardinality(Below(m, S))
    BY <2>1, BelowFinite, FS_Subset
  <2>3. Cardinality(Below(m, S)) \in Nat /\ Cardinality(Below(k, S)) \in Nat
    BY BelowFinite
  <2>4. QED
    BY <1>2, <2>2, <2>3
<1>4. QED
  BY <1>1, <1>3

\* FirstOf(n, S) has n members, as long as S has as many: the n-th is the least
\* of those the first n - 1 leave.
LEMMA FirstAreCounted ==
  ASSUME NEW S \in SUBSET Nat, IsFiniteSet(S)
  PROVE  \A n \in 0 .. Cardinality(S) : Cardinality(FirstOf(n, S)) = n
<1> DEFINE Wrong == {n \in 0 .. Cardinality(S) : Cardinality(FirstOf(n, S)) # n}
<1>1. Cardinality(S) \in Nat
  BY FS_CardinalityType
<1>2. \A j : Cardinality(Below(j, S)) \in Nat
  BY BelowFinite
<1>3. SUFFICES ASSUME Wrong # {} PROVE FALSE
  OBVIOUS
<1>4. Wrong \in SUBSET Nat
  BY <1>1
<1> HIDE DEF Wrong
<1>5. PICK n \in Wrong : {k \in Wrong : k < n} = {}
  BY <1>3, <1>4, Least
<1>6. n \in Nat /\ n <= Cardinality(S) /\ Cardinality(FirstOf(n, S)) # n
  BY <1>1, <1>5 DEF Wrong
<1>7. n # 0
  <2>1. \A j : j \notin FirstOf(0, S)
    BY <1>2, FirstMember
  <2>2. FirstOf(0, S) = {}
    BY <2>1
  <2>3. QED
    BY <1>6, <2>2, FS_EmptySet
<1> DEFINE before == FirstOf(n - 1, S)
<1>8. n - 1 \in Nat /\ n - 1 < n /\ n - 1 <= Cardinality(S)
  BY <1>1, <1>6, <1>7
<1>9. Cardinality(before) = n - 1
  <2>1. n - 1 \notin Wrong
    BY <1>5, <1>8
  <2>2. QED
    BY <1>1, <1>8, <2>1 DEF Wrong
<1>10. before \in SUBSET S /\ IsFiniteSet(before)
  <2>1. before \in SUBSET S
    BY FirstMember
  <2>2. QED
    BY <2>1, FS_Subset
<1>11. S \ before # {}
  BY <1>1, <1>6, <1>8, <1>9, <1>10
<1>12. PICK m \in S \ before : {k \in S \ before : k < m} = {}
  BY <1>11, Least
<1>13. \A b \in before, k \in S \ before : b < k
  BY <1>8, FirstAreLowest
<1>14. \A j : j \in before <=> j \in S /\ Cardinality(Below(j, S)) < n - 1
  BY FirstMember
<1> HIDE DEF before
<1>15. Below(m, S) = before
  BY <1>10, <1>12, <1>13 DEF Below
<1>16. m \in FirstOf(n, S)
  BY <1>8, <1>9, <1>12, <1>15, FirstMember
<1>17. Cardinality(before \cup {m}) = n /\ IsFiniteSet(before \cup {m})
  <2>1. Cardinality(before \cup {m}) = Cardinality(before) + 1
    BY <1>10, <1>12, FS_AddElement
  <2>2. QED
    BY <1>6, <1>9, <1>10, <2>1, FS_AddElement
<1>18. ASSUME NEW j, j \in FirstOf(n, S) PROVE j \in before \cup {m}
  <2>1. SUFFICES ASSUME j \notin before \cup {m} PROVE FALSE
    OBVIOUS
  <2>2. j \in S /\ Cardinality(Below(j, S)) < n
    BY <1>18, FirstMember
  <2>3. m < j
    BY <1>12, <2>1, <2>2
  <2>4. before \cup {m} \in SUBSET Below(j, S)
    BY <1>10, <1>12, <1>13, <2>1, <2>2, <2>3 DEF Below
  <2>5. n <= Cardinality(Below(j, S))
    BY <1>17, <2>4, BelowFinite, FS_Subset
  <2>6. QED
    BY <1>2, <1>6, <2>2, <2>5
<1>19. ASSUME NEW j, j \in before PROVE j \in FirstOf(n, S)
  <2>1. j \in S /\ Cardinality(Below(j, S)) < n - 1
    BY <1>14, <1>19
  <2>2. Cardinality(Below(j, S)) < n
    BY <1>2, <1>6, <1>8, <2>1
  <2>3. QED
    BY <2>1, <2>2, FirstMember
<1>20. FirstOf(n, S) = before \cup {m}
  BY <1>16, <1>18, <1>19
<1>21. QED
  BY <1>6, <1>17, <1>20

\* select_executors: how many it takes, and which.
LEMMA SelectStaffed ==
  ASSUME NEW S \in SUBSET Marvins, S # {}
  PROVE  LET taken == SelectExecutors(S) IN
         /\ \A m \in taken, k \in S \ taken : m < k
         /\ request.strategy = "all" => taken = S
         /\ request.strategy = "quorum" =>
              2 * Cardinality(taken) \in {Cardinality(S), Cardinality(S) + 1}
         /\ request.strategy = "one" => Cardinality(taken) = 1
<1> DEFINE taken == SelectExecutors(S)
           half == (Cardinality(S) + 1) \div 2
<1>1. IsFiniteSet(S) /\ S \in SUBSET Nat
  BY IdsAssumption, FS_Subset
<1>2. Cardinality(S) \in Nat /\ Cardinality(S) >= 1
  BY <1>1, FS_CardinalityType, FS_EmptySet
<1>3. /\ half \in 0 .. Cardinality(S) /\ 1 \in 0 .. Cardinality(S)
      /\ 2 * half \in {Cardinality(S), Cardinality(S) + 1}
  BY <1>2
<1>4. taken \in {S, FirstOf(half, S), FirstOf(1, S)}
  BY DEF SelectExecutors
<1>5. \A m \in taken, k \in S \ taken : m < k
  <2>1. half \in Nat /\ 1 \in Nat
    BY <1>2, <1>3
  <2>2. QED
    BY <1>1, <1>4, <2>1, FirstAreLowest
<1>6. request.strategy = "all" => taken = S
  BY DEF SelectExecutors
<1>7. request.strategy = "quorum" =>
        2 * Cardinality(taken) \in {Cardinality(S), Cardinality(S) + 1}
  BY <1>1, <1>3, FirstAreCounted DEF SelectExecutors
<1>8. request.strategy = "one" => Cardinality(taken) = 1
  BY <1>1, <1>3, FirstAreCounted DEF SelectExecutors
<1>9. QED
  BY <1>5, <1>6, <1>7, <1>8

-----------------------------------------------------------------------------
(* The inductive invariant. *)

\* At one moment of the call all of S were online and matched both selectors.
Witnessed(S) == \E M \in moments : S \subseteq M

\* What has been scanned and listed so far matched both selectors at a moment
\* that has been observed, and a list of resources the selectors share nothing
\* of lets no Marvin through.
InTime ==
  /\ pc = "list" => merged.labels = Nobody \/ Witnessed(scanned)
  /\ pc \in {"prefetch", "group"} =>
       /\ Witnessed(DOMAIN listed)
       /\ \A m \in DOMAIN listed, S \in merged.resource_ids : S # {}
  /\ pc = "group" => DOMAIN links = DOMAIN listed

IInv == TypeOK /\ InTime /\ ResolutionSound

LEMMA NobodyEmpty == DOMAIN Nobody = {} /\ Nobody \in [{} -> SUBSET Marvins]
                     /\ Nobody \in [{} -> Hosts] /\ Nobody \in [{} -> SUBSET Resources]
                     /\ Nobody \in [{} -> Constraint(Values)]
  BY DEF Nobody

LEMMA InitInv == Init => IInv
<1> SUFFICES ASSUME Init PROVE IInv
  OBVIOUS
<1> USE DEF Init
<1>1. NoRequest \in [session : Selectors, asked : Selectors,
                     scope : Scopes, strategy : Strategies]
  <2>1. NoRequest.session \in Selectors /\ NoRequest.asked \in Selectors
    <3>1. {} \in Constraint(Hosts) /\ {} \in Constraint(Resources)
      BY DEF Constraint
    <3>2. Nobody \in UNION {[K -> Constraint(Values)] : K \in SUBSET LabelKeys}
      BY NobodyEmpty
    <3>3. QED
      BY <3>1, <3>2 DEF NoRequest, Selectors
  <2>2. QED
    BY <2>1 DEF NoRequest, Scopes, Strategies
<1>2. TypeOK
  <2>1. /\ labels \in [Marvins -> RowLabels]
        /\ hostname \in [Marvins -> Hosts] /\ attached \in [Marvins -> SUBSET Resources]
    BY NamesAssumption, LabelsAssumption
  <2>2. DOMAIN listed \subseteq Marvins /\ listed \in [DOMAIN listed -> Hosts]
    BY NobodyEmpty
  <2>3. links \in [DOMAIN links -> SUBSET Resources] /\ DOMAIN links \subseteq Marvins
    BY NobodyEmpty
  <2>4. targets \in [DOMAIN targets -> SUBSET Marvins]
    BY NobodyEmpty
  <2>5. QED
    BY <1>1, <2>1, <2>2, <2>3, <2>4, BoundsAssumption DEF TypeOK, Scans
<1>3. InTime /\ ResolutionSound
  BY DEF InTime, ResolutionSound, OfOneMoment, ResourcesAllowed, WellStaffed
<1>4. QED
  BY <1>2, <1>3 DEF IInv

-----------------------------------------------------------------------------
(* Types. *)

\* The fleet is not changed by the resolution, nor the resolution by the fleet.
FleetTyped ==
  /\ online \subseteq Marvins /\ hostname \in [Marvins -> Hosts]
  /\ labels \in [Marvins -> RowLabels]
  /\ attached \in [Marvins -> SUBSET Resources] /\ enabled \subseteq Resources
  /\ changes \in 0 .. MaxChanges

CallTyped ==
  /\ pc \in Scans
  /\ request \in [session : Selectors, asked : Selectors,
                  scope : Scopes, strategy : Strategies]
  /\ scanned \subseteq Marvins
  /\ DOMAIN listed \subseteq Marvins /\ listed \in [DOMAIN listed -> Hosts]
  /\ links \in [DOMAIN links -> SUBSET Resources] /\ DOMAIN links \subseteq Marvins
  /\ targets \in [DOMAIN targets -> SUBSET Marvins]

LEMMA TypeParts == TypeOK <=> FleetTyped /\ CallTyped /\ moments \subseteq SUBSET Marvins
  BY DEF TypeOK, FleetTyped, CallTyped

LEMMA ChangingType ==
  ASSUME FleetTyped, Changing
  PROVE  FleetTyped'
<1> USE DEF FleetTyped, Change
<1>0. changes < MaxChanges => changes + 1 \in 0 .. MaxChanges
  BY BoundsAssumption
<1>1. ASSUME NEW m \in Marvins, NEW h \in Hosts,
             NEW l \in RowLabels, Register(m, h, l)
      PROVE  FleetTyped'
  BY <1>0, <1>1 DEF Register
<1>2. ASSUME NEW m \in Marvins, GoOffline(m)
      PROVE  FleetTyped'
  BY <1>0, <1>2 DEF GoOffline
<1>3. ASSUME NEW m \in Marvins, NEW r \in Resources, Attach(m, r)
      PROVE  FleetTyped'
  BY <1>0, <1>3 DEF Attach
<1>4. ASSUME NEW r \in Resources, Enable(r)
      PROVE  FleetTyped'
  BY <1>0, <1>4 DEF Enable
<1>5. QED
  BY <1>1, <1>2, <1>3, <1>4 DEF Changing

LEMMA ResolvingType ==
  ASSUME FleetTyped, CallTyped, Resolving
  PROVE  FleetTyped' /\ CallTyped'
<1> USE DEF FleetTyped, CallTyped, fleet, local, Scans
<1>1. ASSUME NEW s \in SessionSelectors, NEW a \in AskedSelectors,
             NEW scope \in Scopes, NEW strategy \in Strategies, Begin(s, a, scope, strategy)
      PROVE  FleetTyped' /\ CallTyped'
  <2>1. s \in Selectors /\ a \in Selectors
    BY SelectorsAssumption
  <2>2. request' \in [session : Selectors, asked : Selectors,
                      scope : Scopes, strategy : Strategies]
    BY <1>1, <2>1 DEF Begin
  <2>3. pc' \in Scans
    BY <1>1 DEF Begin
  <2>4. /\ listed' = Nobody /\ links' = Nobody /\ targets' = Nobody
        /\ scanned' = Marvins /\ FleetTyped'
    BY <1>1 DEF Begin
  <2>5. QED
    BY <2>2, <2>3, <2>4, NobodyEmpty
<1>2. CASE Scan
  BY <1>2 DEF Scan
<1>3. CASE List
  BY <1>3 DEF List
<1>4. CASE Prefetch
  BY <1>4 DEF Prefetch
<1>5. CASE Group
  <2>1. targets' \in [DOMAIN targets' -> SUBSET Marvins]
    <3> DEFINE executors == [l \in LogicalTargets |->
                               SelectExecutors({m \in DOMAIN listed : l \in Serves(m)})]
    <3>1. \A l \in LogicalTargets : executors[l] \in SUBSET Marvins
      BY SelectWithin
    <3>2. DOMAIN executors = LogicalTargets
      OBVIOUS
    <3>3. targets' \in {executors, targets}
      BY <1>5 DEF Group
    <3> HIDE DEF executors
    <3>4. executors \in [DOMAIN executors -> SUBSET Marvins]
      BY <3>1, <3>2, executors = [l \in LogicalTargets |-> executors[l]] DEF executors
    <3>5. QED
      BY <3>3, <3>4
  <2>2. QED
    BY <1>5, <2>1 DEF Group
<1>6. QED
  BY <1>1, <1>2, <1>3, <1>4, <1>5 DEF Resolving

-----------------------------------------------------------------------------
(* Steps. *)

\* Who may execute a target depends on what was read, not on the fleet of now.
LEMMA CandidatesKept ==
  ASSUME request' = request, listed' = listed, links' = links
  PROVE  \A t : Candidates(t)' = Candidates(t)
<1>1. CASE request.scope = "marvin-local"
  BY <1>1 DEF Candidates
<1>2. CASE request.scope = "host"
  BY <1>2 DEF Candidates, Serves
<1>3. CASE request.scope \notin {"marvin-local", "host"}
  BY <1>3 DEF Candidates
<1>4. QED
  BY <1>1, <1>2, <1>3

LEMMA StaffKept ==
  ASSUME WellStaffed, UNCHANGED <<pc, request, listed, links, targets>>
  PROVE  WellStaffed'
<1>1. Chosen' = Chosen /\ \A t : Candidates(t)' = Candidates(t)
  BY CandidatesKept DEF Chosen
<1>2. QED
  BY <1>1 DEF WellStaffed

\* When the targets are grouped, the candidates of one are those it groups.
LEMMA CandidatesServe ==
  ASSUME InTime, pc = "group", NEW l \in LogicalTargets
  PROVE  Candidates(l) = {m \in DOMAIN listed : l \in Serves(m)}
<1>1. PICK k \in DOMAIN listed : l \in Serves(k)
  BY DEF LogicalTargets
<1>2. CASE request.scope = "marvin-local"
  BY <1>1, <1>2 DEF Candidates, Serves
<1>3. CASE request.scope = "host"
  BY <1>3 DEF Candidates
<1>4. CASE request.scope \notin {"marvin-local", "host"}
  <2>1. \A m : Serves(m) = {r \in links[m] \cap OfScope \cap enabled :
                              \A S \in merged.resource_ids : S = {} \/ r \in S}
    BY <1>4 DEF Serves
  <2>2. \A m : l \in Serves(m) <=> l \in links[m]
    BY <1>1, <2>1
  <2>3. QED
    BY <1>4, <2>2 DEF Candidates
<1>5. QED
  BY <1>2, <1>3, <1>4

\* Changes to the fleet leave the call alone and only add moments to it.
LEMMA ChangingStep ==
  ASSUME InTime, ResolutionSound, Changing, Observe
  PROVE  InTime' /\ ResolutionSound'
<1>1. /\ pc' = pc /\ request' = request /\ scanned' = scanned
      /\ listed' = listed /\ links' = links /\ targets' = targets
  BY DEF Changing, Change, Register, GoOffline, Attach, Enable, local
<1>2. moments \subseteq moments'
  BY <1>1 DEF Observe, Running
<1>3. merged' = merged /\ Chosen' = Chosen
  BY <1>1 DEF merged, Chosen
<1>4. \A S : Witnessed(S) => \E M \in moments' : S \subseteq M
  BY <1>2 DEF Witnessed
<1>5. Witnessed(scanned) => Witnessed(scanned)'
  BY <1>1, <1>4 DEF Witnessed
<1>6. Witnessed(DOMAIN listed) => Witnessed(DOMAIN listed)'
  BY <1>1, <1>4 DEF Witnessed
<1>7. InTime'
  BY <1>1, <1>3, <1>5, <1>6 DEF InTime
<1>8. OfOneMoment'
  BY <1>1, <1>2, <1>3 DEF ResolutionSound, OfOneMoment
<1>9. ResourcesAllowed' /\ WellStaffed'
  BY <1>1, <1>3, StaffKept DEF ResolutionSound, ResourcesAllowed
<1>10. QED
  BY <1>7, <1>8, <1>9 DEF ResolutionSound

LEMMA BeginStep ==
  ASSUME NEW s, NEW a, NEW scope, NEW strategy, Begin(s, a, scope, strategy)
  PROVE  InTime' /\ ResolutionSound'
<1>1. pc' = "scan" \/ pc' = "refused" \/ (pc' = "list" /\ merged'.labels = Nobody)
  BY DEF Begin
<1>2. QED
  BY <1>1 DEF InTime, ResolutionSound, OfOneMoment, ResourcesAllowed, WellStaffed

\* Who matches now is observed by the step.
LEMMA ObservedNow ==
  ASSUME pc \in Running, pc' \in Running, Observe, UNCHANGED <<fleet, request>>
  PROVE  Matching \in moments' /\ moments \subseteq moments'
<1>1. Matching' = Matching
  BY DEF Matching, Matches, Listed, LabelsMatch, fleet
<1>2. moments' = moments \cup {Matching'}
  BY DEF Observe
<1>3. QED
  BY <1>1, <1>2

LEMMA ScanStep ==
  ASSUME Scan, Observe
  PROVE  InTime' /\ ResolutionSound'
<1>1. pc = "scan" /\ pc' = "list"
  BY DEF Scan
<1>2. Matching \in moments'
  BY <1>1, ObservedNow DEF Scan, Running
<1>3. scanned' \subseteq Matching
  BY MergeSound DEF Scan, Matching, merged
<1>4. Witnessed(scanned)'
  BY <1>2, <1>3 DEF Witnessed
<1>5. QED
  BY <1>1, <1>4 DEF InTime, ResolutionSound, OfOneMoment, ResourcesAllowed, WellStaffed

LEMMA ListStep ==
  ASSUME InTime, scanned \subseteq Marvins, List, Observe
  PROVE  InTime' /\ ResolutionSound'
<1>1. pc = "list" /\ pc' = "prefetch" /\ merged' = merged
  BY DEF List, merged
<1>2. Matching \in moments' /\ moments \subseteq moments'
  BY <1>1, ObservedNow DEF List, Running
<1>3. DOMAIN listed' = {m \in scanned : Listed(m, merged)}
  BY DEF List
<1>4. Witnessed(DOMAIN listed)'
  <2>1. CASE merged.labels = Nobody
    <3>1. \A m \in DOMAIN listed' : Matches(m, merged)
      BY <1>3, <2>1, NobodyEmpty DEF Matches, LabelsMatch
    <3>2. DOMAIN listed' \subseteq Matching
      BY <1>3, <3>1, MergeSound DEF Matching, merged
    <3>3. QED
      BY <1>2, <3>2 DEF Witnessed
  <2>2. CASE Witnessed(scanned)
    BY <1>2, <1>3, <2>2 DEF Witnessed
  <2>3. QED
    BY <1>1, <2>1, <2>2 DEF InTime
<1>5. \A m \in DOMAIN listed', S \in merged.resource_ids : S # {}
  BY <1>3 DEF Listed
<1>6. QED
  BY <1>1, <1>4, <1>5 DEF InTime, ResolutionSound, OfOneMoment, ResourcesAllowed, WellStaffed

LEMMA PrefetchStep ==
  ASSUME InTime, Prefetch, Observe
  PROVE  InTime' /\ ResolutionSound'
<1>1. pc = "prefetch" /\ pc' = "group" /\ merged' = merged /\ listed' = listed
  BY DEF Prefetch, merged
<1>2. moments \subseteq moments'
  BY <1>1, ObservedNow DEF Prefetch, Running
<1>3. Witnessed(DOMAIN listed)' /\ DOMAIN links' = DOMAIN listed'
  BY <1>1, <1>2 DEF InTime, Witnessed, Prefetch
<1>4. QED
  BY <1>1, <1>3 DEF InTime, ResolutionSound, OfOneMoment, ResourcesAllowed, WellStaffed

LEMMA GroupStep ==
  ASSUME TypeOK, InTime, Group, Observe
  PROVE  InTime' /\ ResolutionSound'
<1> DEFINE serving(l) == {m \in DOMAIN listed : l \in Serves(m)}
           executors == [l \in LogicalTargets |-> SelectExecutors(serving(l))]
<1>1. pc = "group" /\ merged' = merged /\ request' = request
  BY DEF Group, merged
<1>2. moments' = moments
  BY <1>1 DEF Group, Observe, Running
<1>3. CASE pc' = "refused"
  BY <1>3 DEF InTime, ResolutionSound, OfOneMoment, ResourcesAllowed, WellStaffed
<1>4. CASE pc' = "created"
  <2>1. targets' = executors /\ Cardinality(UNION {executors[l] : l \in DOMAIN executors}) <= MaxTargets
    BY <1>4 DEF Group
  <2>2. DOMAIN executors = LogicalTargets /\ \A l \in LogicalTargets : executors[l] = SelectExecutors(serving(l))
    OBVIOUS
  <2>3. \A l \in LogicalTargets : serving(l) \in SUBSET Marvins /\ serving(l) # {}
    BY DEF TypeOK, LogicalTargets
  <2> HIDE DEF executors, serving
  <2>4. Chosen' = UNION {executors[l] : l \in DOMAIN executors}
    BY <2>1 DEF Chosen
  <2>5. Chosen' \subseteq DOMAIN listed
    BY <2>2, <2>4, SelectWithin DEF serving
  <2>6. OfOneMoment'
    BY <1>1, <1>2, <2>5 DEF OfOneMoment, InTime, Witnessed
  <2>7. WellStaffed'
    <3>1. \A l \in LogicalTargets : Candidates(l)' = serving(l)
      BY <1>1, CandidatesServe, CandidatesKept DEF serving, Group, local
    <3>2. DOMAIN targets' = LogicalTargets /\ Cardinality(Chosen') <= MaxTargets
      BY <2>1, <2>2, <2>4
    <3>3. ASSUME NEW l \in LogicalTargets
          PROVE  LET able == Candidates(l)'  taken == targets'[l] IN
                 /\ taken \subseteq able /\ taken # {}
                 /\ \A m \in taken, k \in able \ taken : m < k
                 /\ request'.strategy = "all" => taken = able
                 /\ request'.strategy = "quorum" =>
                      2 * Cardinality(taken) \in {Cardinality(able), Cardinality(able) + 1}
                 /\ request'.strategy = "one" => Cardinality(taken) = 1
      <4>1. targets'[l] = SelectExecutors(serving(l)) /\ Candidates(l)' = serving(l)
        BY <2>1, <2>2, <3>1
      <4>2. SelectExecutors(serving(l)) \subseteq serving(l)
        BY SelectWithin
      <4>3. SelectExecutors(serving(l)) # {}
        BY <2>3, SelectSome
      <4>4. QED
        BY <1>1, <2>3, <4>1, <4>2, <4>3, SelectStaffed
    <3>4. QED
      BY <3>2, <3>3 DEF WellStaffed
  <2>8. ResourcesAllowed'
    <3> SUFFICES ASSUME request.scope = "resource", NEW l \in LogicalTargets
                 PROVE  l \in OfScope /\ Allows(request.session.resource_ids, l)
                        /\ Allows(request.asked.resource_ids, l)
      BY <1>1, <2>1, <2>2 DEF ResourcesAllowed
    <3>1. PICK m \in DOMAIN listed : l \in Serves(m)
      BY DEF LogicalTargets
    <3>2. l \in OfScope /\ \A S \in merged.resource_ids : S = {} \/ l \in S
      BY <3>1 DEF Serves
    <3>3. Allows(merged.resource_ids, l)
      BY <1>1, <3>1, <3>2 DEF InTime, Allows
    <3>4. Allows(MergeField(request.session.resource_ids, request.asked.resource_ids), l)
      BY <3>3 DEF merged, Merge
    <3>5. QED
      BY <3>2, <3>4, MergeFieldSound
  <2>9. QED
    BY <1>4, <2>6, <2>7, <2>8 DEF InTime, ResolutionSound
<1>5. QED
  BY <1>3, <1>4 DEF Group

LEMMA MomentsType ==
  ASSUME moments \subseteq SUBSET Marvins, Observe
  PROVE  moments' \subseteq SUBSET Marvins
<1>1. Matching' \subseteq Marvins
  BY DEF Matching
<1>2. QED
  BY <1>1 DEF Observe

LEMMA NextStep ==
  ASSUME IInv, Next
  PROVE  IInv'
<1>1. moments' \subseteq SUBSET Marvins
  BY MomentsType, TypeParts DEF IInv, Next
<1>2. CASE Resolving
  <2>1. FleetTyped' /\ CallTyped'
    BY <1>2, ResolvingType, TypeParts DEF IInv
  <2>2. InTime' /\ ResolutionSound'
    BY <1>2, BeginStep, ScanStep, ListStep, PrefetchStep, GroupStep
       DEF IInv, TypeOK, Next, Resolving
  <2>3. TypeOK'
    BY <1>1, <2>1 DEF TypeOK, FleetTyped, CallTyped
  <2>4. QED
    BY <2>2, <2>3 DEF IInv
<1>3. CASE Changing
  <2>1. FleetTyped'
    BY <1>3, ChangingType, TypeParts DEF IInv
  <2>2. CallTyped'
    <3>1. UNCHANGED <<pc, request, local, targets>>
      BY <1>3 DEF Changing, Change, Register, GoOffline, Attach, Enable
    <3>2. CallTyped
      BY TypeParts DEF IInv
    <3>3. QED
      BY <3>1, <3>2 DEF CallTyped, local
  <2>3. InTime' /\ ResolutionSound'
    BY <1>3, ChangingStep DEF IInv, Next
  <2>4. TypeOK'
    BY <1>1, <2>1, <2>2 DEF TypeOK, FleetTyped, CallTyped
  <2>5. QED
    BY <2>3, <2>4 DEF IInv
<1>4. QED
  BY <1>2, <1>3 DEF Next

LEMMA StutterStep ==
  ASSUME IInv, UNCHANGED vars
  PROVE  IInv'
<1>1. TypeOK'
  BY DEF IInv, TypeOK, vars, fleet, local
<1>2. merged' = merged /\ Chosen' = Chosen /\ UNCHANGED <<pc, request, scanned, listed, links, targets, moments>>
  BY DEF merged, Chosen, vars, local
<1>3. InTime'
  BY <1>2 DEF IInv, InTime, Witnessed
<1>4. ResolutionSound'
  BY <1>2, StaffKept DEF IInv, ResolutionSound, OfOneMoment, ResourcesAllowed
<1>5. QED
  BY <1>1, <1>3, <1>4 DEF IInv

LEMMA Invariant == Spec => []IInv
<1>1. IInv /\ [Next]_vars => IInv'
  BY NextStep, StutterStep
<1>2. QED
  BY <1>1, InitInv, PTL DEF Spec

-----------------------------------------------------------------------------

\* Every variable of a resolution keeps its type, for any fleet and selectors
\* (DiscoveryEngine.resolve_targets).
THEOREM TypeCorrect == Spec => []TypeOK
<1>1. IInv => TypeOK
  BY DEF IInv
<1>2. QED
  BY <1>1, Invariant, PTL

\* A snapshot is sound (resolve_targets, TargetSelector.merge_with): its Marvins
\* matched both selectors at one moment of the call, its resources are ones both
\* allow, and each target has as many of its candidates as the strategy asks
\* for, those with the lowest ids, within the limit, however the fleet changes.
THEOREM SnapshotsSound == Spec => []ResolutionSound
<1>1. IInv => ResolutionSound
  BY DEF IInv
<1>2. QED
  BY <1>1, Invariant, PTL

=============================================================================
