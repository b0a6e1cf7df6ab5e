-------------------------- MODULE TargetResolution --------------------------
(***************************************************************************)
(* DiscoveryEngine.resolve_targets (src/apps/marvins/discovery.py): the    *)
(* selector of a session's TargetScope and the one the model asked for are *)
(* merged, the Marvins that match are read in up to four queries, grouped  *)
(* by the capability's execution scope and reduced to the executors of the *)
(* snapshot.  Marvins register and disconnect, and operators attach and    *)
(* enable resources, between the queries.                                  *)
(*                                                                         *)
(* A constraint is a set of at most one set of allowed values: {} is no    *)
(* constraint (None), {S} a list.  The hostname field stands for the five  *)
(* list fields of a selector that are columns of a Marvin.                 *)
(***************************************************************************)
EXTENDS FiniteSets, Integers

CONSTANTS
  Marvins,           \* ids, ordered as str(marvin.id) orders them
  Hosts,             \* hostnames
  NoHost,            \* the empty hostname, one of Hosts
  Resources,         \* ids of resources
  OfScope,           \* those of the organization, of the capability's scope_type
  LabelKeys,         \* keys of labels
  Values,            \* values of labels
  FirstLabels,       \* the labels the Marvins may have registered with before
  SessionSelectors,  \* selectors a TargetScope may have
  AskedSelectors,    \* selectors a tool call may ask for
  MaxTargets,        \* absolute_max_targets of the execution policy
  MaxChanges         \* bound: changes to the fleet

Scopes == {"marvin-local", "host", "resource"}
Strategies == {"all", "quorum", "one"}

Constraint(S) == {{}} \cup {{T} : T \in SUBSET S}

\* A selector's labels map the keys it constrains to the values allowed, {}
\* meaning that any value does as long as the key is there.
Selectors ==
  [hostname : Constraint(Hosts), resource_ids : Constraint(Resources),
   labels : UNION {[K -> Constraint(Values)] : K \in SUBSET LabelKeys}]

\* Marvin.labels: a key has one value, or none.
RowLabels == [LabelKeys -> {{}} \cup {{v} : v \in Values}]

ASSUME IdsAssumption == Marvins \subseteq Nat /\ IsFiniteSet(Marvins)
ASSUME NamesAssumption == NoHost \in Hosts /\ OfScope \subseteq Resources
ASSUME LabelsAssumption == FirstLabels \subseteq RowLabels
ASSUME SelectorsAssumption ==
  SessionSelectors \subseteq Selectors /\ AskedSelectors \subseteq Selectors
ASSUME BoundsAssumption == MaxTargets \in Nat \ {0} /\ MaxChanges \in Nat

VARIABLES
  online,    \* Marvins that are online and advertise the capability
  hostname,  \* hostname of each Marvin
  labels,    \* its labels: key -> at most one value, {} when it lacks the key
  attached,  \* resources attached to it
  enabled,   \* resources that are enabled
  changes,   \* history: changes to the fleet, up to MaxChanges
  pc,        \* where the resolution is
  request,   \* the selectors and the capability it was called with
  scanned,   \* matched_ids of the label scan
  listed,    \* the Marvins listed, with the hostname read
  links,     \* the prefetched attachments of those
  targets,   \* snapshot_metadata["targets"]: executors of each logical target
  moments    \* history: the Marvins that matched both selectors, moment by
             \* moment since the call

fleet == <<online, hostname, labels, attached, enabled>>
local == <<scanned, listed, links>>
vars == <<fleet, changes, pc, request, local, targets, moments>>

-----------------------------------------------------------------------------
\* TargetSelector.merge_with and _merge_labels.

\* Mutant: what the model asked for replaces the session's constraint.
MergeField_AskedWins(own, other) == IF other = {} THEN own ELSE other

MergeField(own, other) ==
  IF own = {} THEN other
  ELSE IF other = {} THEN own
  ELSE {a \cap b : a \in own, b \in other}

LabelOf(l, k) == IF k \in DOMAIN l THEN l[k] ELSE {}

MergeLabels(own, other) ==
  [k \in DOMAIN own \cup DOMAIN other |-> MergeField(LabelOf(own, k), LabelOf(other, k))]

Merge(own, other) ==
  [hostname |-> MergeField(own.hostname, other.hostname),
   resource_ids |-> MergeField(own.resource_ids, other.resource_ids),
   labels |-> MergeLabels(own.labels, other.labels)]

Allows(constraint, v) == \A S \in constraint : v \in S

\* _label_matches: every key is there, with an allowed value.
LabelsMatch(m, wanted) ==
  \A k \in DOMAIN wanted :
    labels[m][k] # {} /\ \A v \in labels[m][k] : Allows(wanted[k], v)

\* The filters _base_marvin_queryset and _apply_selector put in the query.
Listed(m, sel) ==
  /\ m \in online
  /\ Allows(sel.hostname, hostname[m])
  /\ \A S \in sel.resource_ids : attached[m] \cap S # {}

Matches(m, sel) == Listed(m, sel) /\ LabelsMatch(m, sel.labels)

merged == Merge(request.session, request.asked)

-----------------------------------------------------------------------------
\* select_executors.

FirstOf(n, S) == {m \in S : Cardinality({k \in S : k < m}) < n}

SelectExecutors(S) ==
  CASE request.strategy = "all" -> S
    [] request.strategy = "quorum" -> FirstOf((Cardinality(S) + 1) \div 2, S)
    [] OTHER -> FirstOf(1, S)

\* _resolve_logical_targets and _resolve_resource_targets: what a Marvin
\* of the list serves.
Serves(m) ==
  CASE request.scope = "marvin-local" -> {m}
    [] request.scope = "host" -> {IF listed[m] = NoHost THEN m ELSE listed[m]}
    [] OTHER -> {r \in links[m] \cap OfScope \cap enabled :
                   \A S \in merged.resource_ids : S = {} \/ r \in S}

LogicalTargets == UNION {Serves(m) : m \in DOMAIN listed}

Chosen == UNION {targets[t] : t \in DOMAIN targets}

-----------------------------------------------------------------------------
Nobody == [t \in {} |-> {}]
NoRequest ==
  [session |-> [hostname |-> {}, resource_ids |-> {}, labels |-> Nobody],
   asked |-> [hostname |-> {}, resource_ids |-> {}, labels |-> Nobody],
   scope |-> "marvin-local", strategy |-> "one"]

Running == {"scan", "list", "prefetch", "group"}

Init ==
  /\ online = Marvins /\ hostname = [m \in Marvins |-> NoHost]
  /\ labels \in [Marvins -> FirstLabels]
  /\ attached = [m \in Marvins |-> Resources] /\ enabled = Resources
  /\ changes = 0
  /\ pc = "idle" /\ request = NoRequest
  /\ scanned = {} /\ listed = Nobody /\ links = Nobody
  /\ targets = Nobody
  /\ moments = {}

\* The call; a capability whose policy requires a resource is refused unless
\* the merged selector names one, and without labels there is nothing to scan.
Begin(s, a, scope, strategy) ==
  /\ pc \notin Running
  /\ request' = [session |-> s, asked |-> a, scope |-> scope, strategy |-> strategy]
  /\ \/ pc' = IF merged'.labels = Nobody THEN "list" ELSE "scan"
     \/ merged'.resource_ids \in {{}, {{}}} /\ pc' = "refused"
  /\ scanned' = Marvins /\ listed' = Nobody /\ links' = Nobody
  /\ targets' = Nobody
  /\ UNCHANGED <<fleet, changes>>

\* _apply_selector reads id and labels of the Marvins the filters leave.
Scan ==
  /\ pc = "scan" /\ pc' = "list"
  /\ scanned' = {m \in Marvins : Matches(m, merged)}
  /\ UNCHANGED <<fleet, changes, request, listed, links, targets>>

\* The list itself, a query of its own: the filters again, and the ids scanned.
List ==
  /\ pc = "list" /\ pc' = "prefetch"
  /\ listed' = [m \in {k \in scanned : Listed(k, merged)} |-> hostname[m]]
  /\ UNCHANGED <<fleet, changes, request, scanned, links, targets>>

\* prefetch_related: the attachments of the Marvins listed.
Prefetch ==
  /\ pc = "prefetch" /\ pc' = "group"
  /\ links' = [m \in DOMAIN listed |-> attached[m]]
  /\ UNCHANGED <<fleet, changes, request, scanned, listed, targets>>

\* prefetch_related: their resources; then the logical targets, their
\* executors, check_execution_policy and the ResolvedTargetSet row.
Group ==
  /\ pc = "group"
  /\ LET executors == [t \in LogicalTargets |->
                         SelectExecutors({m \in DOMAIN listed : t \in Serves(m)})]
         found == UNION {executors[t] : t \in DOMAIN executors}
     IN IF /\ request.scope = "resource" => DOMAIN executors # {}
           /\ Cardinality(found) <= MaxTargets
        THEN targets' = executors /\ pc' = "created"
        ELSE targets' = targets /\ pc' = "refused"
  /\ UNCHANGED <<fleet, changes, request, local>>

-----------------------------------------------------------------------------
\* What happens to the fleet meanwhile.

Change == changes < MaxChanges /\ changes' = changes + 1
          /\ UNCHANGED <<pc, request, local, targets>>

\* A Marvin registers, with the host and the labels it reports.
Register(m, h, l) ==
  /\ Change
  /\ online' = online \cup {m}
  /\ hostname' = [hostname EXCEPT ![m] = h]
  /\ labels' = [labels EXCEPT ![m] = l]
  /\ UNCHANGED <<attached, enabled>>

GoOffline(m) ==
  /\ Change /\ m \in online
  /\ online' = online \ {m}
  /\ UNCHANGED <<hostname, labels, attached, enabled>>

Attach(m, r) ==
  /\ Change
  /\ attached' = [attached EXCEPT ![m] = IF r \in @ THEN @ \ {r} ELSE @ \cup {r}]
  /\ UNCHANGED <<online, hostname, labels, enabled>>

Enable(r) ==
  /\ Change
  /\ enabled' = IF r \in enabled THEN enabled \ {r} ELSE enabled \cup {r}
  /\ UNCHANGED <<online, hostname, labels, attached>>

\* History: who matches the session's selector and the one asked for.
Matching == {m \in Marvins : Matches(m, request.session) /\ Matches(m, request.asked)}

Observe ==
  moments' = IF pc' \notin Running THEN moments
             ELSE IF pc \in Running THEN moments \cup {Matching'}
             ELSE {Matching'}

Resolving ==
  \/ \E s \in SessionSelectors, a \in AskedSelectors, scope \in Scopes, strategy \in Strategies :
       Begin(s, a, scope, strategy)
  \/ Scan \/ List \/ Prefetch \/ Group

Changing ==
  \/ \E m \in Marvins, h \in Hosts, l \in RowLabels : Register(m, h, l)
  \/ \E m \in Marvins : GoOffline(m)
  \/ \E m \in Marvins, r \in Resources : Attach(m, r)
  \/ \E r \in Resources : Enable(r)

Next == (Resolving \/ Changing) /\ Observe

Spec == Init /\ [][Next]_vars

-----------------------------------------------------------------------------
(***************************************************************************)
(* A ResolvedTargetSet is a snapshot of Marvins matched "at a point in     *)
(* time" (src/apps/marvins/models.py:448) although it is put together from *)
(* several queries, and its selector is the AND of two.  What it promises: *)
(***************************************************************************)

Scans == {"idle", "scan", "list", "prefetch", "group", "refused", "created"}

\* Every variable keeps its type: the scan, the list and the executors are
\* Marvins, and what was read of them is what the row may hold.
TypeOK ==
  /\ online \subseteq Marvins /\ hostname \in [Marvins -> Hosts]
  /\ labels \in [Marvins -> RowLabels]
  /\ attached \in [Marvins -> SUBSET Resources] /\ enabled \subseteq Resources
  /\ changes \in 0 .. MaxChanges
  /\ pc \in Scans
  /\ request \in [session : Selectors, asked : Selectors,
                  scope : Scopes, strategy : Strategies]
  /\ scanned \subseteq Marvins
  /\ DOMAIN listed \subseteq Marvins /\ listed \in [DOMAIN listed -> Hosts]
  /\ links \in [DOMAIN links -> SUBSET Resources] /\ DOMAIN links \subseteq Marvins
  /\ targets \in [DOMAIN targets -> SUBSET Marvins]
  /\ moments \subseteq SUBSET Marvins

\* There was one moment of the call at which every Marvin of the snapshot
\* was online and matched the session's selector and the one asked for.
OfOneMoment ==
  pc = "created" => \E S \in moments : Chosen \subseteq S

\* A resource the targets name is one both selectors allow, and of the
\* capability's scope.
ResourcesAllowed ==
  pc = "created" /\ request.scope = "resource" =>
    \A t \in DOMAIN targets :
      /\ t \in OfScope
      /\ Allows(request.session.resource_ids, t)
      /\ Allows(request.asked.resource_ids, t)

\* The Marvins of the list that may execute target t.
Candidates(t) ==
  CASE request.scope = "marvin-local" -> {t}
    [] request.scope = "host" -> {m \in DOMAIN listed : t \in Serves(m)}
    [] OTHER -> {m \in DOMAIN listed : t \in links[m]}

\* Each target has as many executors as the strategy asks for (all of its
\* candidates, half of them rounded up, or one), those with the lowest ids,
\* and all executors together are within absolute_max_targets.
WellStaffed ==
  pc = "created" =>
    /\ \A t \in DOMAIN targets :
         LET able == Candidates(t)  taken == targets[t] IN
         /\ taken \subseteq able /\ taken # {}
         /\ \A m \in taken, k \in able \ taken : m < k
         /\ request.strategy = "all" => taken = able
         /\ request.strategy = "quorum" =>
              2 * Cardinality(taken) \in {Cardinality(able), Cardinality(able) + 1}
         /\ request.strategy = "one" => Cardinality(taken) = 1
    /\ Cardinality(Chosen) <= MaxTargets

\* The snapshot of a resolution is sound: a fleet that changes between the
\* queries and selectors that overlap in part never put a Marvin or a
\* resource in it that one of the two selectors excludes, nor leave a target
\* with more or fewer executors than its strategy asks for.
ResolutionSound == OfOneMoment /\ ResourcesAllowed /\ WellStaffed

=============================================================================
