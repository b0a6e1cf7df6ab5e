-------------------------- MODULE CapabilityCatalog --------------------------
(***************************************************************************)
(* One capability of an organization, the Marvins that offer it and its    *)
(* embedding.  Connect handlers register Marvins                           *)
(* (_update_marvin_registration) and write their status, embedding tasks   *)
(* of the server and regenerate_embeddings embed the capability's search   *)
(* document, operators edit the capability and the Marvins through the     *)
(* API.  Each reads a row, and saves columns of its copy some steps later; *)
(* Capability.save adds the columns of the search document to whatever is  *)
(* saved, and a Marvin is always saved whole.                              *)
(***************************************************************************)
EXTENDS Naturals

CONSTANTS
  Marvins,
  Handlers,          \* Connect handlers; a Marvin may have several for a while
  Tasks,             \* embedding tasks, and runs of regenerate_embeddings
  Editors,           \* requests that change the capability or a Marvin
  Descriptions,      \* all a manifest says of the capability
  Nothing,           \* no manifest entry, no embedding, no row, no copy
  MaxRegistrations,  \* bound on registrations
  MaxEdits,          \* bound on changes by operators
  MaxFaults          \* bound on failures of the provider and crashes of the server

\* The columns of a row that are followed here.
Capability ==
  [description : Descriptions, document : Descriptions, version : Nat,
   embedding : Descriptions \cup {Nothing}, embedded : Nat,
   needs : BOOLEAN, enabled : BOOLEAN]

ASSUME NothingAssumption == Nothing \notin Descriptions \cup Marvins \cup Capability
ASSUME ProcessAssumption ==
  /\ Handlers \cap Tasks = {} /\ Handlers \cap Editors = {} /\ Tasks \cap Editors = {}
ASSUME BoundsAssumption ==
  MaxRegistrations \in Nat /\ MaxEdits \in Nat /\ MaxFaults \in Nat

Processes == Handlers \cup Tasks \cup Editors

\* Those that save rows of Marvins.
Writers == Handlers \cup Editors

VARIABLES
  capability,     \* the Capability row, Nothing before it is created
  configs,        \* what each Marvin's row says it reported: capability_configs, labels, host
  serves,         \* the Marvins related to the capability: Marvin.capabilities
  agent,          \* agent[p]: the Marvin handler p serves or request p changed last,
                  \* Nothing before
  manifest,       \* manifest[h]: what it registers
  pc,             \* pc[p]: what process p does next
  copy,           \* copy[p]: its Capability, or its Marvin's configs
  due,            \* whether a registration's embedding task has not started
  registrations, edits, faults,  \* so far
  \* History, read by properties only.
  reverted,       \* whether a save took a version back, or changed the document
                  \* without a greater one
  stated,         \* stated[m]: what m's row was last told to say, by a registration
                  \* or by an operator who set its capability_configs
  offered,        \* Marvins whose last registration offered the capability
  overtaken,      \* Marvins whose row was then about to be saved from an older copy
  crossed         \* Marvins whose relation another handler was then about to write, or
                  \* whose handler died before it wrote it

historyVars == <<stated, offered, overtaken, crossed>>
marvinVars == <<configs, serves, agent, manifest, historyVars>>
counters == <<registrations, edits, faults>>
catalogVars == <<capability, marvinVars, pc, copy, due, counters, reverted>>

-----------------------------------------------------------------------------
\* Capability.save: the search document is built again, its version counts its
\* changes, and needs_re_embedding compares that with the version embedded.

\* Mutant: needs_re_embedding is set before the document is built.
Rebuilt_Early(c) ==
  [c EXCEPT !.document = c.description,
            !.version = IF c.document = c.description THEN @ ELSE @ + 1,
            !.needs = c.version > c.embedded]

Rebuilt(c) ==
  LET version == IF c.document = c.description THEN c.version ELSE c.version + 1
  IN [c EXCEPT !.document = c.description, !.version = version,
               !.needs = version > c.embedded]

\* A save of some columns of copy c; those of the document are always added.
SaveColumns(columns, c) ==
  capability' = [column \in DOMAIN capability |->
                   IF column \in columns \cup {"document", "version", "needs"}
                     THEN c[column] ELSE capability[column]]

NewCapability(d) ==
  Rebuilt([description |-> d, document |-> Nothing, version |-> 0, embedding |-> Nothing,
           embedded |-> 0, needs |-> FALSE, enabled |-> TRUE])

CatalogInit ==
  /\ capability = Nothing
  /\ configs = [m \in Marvins |-> Nothing] /\ serves = {}
  /\ agent = [p \in Writers |-> Nothing] /\ manifest = [h \in Handlers |-> Nothing]
  /\ pc = [p \in Processes |-> "idle"] /\ copy = [p \in Processes |-> Nothing]
  /\ due = FALSE
  /\ registrations = 0 /\ edits = 0 /\ faults = 0
  /\ reverted = FALSE /\ stated = configs /\ offered = {}
  /\ overtaken = {} /\ crossed = {}

Proceed(p, l) == pc' = [pc EXCEPT ![p] = l]
Hold(p, c) == copy' = [copy EXCEPT ![p] = c]

-----------------------------------------------------------------------------
(* _update_marvin_registration *)

\* A handler takes its first register message, or another on the same stream.
RegisterMarvin(h, m, d) ==
  /\ registrations < MaxRegistrations /\ registrations' = registrations + 1
  /\ pc[h] = "idle" /\ agent[h] \in {Nothing, m}
  /\ agent' = [agent EXCEPT ![h] = m]
  /\ manifest' = [manifest EXCEPT ![h] = d]
  /\ Proceed(h, IF d = Nothing THEN "saving" ELSE "reading")
  /\ UNCHANGED <<capability, configs, serves, historyVars, copy, due, edits, faults>>

\* A Marvin of another organization than the key's is left as it is, and its
\* handler goes on.
IgnoreMarvin(h, m) ==
  /\ registrations < MaxRegistrations /\ registrations' = registrations + 1
  /\ pc[h] = "idle" /\ agent[h] \in {Nothing, m}
  /\ agent' = [agent EXCEPT ![h] = m]
  /\ UNCHANGED <<capability, configs, serves, manifest, historyVars, pc, copy, due, edits, faults>>

\* What the capability's copy still needs of this manifest.
Update(h, c) ==
  IF c.description # manifest[h] THEN "describing"
  ELSE IF ~c.enabled THEN "enabling" ELSE "saving"

\* get_or_create
ReadCapability(h) ==
  /\ pc[h] = "reading"
  /\ capability' = IF capability = Nothing THEN NewCapability(manifest[h]) ELSE capability
  /\ Hold(h, capability')
  /\ Proceed(h, Update(h, capability'))
  /\ UNCHANGED <<marvinVars, due, counters>>

Describe(h) ==
  /\ pc[h] = "describing"
  /\ LET c == Rebuilt([copy[h] EXCEPT !.description = manifest[h]])
     IN SaveColumns({"description"}, c) /\ Hold(h, c) /\ Proceed(h, Update(h, c))
  /\ UNCHANGED <<marvinVars, due, counters>>

Enable(h) ==
  /\ pc[h] = "enabling"
  /\ LET c == Rebuilt([copy[h] EXCEPT !.enabled = TRUE])
     IN SaveColumns({"enabled"}, c) /\ Hold(h, c) /\ Proceed(h, Update(h, c))
  /\ UNCHANGED <<marvinVars, due, counters>>

\* History: a process other than p is at place l with p's Marvin.
Beside(p, l) == \E q \in Writers \ {p} : agent[q] = agent[p] /\ pc[q] = l

With(M, m, held) == IF held THEN M \cup {m} ELSE M \ {m}

\* marvin.save(); every column of the row but the names is set by the registration.
SaveMarvin(h) ==
  /\ pc[h] = "saving"
  /\ configs' = [configs EXCEPT ![agent[h]] = manifest[h]]
  /\ stated' = [stated EXCEPT ![agent[h]] = manifest[h]]
  /\ offered' = With(offered, agent[h], manifest[h] # Nothing)
  /\ overtaken' = With(overtaken, agent[h], Beside(h, "writing"))
  /\ crossed' = With(crossed, agent[h], Beside(h, "linking"))
  /\ Proceed(h, "linking") /\ Hold(h, Nothing)
  /\ UNCHANGED <<capability, serves, agent, manifest, due, counters>>

\* Mutant: with no capability enabled the relation is not touched.
Link_OnlySome(h) ==
  /\ pc[h] = "linking"
  /\ serves' = IF manifest[h] = Nothing THEN serves ELSE serves \cup {agent[h]}
  /\ due' = (due \/ manifest[h] # Nothing)
  /\ Proceed(h, "idle")
  /\ UNCHANGED <<capability, configs, agent, manifest, historyVars, copy, counters>>

\* marvin.capabilities.set(...), and _trigger_embedding_generation.
Link(h) ==
  /\ pc[h] = "linking"
  /\ serves' = IF manifest[h] = Nothing THEN serves \ {agent[h]} ELSE serves \cup {agent[h]}
  /\ due' = (due \/ manifest[h] # Nothing)
  /\ Proceed(h, "idle")
  /\ UNCHANGED <<capability, configs, agent, manifest, historyVars, copy, counters>>

-----------------------------------------------------------------------------
(* Whole rows of Marvins. *)

\* _update_marvin_status_in_database, for a heartbeat or the end of the stream,
ReadMarvin(h) ==
  /\ pc[h] = "idle" /\ agent[h] # Nothing
  /\ Hold(h, configs[agent[h]]) /\ Proceed(h, "writing")
  /\ UNCHANGED <<capability, marvinVars, due, counters>>

\* and MarvinViewSet.partial_update, of any Marvin.
BeginPatch(o, m) ==
  /\ edits < MaxEdits /\ edits' = edits + 1
  /\ pc[o] = "idle"
  /\ agent' = [agent EXCEPT ![o] = m]
  /\ Hold(o, configs[m]) /\ Proceed(o, "writing")
  /\ UNCHANGED <<capability, configs, serves, manifest, historyVars, due, registrations, faults>>

\* Either saves all of its copy, with another status, or a request another name.
WriteMarvin(p) ==
  /\ pc[p] = "writing"
  /\ configs' = [configs EXCEPT ![agent[p]] = copy[p]]
  /\ Proceed(p, "idle") /\ Hold(p, Nothing)
  /\ UNCHANGED <<capability, serves, agent, manifest, historyVars, due, counters>>

\* A request may set the capability_configs: the other columns are saved from the
\* copy all the same.
SetConfigs(o, d) ==
  /\ pc[o] = "writing"
  /\ configs' = [configs EXCEPT ![agent[o]] = d]
  /\ stated' = [stated EXCEPT ![agent[o]] = d]
  /\ overtaken' = overtaken \cup With({}, agent[o], Beside(o, "writing"))
  /\ Proceed(o, "idle") /\ Hold(o, Nothing)
  /\ UNCHANGED <<capability, serves, agent, manifest, offered, crossed, due, counters>>

-----------------------------------------------------------------------------
(* Embedding tasks, regenerate_embeddings and the operators. *)

Load(t) ==
  /\ capability # Nothing /\ pc[t] = "idle"
  /\ Hold(t, capability) /\ Proceed(t, "embedding")
  /\ UNCHANGED <<capability, marvinVars, counters>>

\* _run_embedding_activity for a registration.
RunTriggered(t) == due /\ due' = FALSE /\ Load(t)

\* Mutant: only enabled capabilities are polled for.
Stale_Enabled == capability # Nothing /\ capability.needs /\ capability.enabled

\* _find_re_embedding_ids
Stale == capability # Nothing /\ capability.needs

\* _poll_re_embedding_needs
Poll(t) == Stale /\ Load(t) /\ UNCHANGED due

\* regenerate_embeddings
Regenerate(t) == Load(t) /\ capability.enabled /\ UNCHANGED due

\* _save_embedding, after the provider has embedded the document of the copy.
SaveEmbedding(t) ==
  /\ pc[t] = "embedding"
  /\ SaveColumns({"embedding", "embedded"},
                 Rebuilt([copy[t] EXCEPT !.embedding = copy[t].document,
                                         !.embedded = copy[t].version]))
  /\ Proceed(t, "idle") /\ Hold(t, Nothing)
  /\ UNCHANGED <<marvinVars, due, counters>>

Fault == faults < MaxFaults /\ faults' = faults + 1 /\ UNCHANGED <<registrations, edits>>

EmbeddingFails(t) ==
  /\ pc[t] = "embedding"
  /\ Proceed(t, "idle") /\ Hold(t, Nothing) /\ Fault
  /\ UNCHANGED <<capability, marvinVars, due>>

\* The server dies with its handlers and tasks.
Crash ==
  /\ pc' = [p \in Processes |-> IF p \in Editors THEN pc[p] ELSE "idle"]
  /\ copy' = [p \in Processes |-> IF p \in Editors THEN copy[p] ELSE Nothing]
  /\ agent' = [p \in Writers |-> IF p \in Editors THEN agent[p] ELSE Nothing]
  /\ manifest' = [h \in Handlers |-> Nothing]
  /\ crossed' = crossed \cup {agent[h] : h \in {g \in Handlers : pc[g] = "linking"}}
  /\ due' = FALSE /\ Fault
  /\ UNCHANGED <<capability, configs, serves, stated, offered, overtaken>>

\* CapabilityViewSet: a request reads the row,
BeginEdit(o) ==
  /\ edits < MaxEdits /\ edits' = edits + 1
  /\ capability # Nothing /\ pc[o] = "idle"
  /\ Hold(o, capability) /\ Proceed(o, "editing")
  /\ UNCHANGED <<capability, marvinVars, due, registrations, faults>>

\* and saves all of it, with a new description or enabled otherwise.
EndEdit(o, d, on) ==
  /\ pc[o] = "editing"
  /\ capability' = Rebuilt([copy[o] EXCEPT !.description = d, !.enabled = on])
  /\ Proceed(o, "idle") /\ Hold(o, Nothing)
  /\ UNCHANGED <<marvinVars, due, counters>>

\* regenerate_embeddings --bump-version
BumpVersion ==
  /\ edits < MaxEdits /\ edits' = edits + 1
  /\ capability # Nothing
  /\ capability' = [capability EXCEPT !.version = @ + 1]
  /\ UNCHANGED <<marvinVars, pc, copy, due, registrations, faults>>

-----------------------------------------------------------------------------

Registering(h) ==
  ReadCapability(h) \/ Describe(h) \/ Enable(h) \/ SaveMarvin(h) \/ Link(h)

Reverts ==
  /\ capability # Nothing
  /\ \/ capability'.version < capability.version \/ capability'.embedded < capability.embedded
     \/ capability'.version = capability.version /\ capability'.document # capability.document

CatalogNext ==
  /\ \/ \E h \in Handlers, m \in Marvins, d \in Descriptions \cup {Nothing} :
          RegisterMarvin(h, m, d)
     \/ \E h \in Handlers, m \in Marvins : IgnoreMarvin(h, m)
     \/ \E h \in Handlers : Registering(h) \/ ReadMarvin(h)
     \/ \E o \in Editors, m \in Marvins : BeginPatch(o, m)
     \/ \E p \in Writers : WriteMarvin(p)
     \/ \E o \in Editors, d \in Descriptions \cup {Nothing} : SetConfigs(o, d)
     \/ \E t \in Tasks : \/ RunTriggered(t) \/ Poll(t) \/ Regenerate(t)
                         \/ SaveEmbedding(t) \/ EmbeddingFails(t)
     \/ \E o \in Editors : BeginEdit(o)
     \/ \E o \in Editors, d \in Descriptions, on \in BOOLEAN : EndEdit(o, d, on)
     \/ BumpVersion \/ Crash
  /\ reverted' = (reverted \/ Reverts)

CatalogSpec == CatalogInit /\ [][CatalogNext]_catalogVars

\* The poll goes on for ever and the server runs what it has started.
FairCatalogSpec ==
  /\ CatalogSpec
  /\ WF_pc(\E t \in Tasks : Poll(t))
  /\ \A t \in Tasks : WF_pc(SaveEmbedding(t))

-----------------------------------------------------------------------------
(* Properties *)

\* What _vector_search compares a query with.
Searched == capability # Nothing /\ capability.embedding # Nothing /\ ~capability.needs

\* search_document_version is the "Monotonic version of search_document.
\* Triggers re-embedding on change." (src/apps/marvins/models.py:211), and copies saved
\* late are all that can break it: as long as no save takes a version back or changes
\* the document without a greater one, the vector search only compares with an
\* embedding of the capability's present description.
SearchedIsCurrent == Searched /\ ~reverted => capability.embedding = capability.description

\* ... and a capability is embedded again after each change, whatever fails.
EmbeddedAgain ==
  []<>(\/ capability = Nothing \/ reverted
       \/ Searched /\ capability.embedding = capability.description)

\* What a Marvin reported last, or an operator set since, is what its row says,
\* unless another process had read the row and not yet saved it when that was
\* written; and it serves the capability just when it offered it last, unless the
\* server died before the relation followed the row, or another of its handlers was
\* then about to write the relation.  Both hold again from the next registration
\* that nobody crosses.
RegistrationKept ==
  \A m \in Marvins :
    /\ m \notin overtaken => configs[m] = stated[m]
    /\ m \notin crossed /\ (\A h \in Handlers : ~(agent[h] = m /\ pc[h] = "linking")) =>
         (m \in serves <=> m \in offered)

=============================================================================
