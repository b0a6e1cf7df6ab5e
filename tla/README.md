# Formal models of Vogon

TLA+ models of the concurrent core of Vogon, model-checked with TLC and, where a
claim is a safety claim that matters for every size of the system, proved with TLAPS.
Paths below are relative to the root of the repository.

## The system

Vogon lets an LLM investigate infrastructure through agents ("Marvins"). Its parts:

| Component | State it keeps | Operations | Talks to |
|---|---|---|---|
| Session workflow (`services/temporal_workers/workflows.py`, `TroubleshootWorkflow`) | `state["status"]`, `_pending_messages`, `_completion_requested`, the LLM context of a turn | `run`, signals `user_message` and `complete` | activities (awaited), views (signals) |
| Session views (`apps/sessions/views.py`) | `TSession`, `Thread`, `Message`, `ToolCall` rows | create, send a message, complete | the workflow, by signals sent after the rows are written |
| Tool execution (`activities.py` `execute_llm_tool`, `fanout.py`) | `ToolCall` and `Execution` rows, coroutines | resolve, reserve, route, fan out, release, complete | the budget, target discovery, the gRPC server |
| Session budget (`apps/sessions/budget.py`) | `TSession.execution_budget` (three counters) | reserve, release, both under a row lock | tool execution |
| Target discovery (`apps/marvins/discovery.py`) | none (reads `Marvin`, `Capability`, `Policy`) | `resolve_targets`, `check_execution_policy` | the budget |
| Marvin gRPC server (`services/grpc_server/servicer.py`, `main.py`) | `self.marvins`, a `MarvinStream` per connection, `Marvin.status` and `last_seen` | register, heartbeat, result, command, leave, sweep, startup cleanup | agents, `execute_capability` |
| Notifications (`services/notifications`) | `Notification`, `NotificationDelivery` rows | create, suppress, deliver | `NotificationDeliveryWorkflow`, external providers |
| Receivers (`services/checks/receivers`) | `ReceiverEvent` rows, cache counters | ingest, deduplicate, correlate, limit, dispatch | `ReceiverAdmissionWorkflow`, the admission gate (an LLM) |
| Admission (`ReceiverAdmissionWorkflow`, `admission_gate.py`) | the disposition of an event, `CheckExecution` rows | decide, create the execution, start the investigation | `AutonomousInvestigationWorkflow` |
| Autonomous investigations (`AutonomousInvestigationWorkflow`) | `CheckExecution` and autonomous `TSession` rows | load, run, report, dispatch actions | tool execution, `ActionDispatcher` |
| Action dispatcher (`services/checks/actions.py`) | `CheckActionLog` rows | which actions are due, cooldown, notification | notifications |
| Check scheduler (`services/checks/scheduler.py`) | Temporal schedules, `Check.enabled` | create, update, pause, resume, delete, trigger, migrate | Temporal, the requests that save a check |
| Chat page (`apps/sessions/views.py`) | none (reads `Message` and `AgentEvent`) | pair tool calls with results, show progress | the rows a turn records |
| Capability catalog and embeddings (`servicer.py`, `services/embeddings`) | `Capability` rows with search document, version and embedding | register, embed, poll, regenerate, edit | the vector search of target discovery |
| WebSocket consumer (`apps/ws`) | the thread groups of a browser | connect, sync, broadcast | signals of the models |
| MCP server (`services/mcp_server/server.py`) | `ToolCall` rows | execute a capability with a timeout | `CapabilityExecutionWorkflow` |
| Configuration, personalities, designs, accounts, API, admin | rows | CRUD | - |

What is hard in it:

* *Interleaving.* Activities run in threads of a worker beside the views and beside each
  other, on the same rows. Signals come in at every await of a workflow. The handlers of
  two connections of the same agent overlap.
* *Failure.* Temporal retries an activity whose attempt failed, timed out or died with its
  worker, and the attempt that timed out may still be running. Statements fail between
  the reservation of a budget and its release. A server crash skips every `finally`.
* *Ordering.* Status columns are written by whoever comes last: the views, late attempts,
  handlers that notice a broken wire after the agent has reconnected.
* *Delivery.* Signals are retried and may be repeated or lost; commands may be queued on a
  stream nobody serves any more.

What makes each component correct: the budget counters are exact and within their limits
whatever fails; a session handles its messages in order and forgets none; the interface
shows a session as paused when it is, and completed when it was completed; the server's
map of streams is exact and the stored status of an agent converges to the truth; a
notification is sent once and its rows tell what happened to it; an alert is investigated
once and none is forgotten; a check's schedule does what the check says; a set of targets
holds what was asked for and nothing else; a search compares with what a capability is
now; a page shows what happened; every call, command, message, admission and investigation
comes to an end.

## The modules

| Module | Models | Refines |
|---|---|---|
| `ToolExecution` | the `execute_tool` calls of one session, from the LLM's answer to the `ToolCall` row, with the budget | `SlotPool` |
| `SessionWorkflow` | `TroubleshootWorkflow.run`, the views that signal it, `TSession.status` | `TurnQueue` |
| `MarvinConnection` | the successive connections of one agent, its commands, and `Marvin.status` | - |
| `NotificationDelivery` | the notifications of one key, their deliveries and their delivery workflows | - |
| `ReceiverPipeline` | the events of one alert at one receiver, their admission and its executions | - |
| `CheckInvestigation` | the investigations of one check, their rows, sessions and actions | - |
| `CheckSchedule` | one check, its Temporal schedule and the requests upon both | - |
| `TargetResolution` | one `resolve_targets`, query by query, in a fleet that changes | - |
| `CapabilityCatalog` | one capability, the Marvins that offer it and its embedding | - |
| `ThreadTranscript` | messages, events, tokens and the page of one thread | - |
| `SlotPool` | abstract: a pool that grants each holder a slot at most once, within limits | |
| `TurnQueue` | abstract: messages taken in order, one turn at a time, unanswered only if superseded | |
| `MC*` | model values and symmetry for TLC | |
| `*Proofs` | theorems | |

### ToolExecution

A *run* `<<call, attempt>>` is one attempt of an `execute_llm_tool` activity. `pc` follows
it from `resolving` through `reserved` (the transaction of `check_execution_policy`
committed), `routed` (`_route_and_execute` created the `ToolCall` row), `fanout` (the
coroutines run), `released` (the `finally` ran) to `completed`. `refused` and `returned`
are answers given to the LLM as an error; `aborted`, `route_failed`, `fanout_failed` and
`lost` are attempts that failed, and `lost` is the one that keeps its reservation.
`snapshot` and `targets` are kept apart because the code does: the reservation counts
`ResolvedTargetSet.snapshot`, the release counts the Marvins of it that still existed.

`NothingUsed` is the budget row of a new session. `Refuse` is every answer that
reserves nothing: a tool of the server's own, targets that cannot be resolved, a limit that
would be exceeded. `Resolve` is one step because the reservation is one transaction that locks the session
row and because nothing before it writes. Which targets are picked is any set of agents
that the policy's maximum allows. `StatementFails` has a disjunct for every place where an
exception leaves `execute_llm_tool`, with what the `except` and `finally` clauses of that
place do; `StatusWriteFails` makes `gather` raise with the sibling coroutines left running;
`TimeOut` and `Cancel` are the two halves of `start_to_close_timeout`; `WorkerCrash` ends
every run where it stands. `CompleteSession` and `DeleteMarvin` are the views of other users.

The module starts when `initialize_session` is done and assumes that no late attempt of it
is still to save the whole session row (see the hazards in `PROJECT.json`). A status write
in a `finally` of `_execute_one` that fails is not told apart from any other status write.

### SessionWorkflow

`at` is the await the workflow stands at; an action is the code from one await to the
next with the activity it awaited, because Temporal runs nothing of the workflow in
between. Events and usage counters recorded along the way are left out. `row` is
`TSession.status`, `status` is `state["status"]`. `SaveMessage` and `SignalMessage` are two
actions: the view writes the row, then signals, and anything may happen in between.
`SignalMessage` has three outcomes: delivered, delivered but reported as failed (it will be
sent again), and lost. The sets `delivered`, `taken`, `answered` and `unanswered` are
history: no guard reads them, except that the last of `taken` is the message of the turn.

`create_assistant_message` fails only after its three attempts; then `run` raises and the
workflow is `failed`. Activities without a retry policy are retried for ever, so they
succeed in the end; what their abandoned attempts write late is in `late`.

### MarvinConnection

One agent dials, breaks and dials again; each connection has its own `Connect` handler.
`handler` follows it from `open` through `validating` (the key is looked up), `registering`
(its stream is in `self.marvins`), `serving`, `leaving` and `popped` (the two awaits of the
`finally` clause) to `done`. An exception in a handler is a broken wire and a `Leave`. A
connection registers once. `unread` holds the handlers that have a heartbeat in their
`message_queue` when their wire breaks. `stale` abstracts `last_seen` to what the sweep
asks of it. `Dial`, `Break` and `Reply` belong to the agent, which is not in this repository.

### NotificationDelivery

The notifications that share one deduplication key; a delivery is a pair of a notification
and a channel. `creation` follows `create_notification` through its transaction: `Create`
inserts the row, looks for a committed open notification of the window and routes to
any of the channels (`Routed`: a policy's routes are deleted and created again one by one);
`StartWorkflow` starts the Temporal workflow, still inside the transaction; `Commit` makes
the rows visible. `row` holds the rows of the deliveries, visible or not; `ListPending`
sees those of committed notifications. The dedup key of an event's or an execution's
notification contains its identifier, so duplicates come from repeated calls (a retried
`dispatch_actions`) or from a caller that passes a key of its own.

`pc[d]` follows delivery `d` from `listed` through an attempt of `execute_delivery`
(`marking`, `sending`, `accepted` or `refused`: the row, the provider and the row again)
to `done`; `failing` is the update the workflow makes when the result is anything but
"delivered" or when three attempts raised. The workflow takes its deliveries one at a time,
in any order. `Interrupt` is the death of the worker that runs some of the attempts, or a
statement of theirs that fails. `TimeOut` is the `start_to_close_timeout` of 120 s: Temporal
retries the delivery, and the attempt, which nothing stops at once, goes on in `late`
through the same awaits (`LateLoad`, `LateMark`, `LateSend`, `LateSave`) beside the retry;
cancelled or without its worker, it takes no more of these steps. `LoadFails` is an attempt
given up before it has loaded the delivery, which it may load later.
`Send` is one call of `provider.send`: the HTTP retries inside a provider are not told
apart. `DeleteChannel` takes deliveries away under the workflow, which raises in every
activity that loads or saves them. With several worker processes nothing orders the
threads of two attempts, so none of that is assumed. `called`, `accepted`, `cut`,
`overlapped`, `early` and `before` are history: `overlapped` holds the deliveries that one
attempt loaded as pending while another, which had too, was still to save `SENDING`.

### ReceiverPipeline

The events of one alert (one external fingerprint) at one receiver. `row` is an event's
disposition once its transaction has committed and how far that is before. `Receive` takes
the lock on the receiver and with it the number of the event, whose kind is one of `Kinds`, the two statuses
`normalize` lets through; `Skip`, `IngestResolved` and
`IngestFiring` are the outcomes of `ingest_event`; `Dispatch` starts the admission workflow
inside the transaction, `Commit` or `Rollback` ends it, in either order with the gate's first
attempt. The window of an event is chosen anew for each, any final part of those before it,
because `dedup_window_seconds` can be edited. `Correlations` is whether the labels match a
running investigation. `BeginGate`, `SaveDecision`, `BeginCreate`, `Refuse`,
`CreateExecution` and `Link` are the reads and the writes of the two activities; a write may be
that of an attempt in `lost`, which Temporal gave up. `_start_execution` is left out: nothing
calls it. `under`, `raced`, `early` and `hasty` are history.

### CheckInvestigation

`stage` is where the workflow of an investigation is, `own` and `session` its two
identifiers, row `<<i, n>>` the n-th `CheckExecution` created for it. `BeginRun`, `BeginOpen`,
`BeginReport` and `BeginActions` are the reads of an attempt; `WriteRow`, `CreateRow`,
`OpenSession` and the dispatcher's `CheckCooldown`, `CreateActionLog` and `Notify` its writes.
`WriteRow` saves the whole row, as the code does, the session's name in it included.
`DeleteCheck` removes what hangs on the check, and every write after it fails. The rounds
with the model are one step, an evaluation or an exception (their parts are in
`ToolExecution` and `ThreadTranscript`); `Evaluate` is what the workflow makes of it. Dry runs are left out. `on_completion` and
`on_recovery` stand for the triggers: one looks at this execution only, one at the previous.

### CheckSchedule

A request reads the check (`Create`, `Edit`, `Toggle`, `Delete`, `Migrate`; `Import` reads
nothing and makes no schedule), saves the whole row (`SaveCheck`; Django's `save` inserts it again if it was deleted meanwhile), then
calls Temporal, and what Temporal raises is swallowed. `excuses` is why check and schedule
may disagree, one reason per path of the code that leaves them apart: an edit to the type
`event` leaves the old schedule running; `update_schedule` on a paused schedule replaces it
with one that runs; `resume_schedule` unpauses the schedule as it was; the pages do not
validate expressions, so one no schedule can be built from is saved; `import_check` saves an
enabled check and never schedules it. `ScheduleSpec` and the
names like it are long because `CheckProofs` extends this module and `CheckInvestigation`.

### TargetResolution

`Begin`, `Scan`, `List`, `Prefetch` and `Group` are the queries of `resolve_targets`;
`Register`, `GoOffline`, `Attach` and `Enable` change the fleet between them. A constraint is
a set of at most one set of allowed values, so that `None` and `[]` differ, as in the code.
`hostname` stands for the five list fields that are columns of a Marvin. `moments` is
history: the Marvins that matched both selectors, moment by moment. `Candidates` are the
Marvins listed that may execute a target. Nothing in the repository
but the REST serializer writes resolved targets to an execution, so who reads them later
is not modelled.

### CapabilityCatalog

Handlers, embedding tasks and requests each read a row into `copy` and save columns of
it some steps later; `SaveColumns` adds the columns of the search document, as
`Capability.save` does to any `update_fields`. `Describe` to `Link` are
`_update_marvin_registration`, and `IgnoreMarvin` its branch for a Marvin of another
organization, which saves nothing. `ReadMarvin` and `WriteMarvin` are `_update_marvin_status`,
which saves the whole Marvin. So does an operator's PATCH of a Marvin (`MarvinViewSet`,
`MarvinSerializer`): `BeginPatch` reads the row, and `WriteMarvin` saves it with another name
or status, `SetConfigs` with other `capability_configs`. A PUT, or a PATCH with labels, fails:
`_LabelsField` cannot read them. `stated` is what a Marvin's row was last told to say,
`offered` the Marvins whose last registration offered the capability, `overtaken` and `crossed`
those for which a save from an older copy, or a write of the relation, was then under way.
Not modelled are the creation and the deletion of Marvins by operators (`MarvinViewSet`,
`MarvinDeleteView`), the change of a Marvin's organization, and, in `MarvinConnection`, a
`status` or `last_seen` that an operator writes. `Load`, `SaveEmbedding` and `EmbeddingFails` are a task, started
by a registration, by the poll or by `regenerate_embeddings`. A search document is the
description it was built from and an embedding the document it was computed from. `CatalogSpec`
and the names like it are long because `MarvinProofs` extends this module and
`MarvinConnection`.

### ThreadTranscript

`log` is the tables `Message` and `AgentEvent` in the order of `created_at`, and `messages` the
first of them, which `build_llm_context` reads. A turn puts the
rows its next activities are to write into `todo`; `Write` writes them one at a time, so that a
message of the user may come between the two rows of a tool call. `GiveUp` abandons an
attempt, which goes on in `late` while its retry writes again; one abandoned writer exists at
a time. `GiveUpAsk` and `LateCharge` are calls of the model that are charged after they were
given up; `LateInitialize` is an attempt of `initialize_session`, given up after it read the
row, that saves every column of it in the middle of the session (an attempt that reads later
undoes less). `End`, `Page`, `Tools` and `Working` are the chat
page: a message claims the rows up to `End`, and `Page` folds their events with `Show` into the
tool calls displayed, `open` being those that await a result by their id. Signals are reliable here
(`SessionWorkflow` has the lost ones); the three attempts of `create_assistant_message` are not
exhausted; of the three limits of a session the one on all tokens is kept; the ids of tool
calls are fresh; labels and reasoning are left out.

## What is checked

Every bound is a constant of a `.cfg`. Deadlock is not checked, but in `target_resolution`,
because each of these systems may really stop: a session ends, an LLM asks for nothing more,
an agent has used its connections, the events of an alert have been handled.

| Run | Instance | Shows |
|---|---|---|
| `tool_execution` | 2 calls at once, 2 agents, 2 attempts, 1 fault, fairness | `BudgetAccounting`, `WithinLimits`, `CompletedIsWhole`, `QuiescentBudget`, `ImplementsPool`, `CallsSettle` |
| `tool_call_lifecycle` | no fault needed | finds the violation of `ToolCallLifecycle` |
| `session_workflow` | 3 messages in 2 threads, 2 iterations, 1 fault, fairness | `NothingForgotten`, `PausedAgrees`, `ImplementsQueue`, `CompletionStops`, `MessagesTaken` |
| `session_completed` | no fault needed | finds the violation of `CompletedIsFinal` |
| `marvin_connection` | 3 connections, 1 command, 1 crash, fairness | `MapExact`, `CommandsSettle`, `OnlineAgain`, `OfflineAgain` |
| `notification_delivery` | 2 duplicates, 2 channels, 2 attempts, 2 faults, fairness | `SentOnce`, `OneOpenPerWindow`, `RowsTellTheTruth`, `StrandedOnlyByEarlyStart`, `StartedEnds` |
| `receiver_pipeline` | 3 events, 2 admissions at a time, 1 execution at a time, 2 attempts, 1 fault, fairness | `NoSecondInvestigation`, `SuppressedByLive`, `SuppressedIsCovered`, `LimitHeldUnlessRaced`, `OutcomeRecorded`, `AdmissionsEnd` |
| `check_investigation` | 2 investigations, 1 fault, fairness | `RowsAccountedFor`, `RecoveryNotified`, `CooldownHeld`, `InvestigationsEnd` |
| `check_schedule` | 3 requests, 2 expressions and an invalid one, 1 failing call | `DriftExplained`, `DeletedLeavesNothing` |
| `target_resolution` | 3 Marvins of which 2 may be chosen, 2 changes, 6 pairs of selectors, every scope and strategy | `ResolutionSound` |
| `capability_catalog` | 2 handlers of 1 Marvin, 1 task, 1 editor, 2 descriptions, 1 fault, fairness | `SearchedIsCurrent`, `RegistrationKept`, `EmbeddedAgain` |
| `thread_transcript` | 2 messages, 3 tool calls of at most 2 at once, 2 iterations, 1 fault | `ContextSound`, `ToolsShownTruthfully`, `ProgressEnds`, `OvershootBounded` |

The type invariants are not among the properties of the runs: each is proved.

Why the bounds are enough. The limits of the budget are set so that two runs reach them, so
that an attempt is refused and a lost reservation is met by a retry; the limit on concurrent
executions does not bind at this size, and `LimitsCorrect` proves it for every size. Two agents
allow a fan-out in which one coroutine fails or one agent is deleted. Three messages in two
threads are the least in which a turn is interrupted by its own thread and by another. Three
connections let two old handlers leave while a third registers. Two duplicates are the least
that race, and a second channel the least that can wait behind a stuck delivery; there are
as many faults as attempts, so that all attempts of a delivery can be lost, or two of them overlap. Three events are the least in
which an alert fires, resolves and fires again; two admissions are the least that race for the
limit. Two investigations are the least that have a previous health, a cooldown and a race for
it. Three requests let one overlap another after a third created the check. Two changes of a
fleet let a Marvin leave and come back, or one leave as another comes, between two queries; of
three Marvins a quorum is two and all of them are more than the limit of two allows, and a
snapshot of two may hold one that left as the other came. Two
handlers of one Marvin are the least whose registrations cross, and one operator the least
that saves an older copy over a registration; two messages let the user
write during a turn. What takes a third message is left to the proofs, and to checks outside
the runs: with three messages and one call at a time `ContextSound` also holds with one fault
(554,376 states) and with two (8,362,820). One fault is enough to put a timeout or a crash at every point of an
otherwise complete execution. Symmetry is declared only in a run without liveness, over values
the module never tells apart.

Fairness. `ToolExecution`: the worker runs what it started and Temporal schedules the retry it
owes (`WF` on `Working`, of which every step makes progress); coroutines end because
`send_command` has a timeout. `SessionWorkflow`: Temporal keeps a workflow going (`WF` on
`Run` as a whole, nothing more). `MarvinConnection`: handlers and timers run, a connected
agent sends its heartbeat, and the server is started again; no fairness on dialling,
answering, or on a handler noticing that its wire broke, which is why `OfflineAgain` needs
the sweep. `NotificationDelivery`: Temporal runs each started workflow and its activities
(`WF` on `Advance`); nothing obliges a transaction to commit. `ReceiverPipeline`: a request
ends the transaction it opened, Temporal advances the workflows and runs the attempts it still
waits for. `CheckInvestigation`: the same for each investigation. `CapabilityCatalog`: the poll
of the server goes on and a task that has loaded a capability saves or fails; nothing obliges a
handler, an editor or the task a registration started. No abandoned attempt, user, operator or
fault is ever obliged to act.

What the runs show of the design, beside that the properties hold. The exceptions are in the
properties because the code allows them; each was found as a counterexample first.

* Notifications: once an attempt has saved `SENDING`, no other attempt that loads the row
  calls the provider. The price is that a retry then skips the delivery, and the workflow
  writes `failed` over whatever the row says. An attempt that stalls for 120 s before that
  save and its retry have both loaded `PENDING`, and both send: no lock and no condition of
  the save prevents it (`activities.py:1492`). A workflow that lists before the commit leaves its deliveries
  pending, and one that meets a deleted delivery never ends.
* Receivers: an alert that resolves while its gate decides has its disposition written over,
  and counts as active again; two admissions that pass the limits together both run; an
  admission that looks for its event before the commit fails three times and leaves the
  event undecided; a given-up `create_check_execution` leaves a queued execution; the
  deletion of a receiver leaves `create_check_execution` retried for ever.
* Investigations: one whose context cannot be loaded ends at once and leaves its execution
  queued; a given-up attempt creates a second execution or session; two dispatchers that
  check a cooldown before either logs send both; on a deleted check the workflow is stuck
  in `dispatch_actions`.
* The catalog: a late save brings an old description, document or version back, and then the
  search may compare with what the capability no longer says; a registration is undone by
  a status write of another connection's handler, or by an operator's PATCH, that had read
  the row before it.
* The transcript: a message of the user, a late answer, or a retry, between the two rows of a tool call sends
  the model a call that its result does not follow; an empty answer of the model leaves no
  message, and the page says for ever that the assistant is working; the token limit is
  exceeded by less than one charge, and one more for every call given up; a late save by
  `initialize_session` resets what was charged, and grants the whole limit again.

### Disagreements found

* `ToolCallLifecycle`. `README.md:16` gives a `ToolCall` the lifecycle
  "pending → in_progress → completed/failed". `SessionCompleteView` fails the running
  calls, and `_complete_tool_call` then completes them.
* `CompletedIsFinal`. The thread pane says "Session completed. No further messages can be
  sent." (`templates/sessions/_thread_pane.html:42`, asserted at `apps/sessions/tests.py:413`).
  The creator may close a session whose workflow has not yet run `initialize_session`; the
  activity then saves `ACTIVE` over `completed` (`activities.py:151`), and the page offers
  its form again. The run's trace is these two steps; `set_session_status` is as blind, so
  a turn that goes on after the session is closed does the same.

## What is proved

For every value of the constants, from the named assumptions of the modules only:

* `ToolExecutionProofs`: `TypeCorrect`, `AccountingCorrect`, `LimitsCorrect`,
  `PoolImplemented`, `CompletedWhole`, `BudgetComesBack`, `CallsRunDown`. `BudgetAccounting` and `WithinLimits` are not inductive: the limits
  follow from the counters only if the counters are exact, and the release subtracts the
  size of `targets`, which is what was charged only if `targets` is a subset of `snapshot`.
  The inductive invariant is `TypeOK`, `TargetsInSnapshot`, `FreshAttempts` (a run beyond
  the last attempt has done nothing), `BudgetAccounting` and the limits on the counters.
  The proof counts: each action adds or takes one run, or one run times a set of agents,
  to or from `Holding` and `Charged`, and lemmas give the cardinality of the result.
  `CompletedIsWhole` needs `FanOut`: coroutines belong to runs that fan out or whose gather
  raised, and a target without one has ended; `QuiescentBudget` needs that a run fans out
  to all of its snapshot that still exists (`TargetsRemain`).
  `CallsRunDown` says that a call with no answer can be tried again or go on at its last
  attempt (`Begun`: an attempt that was scheduled is never idle, and a coroutine never has a
  final row), and that no step, a crash among them, takes a run or its coroutines back, while
  each step of the worker or the workflow takes one on.
* `SessionWorkflowProofs`: `TypeCorrect`, `QueueImplemented`, `NoneForgotten`, `PausedShown`,
  `TurnsRunDown`. The refinement of `TurnQueue`
  needs `delivered = taken \o inbox` (`Fifo`), that a turn has a message (`TurnTaken`), and
  that the tool loop is left only inside a turn (`InLoop`). `NothingForgotten` speaks of an
  idle workflow only; `Heard` says of every await where the messages of the thread that
  wrote last are: in the context of the turn, or answered. `PausedAgrees` needs what the row
  says at the awaits before the wait (`RowFollows`). `TurnsRunDown` says that each step of
  the workflow lowers a lexicographic measure of its inbox, the iterations its turn has left
  and its awaits, and that only a message it is sent raises it, by that message.
* `MarvinProofs`, of `MarvinConnection`: `TypeCorrect`, `MapCorrect`, `StatusSettles`. `MapExact` is
  inductive with `Undialled`: a connection that was never dialled has no handler.
  `StatusSettles` says that a connected Marvin is never stale, so that the sweep leaves it alone,
  that each handler of another connection marks it offline at most once while it stays
  connected, and that one that is away comes back online only by a heartbeat left unread.
* `MarvinProofs`, of `CapabilityCatalog`: `CatalogTypeCorrect`, `RegistrationsKept`,
  `SearchCurrent`, `ChangesFound`. `RegistrationKept` speaks of rows; `Kept` adds that, of a Marvin not overtaken,
  nothing but what it reported last, or an operator set since, is on its way to its row in the
  copy of a handler or of a request (`RowKept`), and that a handler about to write the relation
  of one not crossed writes what it offered last (`RelationKept`).
  `SearchedIsCurrent` is a claim about one row, but any of the copies in hand may be saved over
  it: while no save took the row back, the row's document is that of its description and its
  embedding that of its version (`RowSound`), and so is every copy's, which is besides an
  earlier state of the row (`CopiesSound`, `NoLater`). `ChangesFound` says, under the same
  condition, that a row without an embedding of its present description is one the poll finds,
  and that the first embedding saved is one of the row as it is.
* `NotificationDeliveryProofs`: `TypeCorrect`, `SendsOnce`, `RowsTrue`, `Deduplicated`,
  `NoneStranded`, `DeliveriesRunDown`.
  `SentOnce` does not see where the next call could come from, so `Unsent` says of a delivery
  no two attempts of which overlapped that a
  thread that may still send is the only one and has not sent, and that a row not past
  pending was never sent. `Unseen` keeps the workflow away from uncommitted rows, `Truth`
  says where an acceptance is while it is not in the row, `AttemptsLeft` bounds the
  attempts and `Windows` carries what a notification saw when it was created.
  `StrandedOnlyByEarlyStart` needs `Reached`: what is pending after the workflow has listed
  is a delivery it has in hand. `DeliveriesRunDown` says that a workflow that has listed its
  deliveries has ended or holds one whose next step is there to take, and that no call goes
  round: each step lowers `Left`, a lexicographic measure which no step raises.
* `TargetResolutionProofs`: `TypeCorrect`, `SnapshotsSound`. Lemmas first: what the merged
  selector lets through, both selectors let through (`MergeSound`), and what
  `select_executors` returns: all, half or one of the candidates, as the strategy asks, those
  with the lowest ids. Then, the fleet changing at will, `InTime` carries what each
  query has seen: the listed Marvins matched at one moment already in `moments`.
* `CheckProofs`, of `CheckSchedule`: `ScheduleTypeCorrect`, `NothingLeft`, `DriftHasReason`. The inductive
  invariant says what a request holds (`Held`), that without overlap there is one
  (`Alone`), what a deletion has done so far (`Deletions`), and how far a request
  that has no excuse is with bringing check and schedule together (`Progress`).
* `CheckProofs`, of `CheckInvestigation`: `TypeCorrect`, `RowsAccounted`, `CooldownKept`,
  `RecoveryReported`, `InvestigationsRunDown`. The types are an argument by counting: faults pay for attempts given up
  (`FaultsCounted`), an activity is tried once more only for one of them (`Tried`), and every
  row or session but the first is of one (`Made`), so that numbers of rows stay in their
  range. `RowsAccountedFor` needs that only rows that were made are written (`Filed`), and,
  of an investigation nothing disturbed, where its row and session are at each stage of the
  workflow (`Tidy`). `CooldownHeld` is inductive once the attempts about to log are counted
  with the logs (`Single`).
  `RecoveryNotified` carries the recovery from the attempt that reads the previous health
  through the cooldown to the log (`Dispatched`), and needs that what had reported when an
  investigation started is still what was reported (`After`). `InvestigationsRunDown` says that an investigation started and
  not finished always has a step of its own to take (`Begins` and `Handling` say what it has
  in hand), and that no step takes one back: each that goes on with it lowers `Left`, in
  which a workflow goes through its stages and pays for each attempt. The two halves of `CheckProofs`
  share nothing but their file.
* `ReceiverPipelineProofs`: `TypeCorrect`, `InvestigatedOnce`, `NoneForgotten`, `LiveSuppressor`,
  `LimitHeld`, `OutcomesRecorded`. Type correctness is already an
  argument: the bound on `tries` holds because the gate is tried `MaxAttempts` times and every
  attempt after it but one follows a fault, of which there are `MaxFaults` (`Attempted`,
  `Counted`). `NoSecondInvestigation` needs that an event under investigation keeps an active
  disposition until it resolves, unless an attempt in `lost` wrote it (`Investigated`), and
  that an event that passed deduplication saw none (`Passed`); no duplicate can hide
  because the transactions of one receiver follow one another (`Arrivals`).
  `SuppressedIsCovered` follows from the same being true of every event with an active
  disposition, which is what a later event is suppressed for (`Covering`); the proof showed
  that an attached event may resolve after another was suppressed for it, which takes more
  events than the run has. `SuppressedByLive` needs that a resolution settles every firing
  event before it (`Settled`) and that no admission of a settled event goes on that was not
  under way (`Quiet`). `LimitHeldUnlessRaced` counts, with the executions that run, the
  admissions between their check and their start, of those that met no other (`Held`).
  `OutcomeRecorded` follows an execution from the attempt that makes it to the investigation
  that takes it (`Executions`) and an event through the end of its admission (`Told`).
  `AdmissionsReady` and `AdmissionsRunDown` are what `AdmissionsEnd` rests on besides fairness:
  an admission under way always has an attempt at work that its workflow listens to, may begin
  one or give up, or has its investigation queued or running (`Ready`, from `Alive`); and no
  step, be it of an attempt given up, takes an admission further from its end, while each that
  goes on with one brings it nearer in a lexicographic order of natural numbers (`Left`).
* `ThreadTranscriptProofs`: `TypeCorrect`, `Overshoot`, `ProgressTold`, `ContextPaired`,
  `ToolsTruthful`, `TurnsRunDown`. `OvershootBounded` is not inductive, as a call given
  up may charge later and a late save forgets what was charged. The inductive invariant
  counts the charge of every call given up at once, leaves out the activities given up that
  are yet to save the row (`Excused`), and needs besides the bound on all that was charged
  (`Reserved`) one on what was charged before the last save (`Spent`), or the next
  pre-check would say nothing.
  `ProgressEnds` speaks of a thread at rest; `Told` says at every step why the last message of
  the user has no answer yet. `ContextSound` comes from `Paired`: as long as nothing disturbed
  the rows, every tool call is followed by its result, or is the newest message while its pair
  is being saved (`Followed`), and an attempt that is between the two rows of a pair, given up
  or not, has the result recorded or the call newest (`Attempted`); what `RunTools` adds keeps
  a context matched (`PairsMatched`). The proof found what two messages cannot show, that
  the answer of a given-up attempt may come between the rows of the next turn's pair: `Split`
  excuses it.
  `ToolsShownTruthfully` is about `Page`, a recursive function over the rows. `Story` says of
  the log which calls have started and which have their result, and in which order; `Honest`
  says of a page so far that what it shows is what the rows so far tell. A step of `Show` keeps
  `Honest` (`HonestAdded`), and `PageHonest` takes it along the rows by the least row at which
  it fails (`Least`, `Climb`), as the induction theorems of the library cannot be used.
  `TypeCorrect` covers every variable, the rows yet to be written and the context of the model
  among them: no row names a call that was not asked for. It counts the rows of the user
  (`Counted`), for the bound on what is pending.
  `TurnsRunDown` says that every step of a turn, the writing of its rows included, lowers a
  lexicographic measure, which only a signal and a given-up activity may raise: a turn has no
  loop but the one over its iterations.

Only model-checked: everything under fairness (`CallsSettle`, `CompletionStops`,
`MessagesTaken`, `CommandsSettle`, `OnlineAgain`, `OfflineAgain`, `StartedEnds`,
`AdmissionsEnd`, `InvestigationsEnd`, `EmbeddedAgain`), which is out of the proof system's
reach, as `ENABLED` is. What these rest on besides fairness is proved. Of `AdmissionsEnd`,
`StartedEnds`, `InvestigationsEnd` and `CallsSettle`: that what is under way can go on, and
that it runs down (`AdmissionsReady`, the `...RunDown` theorems). Of `CompletionStops` and
`MessagesTaken`: that turns run down. Of `OnlineAgain`, `OfflineAgain` and `EmbeddedAgain`:
`StatusSettles` and `ChangesFound`. What stays with TLC is the step from these facts and
weak fairness to the end itself.

## What is not modelled, and the plan

`PROJECT.json` lists every component and every hazard with the property that covers it.
One hazard has no property: the rate limiter, a key of a cache whose expiry no code controls.
The late save of a session by `initialize_session` is modelled for its tokens
(`ThreadTranscript`), not for the counters of its executions (`ToolExecution` starts after it).

What could still be modelled, in order:

1. The late save of the session row composed with the budget of `ToolExecution`.
2. The rate limiter, and the subscriptions of a browser.

Not modelled, with the reason:

* The MCP server: its tools call the ORM from an event loop, which Django refuses outside
  its tests, so there is no behaviour of its own to check; the services behind it are modelled.
* WebSocket broadcasts: read by browsers only, and repaired by the next page load.
* The push of configuration to agents: `get_servicer()` is `None` in the web process, and in
  the server the signal's thread has no event loop, so that nothing is ever pushed;
  a configuration takes effect at the next registration.
* `ThreadWorkflow` and `CapabilityExecutionWorkflow`: a read, and a wrapper around
  `execute_capability`, which is in `MarvinConnection`.
* `find_capabilities`, rank fusion and the evaluation of discovery: computations without
  shared state on vectors and texts.

Left out for good: external I/O (LLM providers, notification providers, Prometheus),
formatting and parsing, templates, other CRUD, access control of single requests.
