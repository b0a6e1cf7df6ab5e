--------------------------- MODULE ThreadTranscript ---------------------------
(***************************************************************************)
(* One thread of a session as its readers see it: the messages and agent   *)
(* events that a turn of TroubleshootWorkflow.run records one activity at  *)
(* a time, the messages its user saves meanwhile, the context the model is *)
(* sent (build_llm_context) and the chat page (sessions/views.py), which   *)
(* pairs results with tool calls and decides whether work is under way.    *)
(* An activity given up at its timeout runs on and may still write; its    *)
(* retry writes again.                                                     *)
(*                                                                         *)
(* log is both tables in the order of created_at, messages the first of    *)
(* them by itself.  Signals are reliable here, and what the tools do is    *)
(* left out: see SessionWorkflow and ToolExecution.  Labels and reasoning  *)
(* are left out of thinking events.                                        *)
(***************************************************************************)
EXTENDS Naturals, Sequences, FiniteSets, FiniteSetsExt

CONSTANTS
  MaxMessages,    \* bound on the messages of the user
  MaxCalls,       \* bound on the tool calls in one reply of the model
  MaxAsked,       \* bound on the tool calls in all
  MaxIterations,  \* LLM_MAX_AGENT_ITERATIONS
  TokenLimit,     \* max_tokens_per_session, 0 for none
  MaxTokens,      \* bound on the tokens one call of the model is charged
  MaxFaults       \* bound on the activities given up

ASSUME BoundsAssumption ==
  /\ MaxMessages \in Nat /\ MaxCalls \in Nat /\ MaxAsked \in Nat /\ MaxIterations \in Nat
  /\ TokenLimit \in Nat /\ MaxTokens \in Nat \ {0} /\ MaxFaults \in Nat

VARIABLES
  log,        \* the rows of Message and AgentEvent
  messages,   \* those of Message
  unsignalled, \* messages saved and not signalled yet
  pending,    \* _pending_messages
  pc,         \* what the workflow does next, once todo is done
  todo,       \* the activities it runs before that: the rows each is to write
  written,    \* how many of them the current attempt of the first has written
  late,       \* what a given-up attempt has yet to write
  iteration,
  context,    \* context["messages"], without the system's
  calls,      \* the tool calls of the last reply
  reply,      \* assistant_response: "text", or "empty"
  asked,      \* how many tool calls the model has made
  tokens,     \* total_tokens of the session
  owed,       \* given-up attempts of call_llm that have not charged it yet
  stale,      \* given-up attempts of initialize_session that have yet to save
  landed,     \* those that have saved
  wiped,      \* the tokens charged and lost to such a save
  faults      \* activities given up so far

turnVars == <<pc, iteration, context, calls, reply, asked>>
recordVars == <<todo, written, late>>
userVars == <<unsignalled, pending>>
tables == <<log, messages>>
sessionVars == <<tokens, owed, stale, landed, wiped>>
vars == <<tables, userVars, turnVars, recordVars, sessionVars, faults>>

-----------------------------------------------------------------------------
(* Rows and activities *)

Row(kind, call) == [kind |-> kind, call |-> call]
\* Messages: the user's, the assistant's, and the two of a tool call.
Messages == {"user", "answer", "call", "tool"}
\* Events: THINKING, TOOL_CALL_STARTED, TOOL_RESULT.
Events == {"thinking", "started", "result"}

Create(row) ==
  /\ log' = Append(log, row)
  /\ messages' = IF row.kind \in Messages THEN Append(messages, row) ELSE messages

Think == <<Row("thinking", 0)>>
Pair(c) == <<Row("call", c), Row("tool", c)>>
\* The activities before the tools of a reply run, and after: the model asks
\* for the calls in the order of cs.
Announced(cs) ==
  [i \in 1..(2 * Len(cs)) |-> IF i % 2 = 1 THEN Think ELSE <<Row("started", cs[i \div 2])>>]
Reported(cs) ==
  [i \in 1..(2 * Len(cs)) |->
    IF i % 2 = 1 THEN <<Row("result", cs[(i + 1) \div 2])>> ELSE Pair(cs[i \div 2])]
\* What the tools of a reply add to the context.
Pairs(cs) ==
  [i \in 1..(2 * Len(cs)) |->
    IF i % 2 = 1 THEN Row("call", cs[(i + 1) \div 2]) ELSE Row("tool", cs[i \div 2])]

\* initialize_session has succeeded; some of its attempts were given up after
\* they read the row of the session.
Init ==
  /\ log = <<>> /\ messages = <<>> /\ unsignalled = 0 /\ pending = 0
  /\ pc = "wait" /\ todo = <<>> /\ written = 0 /\ late = <<>>
  /\ iteration = 0 /\ context = <<>> /\ calls = <<>> /\ reply = "empty" /\ asked = 0
  /\ tokens = 0 /\ owed = 0 /\ landed = 0 /\ wiped = 0
  /\ stale \in 0..MaxFaults /\ faults = stale

Fault == faults < MaxFaults /\ faults' = faults + 1

-----------------------------------------------------------------------------
(* The user *)

SaveMessage ==
  /\ Cardinality({i \in DOMAIN messages : messages[i].kind = "user"}) < MaxMessages
  /\ Create(Row("user", 0))
  /\ unsignalled' = unsignalled + 1
  /\ UNCHANGED <<pending, turnVars, recordVars, sessionVars, faults>>

SignalMessage ==
  /\ unsignalled > 0
  /\ unsignalled' = unsignalled - 1
  /\ pending' = pending + 1
  /\ UNCHANGED <<tables, turnVars, recordVars, sessionVars, faults>>

-----------------------------------------------------------------------------
(* Activities that write rows: record_agent_event, create_tool_call_messages *)
(* and create_assistant_message.                                             *)

\* The attempt creates its next row; after the last the activity is done.
Write ==
  /\ todo # <<>>
  /\ Create(Head(todo)[written + 1])
  /\ IF written + 1 = Len(Head(todo))
       THEN todo' = Tail(todo) /\ written' = 0
       ELSE written' = written + 1 /\ UNCHANGED todo
  /\ UNCHANGED <<userVars, turnVars, late, sessionVars, faults>>

\* Its time is over: a new attempt starts from its first row, and what the old
\* one has not written it may still write.
GiveUp ==
  /\ todo # <<>> /\ late = <<>>
  /\ Fault
  /\ late' = SubSeq(Head(todo), written + 1, Len(Head(todo)))
  /\ written' = 0
  /\ UNCHANGED <<tables, userVars, turnVars, todo, sessionVars>>

LateWrite ==
  /\ late # <<>>
  /\ Create(Head(late))
  /\ late' = Tail(late)
  /\ UNCHANGED <<userVars, turnVars, todo, written, sessionVars, faults>>

-----------------------------------------------------------------------------
(* A turn *)

At(stage) == pc = stage /\ todo = <<>>
Goto(stage, activities) == pc' = stage /\ todo' = activities
TurnStep == UNCHANGED <<tables, unsignalled, written, late, faults>>

Take ==
  /\ At("wait") /\ pending > 0
  /\ pending' = pending - 1
  /\ Goto("build", <<>>)
  /\ TurnStep
  /\ UNCHANGED <<iteration, context, calls, reply, asked, sessionVars>>

\* Mutant: rows without content are skipped before their tool calls are looked at.
BuildContext_NoCalls ==
  /\ At("build")
  /\ context' = SelectSeq(messages, LAMBDA x : x.kind # "call")
  /\ iteration' = 0
  /\ Goto("check", <<>>)
  /\ TurnStep
  /\ UNCHANGED <<pending, calls, reply, asked, sessionVars>>

\* build_llm_context reads the thread as it is now.
BuildContext ==
  /\ At("build")
  /\ context' = messages
  /\ iteration' = 0
  /\ Goto("check", <<>>)
  /\ TurnStep
  /\ UNCHANGED <<pending, calls, reply, asked, sessionVars>>

\* Mutant: a turn that runs out of iterations ends without its message.
Iterate_NoLimitMessage ==
  /\ At("check")
  /\ \/ pending > 0 /\ iteration < MaxIterations /\ Goto("wait", <<>>) /\ UNCHANGED reply
     \/ pending = 0 /\ iteration < MaxIterations /\ Goto("ask", <<Think>>) /\ UNCHANGED reply
     \/ iteration = MaxIterations /\ Goto("wait", <<>>) /\ reply' = "text"
  /\ TurnStep
  /\ UNCHANGED <<pending, iteration, context, calls, asked, sessionVars>>

\* An interrupted turn ends without a message, one out of iterations with one.
Iterate ==
  /\ At("check")
  /\ \/ pending > 0 /\ iteration < MaxIterations /\ Goto("wait", <<>>) /\ UNCHANGED reply
     \/ pending = 0 /\ iteration < MaxIterations /\ Goto("ask", <<Think>>) /\ UNCHANGED reply
     \/ iteration = MaxIterations /\ Goto("answer", <<>>) /\ reply' = "text"
  /\ TurnStep
  /\ UNCHANGED <<pending, iteration, context, calls, asked, sessionVars>>

\* Mutant: the limit itself may still be exceeded.
OverBudget_OffByOne == TokenLimit > 0 /\ tokens > TokenLimit

\* The budget pre-check of call_llm; the limits on cost and on context tokens
\* are like this one.
OverBudget == TokenLimit > 0 /\ tokens >= TokenLimit

\* call_llm refuses, or fails, and charges nothing; the workflow says so in a message.
CannotAsk ==
  /\ At("ask")
  /\ Goto("answer", <<>>) /\ reply' = "text"
  /\ TurnStep
  /\ UNCHANGED <<pending, iteration, context, calls, asked, sessionVars>>

\* The model replies: with tool calls, whose ids are its own and fresh, or without.
Ask ==
  /\ At("ask") /\ ~OverBudget
  /\ \E n \in 1..MaxTokens : tokens' = tokens + n
  /\ \/ \E r \in {"text", "empty"} : reply' = r /\ Goto("answer", <<>>)
        /\ UNCHANGED <<calls, asked>>
     \/ \E n \in 1..MaxCalls :
          /\ asked + n <= MaxAsked
          /\ asked' = asked + n
          /\ calls' = [k \in 1..n |-> asked + k]
          /\ Goto("tools", Announced(calls'))
          /\ UNCHANGED reply
  /\ TurnStep
  /\ UNCHANGED <<pending, iteration, context, owed, stale, landed, wiped>>

\* call_llm is given up after its pre-check: the model may answer all the same,
\* and the attempt charge the session.
GiveUpAsk ==
  /\ At("ask") /\ ~OverBudget
  /\ Fault
  /\ owed' = owed + 1
  /\ UNCHANGED <<tables, userVars, turnVars, recordVars, tokens, stale, landed, wiped>>

LateCharge ==
  /\ owed > 0
  /\ owed' = owed - 1
  /\ \E n \in 1..MaxTokens : tokens' = tokens + n
  /\ UNCHANGED <<tables, userVars, turnVars, recordVars, stale, landed, wiped, faults>>

\* The late attempt saves every column of the row as it read it, when nothing
\* had been charged.
LateInitialize ==
  /\ stale > 0
  /\ stale' = stale - 1 /\ landed' = landed + 1
  /\ wiped' = wiped + tokens /\ tokens' = 0
  /\ UNCHANGED <<tables, userVars, turnVars, recordVars, owed, faults>>

\* Mutant: a call that failed is put in the context and its result is not recorded.
RunTools_FailureUnrecorded ==
  /\ At("tools")
  /\ context' = context \o Pairs(calls)
  /\ iteration' = iteration + 1
  /\ Goto("check", Append(Reported(Tail(calls)), Think))
  /\ TurnStep
  /\ UNCHANGED <<pending, calls, reply, asked, sessionVars>>

\* The tools have run, in batches; their results are recorded in the order of the calls.
RunTools ==
  /\ At("tools")
  /\ context' = context \o Pairs(calls)
  /\ iteration' = iteration + 1
  /\ Goto("check", Append(Reported(calls), Think))
  /\ TurnStep
  /\ UNCHANGED <<pending, calls, reply, asked, sessionVars>>

\* create_assistant_message skips a message without content.
Answer ==
  /\ At("answer")
  /\ Goto("wait", IF reply = "text" THEN <<<<Row("answer", 0)>>>> ELSE <<>>)
  /\ TurnStep
  /\ UNCHANGED <<pending, iteration, context, calls, reply, asked, sessionVars>>

-----------------------------------------------------------------------------

Turn == Take \/ BuildContext \/ Iterate \/ CannotAsk \/ Ask \/ RunTools \/ Answer

Next == \/ SaveMessage \/ SignalMessage
        \/ Write \/ GiveUp \/ LateWrite
        \/ Turn \/ GiveUpAsk \/ LateCharge \/ LateInitialize

Spec == Init /\ [][Next]_vars

-----------------------------------------------------------------------------
(* The chat page *)

Users == {i \in DOMAIN log : log[i].kind = "user"}
\* Message i claims the rows from it to the next message of the user.
End(i) == LET next == {j \in Users : j > i} IN IF next = {} THEN Len(log) ELSE Min(next)

\* A tool call on the page shows the call whose result it was given, 0 while it
\* is shown as started; open holds those not yet paired by their ids.
ToolShown(call, result) == [call |-> call, result |-> result]

\* A result goes to the first open call of its id, else to the first one shown
\* as started, else to a tool call of its own.  Other rows show no tool call.
Show(page, event) ==
  LET tools == page.tools
      mine == {k \in page.open : tools[k].call = event.call}
      started == {k \in DOMAIN tools : tools[k].result = 0}
  IN CASE event.kind = "started" ->
            [tools |-> Append(tools, ToolShown(event.call, 0)),
             open |-> page.open \cup {Len(tools) + 1}]
       [] event.kind = "result" /\ mine # {} ->
            [tools |-> [tools EXCEPT ![Min(mine)].result = event.call],
             open |-> page.open \ {Min(mine)}]
       [] event.kind = "result" /\ mine = {} /\ started # {} ->
            [page EXCEPT !.tools[Min(started)].result = event.call]
       [] event.kind = "result" /\ mine = {} /\ started = {} ->
            [page EXCEPT !.tools = Append(@, ToolShown(event.call, event.call))]
       [] OTHER -> page

NoTools == [tools |-> <<>>, open |-> {}]

\* Page(rows, i)[j]: the tool calls of the rows after i, as far as row j.
Page(rows, i) ==
  LET page[j \in i..Len(rows)] == IF j = i THEN NoTools ELSE Show(page[j - 1], rows[j])
  IN page

Tools(i) == Page(log, i)[End(i)].tools

\* The progress box of the last message says that the assistant is working: it
\* is shown once there is an event, and ends with an answer after the message.
Working ==
  \E i \in Users :
    /\ \A j \in Users : j <= i
    /\ \E j \in DOMAIN log : j > i /\ log[j].kind \in Events
    /\ \A j \in DOMAIN log : j > i => log[j].kind # "answer"

-----------------------------------------------------------------------------
(* Properties *)

AtRest == /\ pc = "wait" /\ todo = <<>> /\ late = <<>>
          /\ pending = 0 /\ unsignalled = 0

RowsOf(kinds) == [kind : kinds, call : 0..MaxAsked]

\* What is on the page, on its way to it or sent to the model names no call that was
\* not asked for, and no event is sent to the model.
TypeOK ==
  /\ log \in Seq(RowsOf(Messages \cup Events))
  /\ messages \in Seq(RowsOf(Messages)) /\ context \in Seq(RowsOf(Messages))
  /\ todo \in Seq(Seq(RowsOf(Messages \cup Events))) /\ late \in Seq(RowsOf(Messages \cup Events))
  /\ written \in 0..1 /\ (written = 1 => todo # <<>> /\ Len(Head(todo)) = 2)
  /\ calls \in Seq(0..MaxAsked)
  /\ unsignalled \in 0..MaxMessages /\ pending \in 0..MaxMessages
  /\ pc \in {"wait", "build", "check", "ask", "tools", "answer"}
  /\ iteration \in 0..MaxIterations /\ asked \in 0..MaxAsked
  /\ reply \in {"text", "empty"}
  /\ tokens \in Nat /\ wiped \in Nat
  /\ owed \in 0..MaxFaults /\ stale \in 0..MaxFaults /\ landed \in 0..MaxFaults
  /\ faults \in 0..MaxFaults

Repeated ==
  \E i, j \in DOMAIN messages :
    i # j /\ messages[i].kind \in {"call", "tool"} /\ messages[i] = messages[j]

\* A message of the user, or a late attempt's answer of the turn before, was saved
\* between the two rows of a pair.
Split ==
  \E i, k \in DOMAIN messages :
    /\ k < i /\ messages[k].kind = "call" /\ messages[i].kind \in {"user", "answer"}
    /\ \A j \in 1..i : messages[j] # Row("tool", messages[k].call)

\* Every tool call is followed by its own result, every result preceded by its call.
Matched(rows) ==
  \A i \in DOMAIN rows :
    /\ rows[i].kind = "call" => i < Len(rows) /\ rows[i + 1] = Row("tool", rows[i].call)
    /\ rows[i].kind = "tool" => i > 1 /\ rows[i - 1] = Row("call", rows[i].call)

\* build_llm_context and run: in what the model is sent tool calls and results match,
\* unless an attempt to save such a pair was given up, or a message of the user or a
\* late answer came between its rows.
ContextSound ==
  pc \in {"check", "ask", "tools"} => Matched(context) \/ Split \/ Repeated

Positions(row) == {i \in DOMAIN log : log[i] = row}

\* The events of call c were recorded once, and no message of the user came
\* between them.
Undisturbed(c) ==
  /\ \A kind \in {"started", "result"} : Cardinality(Positions(Row(kind, c))) <= 1
  /\ \A i \in Positions(Row("started", c)), u \in Users :
       u > i => \E r \in Positions(Row("result", c)) : r < u

\* _events_to_progress: a tool call on the page has its own result or none, and
\* once the workflow waits it has one, unless an event of a call shown with it
\* was recorded twice or the user wrote while the call was under way.
ToolsShownTruthfully ==
  \A i \in Users :
    LET tools == Tools(i) IN
    \/ \A k \in DOMAIN tools : /\ tools[k].result \in {0, tools[k].call}
                               /\ AtRest => tools[k].result # 0
    \/ \E k \in DOMAIN tools : ~Undisturbed(tools[k].call) \/ ~Undisturbed(tools[k].result)

\* _build_assistant_progress: a page does not say that the assistant is working
\* when the workflow waits for the user, unless the model's last answer was empty.
ProgressEnds == AtRest /\ Working => reply = "empty"

\* SessionBudget: what a session is charged exceeds its limit by less than the
\* charge of one call, and of every activity given up.  A save of the row as it
\* was when the session began grants it the whole limit anew.
OvershootBounded ==
  TokenLimit > 0 =>
    tokens + wiped < TokenLimit * (1 + landed) + MaxTokens * (1 + faults)
=============================================================================
