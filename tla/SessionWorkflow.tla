-------------------------- MODULE SessionWorkflow --------------------------
(***************************************************************************)
(* A troubleshooting session: the TroubleshootWorkflow, the two views that *)
(* signal it, and TSession.status, the row the user interface shows.       *)
(*                                                                         *)
(* The workflow's own state survives crashes (Temporal replays it), and    *)
(* between two awaits nothing interleaves with it; signals and the rows    *)
(* written by others come in at every await.  One action is the code from  *)
(* one await to the next, the activity it awaited included.  An activity   *)
(* that times out is started again while the write of the first attempt,   *)
(* in a thread nobody cancels, may still come.                             *)
(***************************************************************************)
EXTENDS Integers, Sequences, FiniteSets

CONSTANTS
  Messages,        \* the user messages that may be sent
  ThreadOf,        \* the thread each message is sent in
  MaxIterations,   \* LLM_MAX_AGENT_ITERATIONS
  MaxFaults        \* bound on lost and repeated signals, failures and late writes

ASSUME IterationAssumption == MaxIterations \in Nat \ {0} /\ MaxFaults \in Nat

VARIABLES
  message,     \* per message: "unsent", "saved" as a row, "signalled" (or given up)
  closing,     \* SessionCompleteView: "open", "closing" before its signal, "closed"
  row,         \* TSession.status
  inbox,       \* _pending_messages
  completion,  \* _completion_requested
  status,      \* state["status"] of the workflow
  at,          \* the await the workflow stands at
  context,     \* the messages in the LLM context of the current turn
  iteration,   \* iterations of the tool loop so far in this turn
  late,        \* status writes of activity attempts that timed out, still to come
  faults,      \* faults so far
  delivered,   \* history: the messages signalled to the workflow, in order
  taken,       \* the messages popped from the inbox, in order; the last is the turn's
  answered,    \* history: the messages that were in the context of an answer
  unanswered   \* history: the turns, by number, that ended with no answer

viewVars == <<message, closing>>
history == <<delivered, taken, answered, unanswered>>
turnVars == <<context, iteration>>
vars == <<message, closing, row, inbox, completion, status, at, context,
          iteration, late, faults, delivered, taken, answered, unanswered>>

-----------------------------------------------------------------------------

Paused == "paused_waiting_for_continue"

\* The awaits of TroubleshootWorkflow.run: wait_condition is "wait", and the last
\* three are create_assistant_message: for a final answer, for a failed LLM call,
\* and for a turn that pauses.
Awaits ==
  {"initialize", "wait", "activate", "context", "iterate", "llm", "tools", "pausing",
   "check", "ending", "answer", "error", "notice"}

Answering == {"answer", "error", "notice"}
Stopped == {"unstarted", "ended", "failed"}
Running == at \notin Stopped

Fault == faults < MaxFaults /\ faults' = faults + 1

\* The message of the current turn.
current == taken[Len(taken)]

\* From the end of a turn to the next await: a pause waits, a completion that was
\* signalled ends the workflow ("ending"), else check_completion is asked.
EndTurn(s) == at' = IF s = Paused THEN "wait" ELSE IF completion THEN "ending" ELSE "check"

Init ==
  /\ message = [m \in Messages |-> "unsent"]
  /\ closing = "open"
  /\ row = "active"
  /\ inbox = <<>>
  /\ completion = FALSE
  /\ status = "initializing"
  /\ at \in {"initialize", "unstarted"}  \* SessionCreateView may fail to start it
  /\ context = {}
  /\ iteration = 0
  /\ late = {}
  /\ faults = 0
  /\ delivered = <<>> /\ taken = <<>> /\ answered = {} /\ unanswered = {}

-----------------------------------------------------------------------------
(* The views, and the signal handlers of the workflow. *)

\* ThreadSendMessageView saves the message, whatever the session's status ...
SaveMessage(m) ==
  /\ message[m] = "unsent"
  /\ message' = [message EXCEPT ![m] = "saved"]
  /\ UNCHANGED <<closing, row, inbox, completion, status, at, turnVars, late, faults, history>>

\* user_message: a paused workflow is processing again at once.  (The status is
\* "pending" only before run starts, and run overwrites it.)
UserMessage(m) ==
  /\ inbox' = Append(inbox, m)
  /\ delivered' = Append(delivered, m)
  /\ status' = IF status = Paused THEN "processing" ELSE status

\* ... and signals it.  send_message_to_workflow tries three times and then gives
\* up, at once when there is no workflow; an attempt that raised may have arrived.
SignalMessage(m) ==
  /\ message[m] = "saved"
  /\ \/ /\ Running /\ UserMessage(m)
        /\ message' = [message EXCEPT ![m] = "signalled"]
        /\ UNCHANGED faults
     \/ /\ Running /\ Fault /\ UserMessage(m)
        /\ UNCHANGED message
     \/ /\ Running => Fault
        /\ ~ Running => UNCHANGED faults
        /\ message' = [message EXCEPT ![m] = "signalled"]
        /\ UNCHANGED <<inbox, delivered, status>>
  /\ UNCHANGED <<closing, row, completion, at, turnVars, late, taken, answered, unanswered>>

\* SessionCompleteView, up to its signal; the rest only swallows its failure.
CloseSession ==
  /\ closing = "open"
  /\ closing' = "closing"
  /\ row' = "completed"
  /\ UNCHANGED <<message, inbox, completion, status, at, turnVars, late, faults, history>>

SignalComplete ==
  /\ closing = "closing"
  /\ closing' = "closed"
  /\ \/ Running /\ completion' = TRUE /\ UNCHANGED faults
     \/ Running /\ Fault /\ UNCHANGED completion
     \/ ~ Running /\ UNCHANGED <<completion, faults>>
  /\ UNCHANGED <<message, row, inbox, status, at, turnVars, late, history>>

-----------------------------------------------------------------------------
(* TroubleshootWorkflow.run *)

\* initialize_session
Initialize ==
  /\ at = "initialize"
  /\ row' = "active"
  /\ status' = "waiting_for_user"
  /\ at' = "wait"
  /\ UNCHANGED <<viewVars, inbox, completion, turnVars, late, faults, history>>

\* Mutants of Take: the newest message first; not while paused.
Take_Newest ==
  /\ at = "wait" /\ inbox # <<>>
  /\ taken' = Append(taken, inbox[Len(inbox)])
  /\ inbox' = SubSeq(inbox, 1, Len(inbox) - 1)
  /\ at' = "activate"
  /\ UNCHANGED <<viewVars, row, completion, status, context, iteration, late, faults,
                 delivered, answered, unanswered>>

Take_WhenAsked ==
  /\ at = "wait" /\ inbox # <<>> /\ status = "waiting_for_user"
  /\ inbox' = Tail(inbox)
  /\ taken' = Append(taken, Head(inbox))
  /\ at' = "activate"
  /\ UNCHANGED <<viewVars, row, completion, status, context, iteration, late, faults,
                 delivered, answered, unanswered>>

\* wait_condition holds: a message goes before a completion.
Take ==
  /\ at = "wait" /\ inbox # <<>>
  /\ inbox' = Tail(inbox)
  /\ taken' = Append(taken, Head(inbox))
  /\ at' = "activate"
  /\ UNCHANGED <<viewVars, row, completion, status, context, iteration, late, faults,
                 delivered, answered, unanswered>>

\* Mutant: the completion signal does not end the wait.
Finish_OnlyChecked ==
  /\ at = "ending"
  /\ status' = "completed"
  /\ at' = "ended"
  /\ UNCHANGED <<viewVars, row, inbox, completion, turnVars, late, faults, history>>

Finish ==
  /\ at = "ending" \/ (at = "wait" /\ inbox = <<>> /\ completion)
  /\ status' = "completed"
  /\ at' = "ended"
  /\ UNCHANGED <<viewVars, row, inbox, completion, turnVars, late, faults, history>>

\* Mutant: the row is not set back to active.
Activate_RowKept ==
  /\ at = "activate"
  /\ status' = "processing"
  /\ at' = "context"
  /\ UNCHANGED <<viewVars, row, inbox, completion, turnVars, late, faults, history>>

\* set_session_status("active")
Activate ==
  /\ at = "activate"
  /\ row' = "active"
  /\ status' = "processing"
  /\ at' = "context"
  /\ UNCHANGED <<viewVars, inbox, completion, turnVars, late, faults, history>>

\* Mutant: the context holds the message of the turn only.
BuildContext_NoRows ==
  /\ at = "context"
  /\ context' = {current}
  /\ iteration' = 0
  /\ at' = "iterate"
  /\ UNCHANGED <<viewVars, row, inbox, completion, status, late, faults, history>>

\* build_llm_context reads every message row of the thread.
BuildContext ==
  /\ at = "context"
  /\ context' = {m \in Messages : message[m] # "unsent" /\ ThreadOf[m] = ThreadOf[current]}
  /\ iteration' = 0
  /\ at' = "iterate"
  /\ UNCHANGED <<viewVars, row, inbox, completion, status, late, faults, history>>

\* The head of the tool loop: out of iterations, interrupted by a message (the
\* turn and its context are dropped), or on to the LLM.
Iterate ==
  /\ at = "iterate"
  /\ \/ iteration = MaxIterations /\ at' = "notice" /\ UNCHANGED unanswered
     \/ /\ iteration < MaxIterations /\ inbox # <<>>
        /\ EndTurn(status)
        /\ unanswered' = unanswered \cup {Len(taken)}
     \/ iteration < MaxIterations /\ inbox = <<>> /\ at' = "llm" /\ UNCHANGED unanswered
  /\ UNCHANGED <<viewVars, row, inbox, completion, status, turnVars, late, faults,
                 delivered, taken, answered>>

\* call_llm: a final answer, tool calls, a budget or a timeout, any other error.
CallLlm ==
  /\ at = "llm"
  /\ at' \in {"answer", "tools", "notice", "error"}
  /\ UNCHANGED <<viewVars, row, inbox, completion, status, turnVars, late, faults, history>>

\* The batches of execute_llm_tool (see ToolExecution) and their messages.
RunTools ==
  /\ at = "tools"
  /\ iteration' = iteration + 1
  /\ at' = "iterate"
  /\ UNCHANGED <<viewVars, row, inbox, completion, status, context, late, faults,
                 history>>

\* create_assistant_message.  (A blank answer ends the turn too, with no row.)
AnswerUser ==
  /\ at \in Answering
  /\ answered' = answered \cup context
  /\ IF at = "notice"
     THEN status' = Paused /\ at' = "pausing"
     ELSE EndTurn(status) /\ UNCHANGED status
  /\ UNCHANGED <<viewVars, row, inbox, completion, turnVars, late, faults, delivered, taken,
                 unanswered>>

\* set_session_status("paused").  A message that came meanwhile has set the status
\* to processing, and the turn ends like any other.
PauseRow ==
  /\ at = "pausing"
  /\ row' = "paused"
  /\ EndTurn(status)
  /\ UNCHANGED <<viewVars, inbox, completion, status, turnVars, late, faults, history>>

\* check_completion; a completion signalled in the meantime is seen by the next wait.
CheckCompletion ==
  /\ at = "check"
  /\ IF row = "completed"
     THEN status' = "completed" /\ at' = "ended"
     ELSE status' = "waiting_for_user" /\ at' = "wait"
  /\ UNCHANGED <<viewVars, row, inbox, completion, turnVars, late, faults, history>>

-----------------------------------------------------------------------------
(* Faults. *)

\* create_assistant_message fails maximum_attempts times: run raises.
AnswerFails ==
  /\ Fault
  /\ at \in Answering
  /\ at' = "failed"
  /\ unanswered' = unanswered \cup {Len(taken)}
  /\ UNCHANGED <<viewVars, row, inbox, completion, status, turnVars, late, delivered, taken,
                 answered>>

\* An attempt to write the status times out; its thread writes it all the same.
StatusWrite == [a \in {"initialize", "activate", "pausing"} |->
                  IF a = "pausing" THEN "paused" ELSE "active"]

AttemptTimesOut ==
  /\ Fault
  /\ at \in DOMAIN StatusWrite
  /\ late' = late \cup {StatusWrite[at]}
  /\ UNCHANGED <<viewVars, row, inbox, completion, status, at, turnVars, history>>

LateWrite(s) ==
  /\ s \in late
  /\ late' = late \ {s}
  /\ row' = s
  /\ UNCHANGED <<viewVars, inbox, completion, status, at, turnVars, faults, history>>

-----------------------------------------------------------------------------

Run ==
  \/ Initialize \/ Take \/ Finish \/ Activate \/ BuildContext \/ Iterate
  \/ CallLlm \/ RunTools \/ AnswerUser \/ PauseRow \/ CheckCompletion

Next ==
  \/ \E m \in Messages : SaveMessage(m) \/ SignalMessage(m)
  \/ CloseSession \/ SignalComplete
  \/ Run
  \/ AnswerFails \/ AttemptTimesOut
  \/ \E s \in {"active", "paused"} : LateWrite(s)

Spec == Init /\ [][Next]_vars

\* Temporal keeps the workflow going; users and faults need not act.
FairSpec == Spec /\ WF_vars(Run)

-----------------------------------------------------------------------------
(* Properties. *)

TypeOK ==
  /\ message \in [Messages -> {"unsent", "saved", "signalled"}]
  /\ closing \in {"open", "closing", "closed"}
  /\ row \in {"active", "paused", "completed"}
  /\ inbox \in Seq(Messages)
  /\ completion \in BOOLEAN
  /\ status \in {"initializing", "waiting_for_user", "processing", Paused, "completed"}
  /\ at \in Awaits \cup Stopped
  /\ context \subseteq Messages
  /\ iteration \in 0 .. MaxIterations
  /\ late \subseteq {"active", "paused"}
  /\ faults \in 0 .. MaxFaults
  /\ delivered \in Seq(Messages)
  /\ taken \in Seq(Messages)
  /\ answered \subseteq Messages
  /\ unanswered \subseteq 1 .. Len(taken)

\* The workflow is waiting and has nothing to do.
Idle == at = "wait" /\ inbox = <<>>

\* An interrupted turn is dropped with its context, and yet no message is
\* forgotten: when the workflow has nothing left to do, every message of the thread
\* that wrote last was in the context of an answer.  (A message that another
\* thread's message cut off waits for the next one in its own thread.)
NothingForgotten ==
  Idle => \A i \in DOMAIN delivered :
            ThreadOf[delivered[i]] = ThreadOf[delivered[Len(delivered)]]
              => delivered[i] \in answered

\* The Continue banner is shown exactly when the workflow waits for it: the row is
\* paused if and only if the idle workflow is, unless the session was closed or a
\* status write came late.  (A message may arrive at any point of a pause.)
PausedAgrees ==
  (Idle /\ closing = "open" /\ faults = 0) => (row = "paused" <=> status = Paused)

\* The session handles its messages as a queue of turns.
Turn ==
  CASE at \in {"initialize", "wait", "check", "ending"} -> "idle"
    [] at \in Stopped -> "stopped"
    [] OTHER -> "open"

Queue == INSTANCE TurnQueue WITH accepted <- delivered, handled <- taken, turn <- Turn

ImplementsQueue == Queue!QueueSpec

\* A session whose completion was signalled stops, whatever it was doing: paused,
\* in the tool loop or with messages waiting.
CompletionStops == completion ~> at \in Stopped

\* Every message the workflow was sent gets a turn, or the workflow stops.
MessagesTaken ==
  \A n \in 1 .. 2 * Cardinality(Messages) :
    Len(delivered) >= n ~> (Len(taken) >= n \/ at \in Stopped)

\* The thread pane: "Session completed. No further messages can be sent."  So a
\* session that is completed stays completed; but initialize_session and
\* set_session_status save their status over any other.
CompletedIsFinal == [][row = "completed" => row' = "completed"]_row

=============================================================================
