----------------------------- MODULE TurnQueue -----------------------------
(***************************************************************************)
(* What a session promises to those who talk to it: messages it accepts    *)
(* are taken in the order they arrived, one turn at a time; a turn ends    *)
(* with an answer, and without one only when a later message is waiting.   *)
(***************************************************************************)
EXTENDS Naturals, Sequences

CONSTANT Messages

VARIABLES
  accepted,    \* the messages accepted, in order of arrival
  handled,     \* the messages turns were opened for, in order
  turn,        \* "idle", "open", or "stopped" for good
  unanswered   \* the turns that ended with no answer

queueVars == <<accepted, handled, turn, unanswered>>

\* A session may be stopped from the start.
QueueInit ==
  /\ accepted = <<>> /\ handled = <<>> /\ unanswered = {}
  /\ turn \in {"idle", "stopped"}

Accept(m) ==
  /\ turn # "stopped"
  /\ accepted' = Append(accepted, m)
  /\ UNCHANGED <<handled, turn, unanswered>>

Open ==
  /\ turn = "idle"
  /\ Len(handled) < Len(accepted)
  /\ handled' = Append(handled, accepted[Len(handled) + 1])
  /\ turn' = "open"
  /\ UNCHANGED <<accepted, unanswered>>

Answer ==
  /\ turn = "open"
  /\ turn' = "idle"
  /\ UNCHANGED <<accepted, handled, unanswered>>

Supersede ==
  /\ turn = "open"
  /\ Len(handled) < Len(accepted)
  /\ unanswered' = unanswered \cup {Len(handled)}
  /\ turn' = "idle"
  /\ UNCHANGED <<accepted, handled>>

Stop ==
  /\ turn = "idle"
  /\ turn' = "stopped"
  /\ UNCHANGED <<accepted, handled, unanswered>>

\* The session breaks down in the middle of a turn.
Break ==
  /\ turn = "open"
  /\ turn' = "stopped"
  /\ unanswered' = unanswered \cup {Len(handled)}
  /\ UNCHANGED <<accepted, handled>>

QueueNext == (\E m \in Messages : Accept(m)) \/ Open \/ Answer \/ Supersede \/ Stop \/ Break

QueueSpec == QueueInit /\ [][QueueNext]_queueVars

=============================================================================
