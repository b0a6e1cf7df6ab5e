----------------------- MODULE SessionWorkflowProofs -----------------------
(***************************************************************************)
(* Proofs about SessionWorkflow for any set of messages, any threads and   *)
(* any number of iterations and faults: the type invariant, the            *)
(* implementation of TurnQueue, that no message is forgotten, that the row *)
(* of a waiting session says that it is paused, and that turns end.        *)
(*                                                                         *)
(* The argument: the messages taken and those still in the inbox are, one  *)
(* after the other, the messages delivered (Fifo); then taking the head of *)
(* the inbox is opening the next turn, and an inbox that is not empty is a *)
(* message accepted and not handled.                                       *)
(***************************************************************************)
EXTENDS SessionWorkflow, SequenceTheorems, TLAPS

Fifo == delivered = taken \o inbox

\* A turn is about a message.
TurnTaken == Turn = "open" => taken # <<>>

\* In the body of the tool loop an iteration is left.
InLoop == at \in {"llm", "tools"} => iteration < MaxIterations

IInv == TypeOK /\ Fifo /\ TurnTaken /\ InLoop

USE DEF Fault, viewVars, history, turnVars, EndTurn, Stopped, Awaits, Answering, Paused

-----------------------------------------------------------------------------
(* Sequences. *)

\* A message that arrives goes to the end of what was delivered.
LEMMA AppendConcat ==
  ASSUME NEW S, NEW s \in Seq(S), NEW t \in Seq(S), NEW m \in S
  PROVE  s \o Append(t, m) = Append(s \o t, m)
<1>1. <<m>> \in Seq(S) /\ s \o t \in Seq(S)
  BY ConcatProperties
<1>2. Append(t, m) = t \o <<m>> /\ Append(s \o t, m) = (s \o t) \o <<m>>
  BY <1>1, AppendIsConcat
<1>3. (s \o t) \o <<m>> = s \o (t \o <<m>>)
  BY <1>1, ConcatAssociative
<1>4. QED
  BY <1>2, <1>3, Zenon

\* A sequence is its head before its tail.
LEMMA HeadTailConcat ==
  ASSUME NEW S, NEW t \in Seq(S), t # <<>>
  PROVE  /\ Head(t) \in S /\ Tail(t) \in Seq(S) /\ Head(t) = t[1] /\ Len(t) \in Nat \ {0}
         /\ <<Head(t)>> \o Tail(t) = t
<1>1. Head(t) \in S /\ Tail(t) \in Seq(S) /\ Head(t) = t[1]
  BY HeadTailProperties
<1>2. Len(t) \in Nat \ {0}
  BY EmptySeq
<1>3. 1 \in 1 .. Len(t) /\ Len(t) \in 1 .. Len(t) /\ 1 + 1 = 2
  BY <1>2
<1>4. SubSeq(t, 1, Len(t)) = <<t[1]>> \o SubSeq(t, 1 + 1, Len(t))
  BY <1>3, SubSeqRecursiveFirst, Zenon
<1>5. SubSeq(t, 1, Len(t)) = t /\ Tail(t) = SubSeq(t, 2, Len(t))
  BY SubSeqFull, TailIsSubSeq, Zenon
<1>6. <<t[1]>> \o Tail(t) = t
  BY <1>3, <1>4, <1>5, Zenon
<1>7. QED
  BY <1>1, <1>2, <1>6, Zenon

\* Moving the head of the inbox to what was taken moves nothing of what was
\* delivered, and that head is the first message not taken.
LEMMA TakeConcat ==
  ASSUME NEW S, NEW s \in Seq(S), NEW t \in Seq(S), t # <<>>
  PROVE  /\ Append(s, Head(t)) \o Tail(t) = s \o t
         /\ Len(s) < Len(s \o t)
         /\ Head(t) = (s \o t)[Len(s) + 1]
<1>1. /\ Head(t) \in S /\ Tail(t) \in Seq(S) /\ Head(t) = t[1] /\ Len(t) \in Nat \ {0}
      /\ <<Head(t)>> \o Tail(t) = t
  BY HeadTailConcat
<1>2. Append(s, Head(t)) = s \o <<Head(t)>>
  BY <1>1, AppendIsConcat, Zenon
<1>3. <<Head(t)>> \in Seq(S)
  BY <1>1
<1>4. (s \o <<Head(t)>>) \o Tail(t) = s \o (<<Head(t)>> \o Tail(t))
  BY <1>1, <1>3, ConcatAssociative
<1>5. Append(s, Head(t)) \o Tail(t) = s \o t
  BY <1>1, <1>2, <1>4, Zenon
<1>6. /\ Len(s \o t) = Len(s) + Len(t)
      /\ \A i \in 1 .. Len(s) + Len(t) :
           (s \o t)[i] = IF i <= Len(s) THEN s[i] ELSE t[i - Len(s)]
  BY ConcatProperties, Zenon
<1>7. Len(s) \in Nat
  BY LenProperties
<1>8. Len(s) + 1 \in 1 .. Len(s) + Len(t) /\ ~ (Len(s) + 1 <= Len(s)) /\ Len(s) + 1 - Len(s) = 1
  BY <1>1, <1>7
<1>9. (s \o t)[Len(s) + 1] = t[1]
  <2>1. (s \o t)[Len(s) + 1] =
          IF Len(s) + 1 <= Len(s) THEN s[Len(s) + 1] ELSE t[Len(s) + 1 - Len(s)]
    BY <1>6, <1>8
  <2>2. QED
    BY <1>8, <2>1
<1>10. Len(s) < Len(s \o t)
  BY <1>1, <1>6, <1>7
<1>11. QED
  BY <1>1, <1>5, <1>9, <1>10, Zenon

-----------------------------------------------------------------------------
(* The inductive invariant. *)

USE DEF Turn

LEMMA InvariantInit == Init => IInv
<1>1. SUFFICES ASSUME Init
               PROVE  IInv
  OBVIOUS
<1>2. TypeOK
  <2>1. inbox \in Seq(Messages) /\ delivered \in Seq(Messages) /\ taken \in Seq(Messages)
    BY <1>1, EmptySeq DEF Init
  <2>2. message \in [Messages -> {"unsent", "saved", "signalled"}]
    BY <1>1 DEF Init
  <2>3. iteration \in 0 .. MaxIterations /\ faults \in 0 .. MaxFaults
    BY <1>1, IterationAssumption DEF Init
  <2>4. at \in Awaits \cup Stopped
    BY <1>1 DEF Init
  <2>5. QED
    BY <1>1, <2>1, <2>2, <2>3, <2>4 DEF Init, TypeOK
<1>3. Fifo
  BY <1>1 DEF Init, Fifo
<1>4. TurnTaken /\ InLoop
  BY <1>1 DEF Init, TurnTaken, InLoop
<1>5. QED
  BY <1>2, <1>3, <1>4 DEF IInv

\* A turn that is open is the turn of the last message taken.
LEMMA OpenTurn ==
  ASSUME TypeOK, TurnTaken, Turn = "open"
  PROVE  Len(taken) \in 1 .. Len(taken)
<1>1. Len(taken) \in Nat \ {0}
  BY EmptySeq DEF TypeOK, TurnTaken
<1>2. QED
  BY <1>1

LEMMA InvariantStep == IInv /\ [Next]_vars => IInv'
<1>1. SUFFICES ASSUME IInv, [Next]_vars
               PROVE  IInv'
  OBVIOUS
<1> USE IterationAssumption
<1>2. TypeOK /\ Fifo /\ TurnTaken /\ InLoop
  BY <1>1 DEF IInv
<1>3. ASSUME NEW m \in Messages, SaveMessage(m)
      PROVE  IInv'
  <2>1. TypeOK'
    BY <1>2, <1>3 DEF TypeOK, SaveMessage
  <2>2. Fifo'
    BY <1>2, <1>3 DEF Fifo, SaveMessage
  <2>3. TurnTaken' /\ InLoop'
    BY <1>2, <1>3 DEF TurnTaken, InLoop, TypeOK, SaveMessage
  <2>4. QED
    BY <2>1, <2>2, <2>3 DEF IInv
<1>4. ASSUME NEW m \in Messages, SignalMessage(m)
      PROVE  IInv'
  <2>1. CASE UserMessage(m)
    <3>1. taken \o Append(inbox, m) = Append(taken \o inbox, m)
      BY <1>2, AppendConcat DEF TypeOK
    <3>2. Append(inbox, m) \in Seq(Messages) /\ Append(delivered, m) \in Seq(Messages)
      BY <1>2, AppendProperties DEF TypeOK
    <3>3. TypeOK'
      <4>1. faults' \in 0 .. MaxFaults
        BY <1>2, <1>4 DEF TypeOK, SignalMessage
      <4>2. message' \in [Messages -> {"unsent", "saved", "signalled"}]
        BY <1>2, <1>4 DEF TypeOK, SignalMessage
      <4>3. status' \in {"initializing", "waiting_for_user", "processing", Paused, "completed"}
        BY <1>2, <2>1 DEF TypeOK, UserMessage
      <4>4. inbox' \in Seq(Messages) /\ delivered' \in Seq(Messages)
        BY <2>1, <3>2 DEF UserMessage
      <4>5. UNCHANGED <<closing, row, completion, at, context, iteration, late, taken,
                        answered, unanswered>>
        BY <1>4 DEF SignalMessage
      <4>6. QED
        BY <1>2, <4>1, <4>2, <4>3, <4>4, <4>5 DEF TypeOK
    <3>4. Fifo'
      BY <1>2, <1>4, <2>1, <3>1 DEF Fifo, SignalMessage, UserMessage
    <3>5. TurnTaken' /\ InLoop'
      BY <1>2, <1>4 DEF TurnTaken, InLoop, SignalMessage
    <3>6. QED
      BY <3>3, <3>4, <3>5 DEF IInv
  <2>2. CASE UNCHANGED <<inbox, delivered, status>>
    <3>1. TypeOK'
      BY <1>2, <1>4, <2>2 DEF TypeOK, SignalMessage
    <3>2. Fifo' /\ TurnTaken' /\ InLoop'
      BY <1>2, <1>4, <2>2 DEF Fifo, TurnTaken, InLoop, SignalMessage
    <3>3. QED
      BY <3>1, <3>2 DEF IInv
  <2>3. QED
    BY <1>4, <2>1, <2>2 DEF SignalMessage
<1>5. CASE CloseSession
  <2>1. TypeOK'
    BY <1>2, <1>5 DEF TypeOK, CloseSession
  <2>2. Fifo'
    BY <1>2, <1>5 DEF Fifo, CloseSession
  <2>3. TurnTaken' /\ InLoop'
    BY <1>2, <1>5 DEF TurnTaken, InLoop, TypeOK, CloseSession
  <2>4. QED
    BY <2>1, <2>2, <2>3 DEF IInv
<1>6. CASE SignalComplete
  <2>1. TypeOK'
    <3>1. faults' \in 0 .. MaxFaults
      BY <1>2, <1>6 DEF TypeOK, SignalComplete
    <3>2. completion' = TRUE \/ completion' = completion
      BY <1>6, Zenon DEF SignalComplete
    <3>3. completion' \in BOOLEAN
      BY <1>2, <3>2, Zenon DEF TypeOK
    <3>4. QED
      BY <1>2, <1>6, <3>1, <3>3 DEF TypeOK, SignalComplete
  <2>2. Fifo'
    BY <1>2, <1>6 DEF Fifo, SignalComplete
  <2>3. TurnTaken' /\ InLoop'
    BY <1>2, <1>6 DEF TurnTaken, InLoop, TypeOK, SignalComplete
  <2>4. QED
    BY <2>1, <2>2, <2>3 DEF IInv
<1>7. CASE Initialize
  <2>1. TypeOK'
    BY <1>2, <1>7 DEF TypeOK, Initialize
  <2>2. Fifo'
    BY <1>2, <1>7 DEF Fifo, Initialize
  <2>3. TurnTaken' /\ InLoop'
    BY <1>2, <1>7 DEF TurnTaken, InLoop, TypeOK, Initialize
  <2>4. QED
    BY <2>1, <2>2, <2>3 DEF IInv
<1>8. CASE Take
  <2>1. inbox \in Seq(Messages) /\ inbox # <<>> /\ taken \in Seq(Messages)
    BY <1>2, <1>8 DEF Take, TypeOK
  <2>2. Head(inbox) \in Messages /\ Tail(inbox) \in Seq(Messages)
    BY <2>1, HeadTailProperties
  <2>3. /\ taken' \in Seq(Messages) /\ taken' # <<>> /\ Len(taken') = Len(taken) + 1
        /\ Len(taken) \in Nat
    BY <1>8, <2>1, <2>2, AppendProperties, LenProperties DEF Take
  <2>4. TypeOK'
    BY <1>2, <1>8, <2>2, <2>3 DEF Take, TypeOK
  <2>5. Fifo'
    BY <1>2, <1>8, <2>1, TakeConcat DEF Fifo, Take
  <2>6. TurnTaken' /\ InLoop'
    BY <1>8, <2>3 DEF TurnTaken, InLoop, Take
  <2>7. QED
    BY <2>4, <2>5, <2>6 DEF IInv
<1>9. CASE Finish
  <2>1. TypeOK'
    BY <1>2, <1>9 DEF TypeOK, Finish
  <2>2. Fifo'
    BY <1>2, <1>9 DEF Fifo, Finish
  <2>3. TurnTaken' /\ InLoop'
    BY <1>2, <1>9 DEF TurnTaken, InLoop, TypeOK, Finish
  <2>4. QED
    BY <2>1, <2>2, <2>3 DEF IInv
<1>10. CASE Activate
  <2>1. TypeOK'
    BY <1>2, <1>10 DEF TypeOK, Activate
  <2>2. Fifo'
    BY <1>2, <1>10 DEF Fifo, Activate
  <2>3. TurnTaken' /\ InLoop'
    BY <1>2, <1>10 DEF TurnTaken, InLoop, TypeOK, Activate
  <2>4. QED
    BY <2>1, <2>2, <2>3 DEF IInv
<1>11. CASE BuildContext
  <2>1. TypeOK'
    BY <1>2, <1>11 DEF TypeOK, BuildContext
  <2>2. Fifo'
    BY <1>2, <1>11 DEF Fifo, BuildContext
  <2>3. TurnTaken' /\ InLoop'
    BY <1>2, <1>11 DEF TurnTaken, InLoop, TypeOK, BuildContext
  <2>4. QED
    BY <2>1, <2>2, <2>3 DEF IInv
<1>12. CASE Iterate
  <2>1. Turn = "open"
    BY <1>12 DEF Iterate
  <2>2. Len(taken) \in 1 .. Len(taken)
    BY <1>2, <2>1, OpenTurn
  <2>3. TypeOK'
    BY <1>2, <1>12, <2>2 DEF TypeOK, Iterate
  <2>4. Fifo'
    BY <1>2, <1>12 DEF Fifo, Iterate
  <2>5. TurnTaken' /\ InLoop'
    BY <1>2, <1>12 DEF TurnTaken, InLoop, TypeOK, Iterate
  <2>6. QED
    BY <2>3, <2>4, <2>5 DEF IInv
<1>13. CASE CallLlm
  <2>1. TypeOK'
    BY <1>2, <1>13 DEF TypeOK, CallLlm
  <2>2. Fifo'
    BY <1>2, <1>13 DEF Fifo, CallLlm
  <2>3. TurnTaken' /\ InLoop'
    BY <1>2, <1>13 DEF TurnTaken, InLoop, TypeOK, CallLlm
  <2>4. QED
    BY <2>1, <2>2, <2>3 DEF IInv
<1>14. CASE RunTools
  <2>1. TypeOK'
    <3>1. iteration' \in 0 .. MaxIterations
      BY <1>2, <1>14 DEF TypeOK, InLoop, RunTools
    <3>2. QED
      BY <1>2, <1>14, <3>1 DEF TypeOK, RunTools
  <2>2. Fifo'
    BY <1>2, <1>14 DEF Fifo, RunTools
  <2>3. TurnTaken' /\ InLoop'
    BY <1>2, <1>14 DEF TurnTaken, InLoop, TypeOK, RunTools
  <2>4. QED
    BY <2>1, <2>2, <2>3 DEF IInv
<1>15. CASE AnswerUser
  <2>1. TypeOK'
    BY <1>2, <1>15 DEF TypeOK, AnswerUser
  <2>2. Fifo'
    BY <1>2, <1>15 DEF Fifo, AnswerUser
  <2>3. TurnTaken' /\ InLoop'
    BY <1>2, <1>15 DEF TurnTaken, InLoop, TypeOK, AnswerUser
  <2>4. QED
    BY <2>1, <2>2, <2>3 DEF IInv
<1>16. CASE PauseRow
  <2>1. TypeOK'
    BY <1>2, <1>16 DEF TypeOK, PauseRow
  <2>2. Fifo'
    BY <1>2, <1>16 DEF Fifo, PauseRow
  <2>3. TurnTaken' /\ InLoop'
    BY <1>2, <1>16 DEF TurnTaken, InLoop, TypeOK, PauseRow
  <2>4. QED
    BY <2>1, <2>2, <2>3 DEF IInv
<1>17. CASE CheckCompletion
  <2>1. TypeOK'
    BY <1>2, <1>17 DEF TypeOK, CheckCompletion
  <2>2. Fifo'
    BY <1>2, <1>17 DEF Fifo, CheckCompletion
  <2>3. TurnTaken' /\ InLoop'
    BY <1>2, <1>17 DEF TurnTaken, InLoop, TypeOK, CheckCompletion
  <2>4. QED
    BY <2>1, <2>2, <2>3 DEF IInv
<1>18. CASE AnswerFails
  <2>1. Turn = "open"
    BY <1>18 DEF AnswerFails
  <2>2. Len(taken) \in 1 .. Len(taken)
    BY <1>2, <2>1, OpenTurn
  <2>3. TypeOK'
    <3>1. faults' \in 0 .. MaxFaults
      BY <1>2, <1>18 DEF TypeOK, AnswerFails
    <3>2. unanswered' \subseteq 1 .. Len(taken)
      BY <1>2, <1>18, <2>2 DEF TypeOK, AnswerFails
    <3>3. QED
      BY <1>2, <1>18, <3>1, <3>2 DEF TypeOK, AnswerFails
  <2>4. Fifo'
    BY <1>2, <1>18 DEF Fifo, AnswerFails
  <2>5. TurnTaken' /\ InLoop'
    BY <1>2, <1>18 DEF TurnTaken, InLoop, TypeOK, AnswerFails
  <2>6. QED
    BY <2>3, <2>4, <2>5 DEF IInv
<1>19. CASE AttemptTimesOut
  <2>1. TypeOK'
    <3>1. faults' \in 0 .. MaxFaults
      BY <1>2, <1>19 DEF TypeOK, AttemptTimesOut
    <3>2. late' \subseteq {"active", "paused"}
      BY <1>2, <1>19 DEF TypeOK, AttemptTimesOut, StatusWrite
    <3>3. QED
      BY <1>2, <1>19, <3>1, <3>2 DEF TypeOK, AttemptTimesOut
  <2>2. Fifo'
    BY <1>2, <1>19 DEF Fifo, AttemptTimesOut
  <2>3. TurnTaken' /\ InLoop'
    BY <1>2, <1>19 DEF TurnTaken, InLoop, TypeOK, AttemptTimesOut
  <2>4. QED
    BY <2>1, <2>2, <2>3 DEF IInv
<1>20. ASSUME NEW s \in {"active", "paused"}, LateWrite(s)
      PROVE  IInv'
  <2>1. TypeOK'
    BY <1>2, <1>20 DEF TypeOK, LateWrite
  <2>2. Fifo'
    BY <1>2, <1>20 DEF Fifo, LateWrite
  <2>3. TurnTaken' /\ InLoop'
    BY <1>2, <1>20 DEF TurnTaken, InLoop, TypeOK, LateWrite
  <2>4. QED
    BY <2>1, <2>2, <2>3 DEF IInv
<1>21. CASE UNCHANGED vars
  BY <1>2, <1>21 DEF vars, IInv, TypeOK, Fifo, TurnTaken, InLoop
<1>22. QED
  BY <1>1, <1>3, <1>4, <1>5, <1>6, <1>7, <1>8, <1>9, <1>10, <1>11, <1>12, <1>13, <1>14, <1>15, <1>16, <1>17, <1>18, <1>19, <1>20, <1>21 DEF Next, Run

\* TypeOK: the workflow and its rows stay in their ranges, and only turns that were
\* opened are counted as unanswered.
THEOREM TypeCorrect == Spec => []TypeOK
<1>1. IInv => TypeOK
  BY DEF IInv
<1>2. QED
  BY <1>1, InvariantInit, InvariantStep, PTL DEF Spec

-----------------------------------------------------------------------------
(* No message is forgotten. *)

\* A message is signalled after it was saved.
Saved == \A i \in DOMAIN delivered : message[delivered[i]] # "unsent"

\* The messages of the thread that wrote last.
Thread(s) == {s[i] : i \in {j \in DOMAIN s : ThreadOf[s[j]] = ThreadOf[s[Len(s)]]}}

\* The context of a turn holds all the messages its thread sent before it.
InContext ==
  at \in {"iterate", "llm", "tools"} \cup Answering => Thread(taken) \subseteq context

\* When a turn is over they are answered, or a message that came interrupts the wait.
AnsweredUnlessNext ==
  at \in {"initialize", "wait", "pausing", "check", "ending"} /\ inbox = <<>>
    => Thread(taken) \subseteq answered

Heard == Saved /\ InContext /\ AnsweredUnlessNext

\* The context that build_llm_context makes has them, as they were taken from what
\* was delivered.
LEMMA ContextHolds ==
  ASSUME TypeOK, Fifo, Saved,
         NEW C, C = {m \in Messages : message[m] # "unsent" /\ ThreadOf[m] = ThreadOf[current]}
  PROVE  Thread(taken) \subseteq C
<1>1. taken \in Seq(Messages) /\ inbox \in Seq(Messages) /\ delivered = taken \o inbox
  BY DEF TypeOK, Fifo
<1>2. /\ Len(delivered) = Len(taken) + Len(inbox)
      /\ \A i \in 1 .. Len(taken) + Len(inbox) :
           delivered[i] = IF i <= Len(taken) THEN taken[i] ELSE inbox[i - Len(taken)]
      /\ DOMAIN delivered = 1 .. Len(taken) + Len(inbox)
  BY <1>1, ConcatProperties
<1>3. Len(taken) \in Nat /\ Len(inbox) \in Nat /\ DOMAIN taken = 1 .. Len(taken)
  BY <1>1, LenProperties
<1>4. ASSUME NEW i \in DOMAIN taken
      PROVE  taken[i] \in Messages /\ message[taken[i]] # "unsent"
  <2>1. i \in DOMAIN delivered /\ delivered[i] = taken[i]
    BY <1>2, <1>3, <1>4
  <2>2. QED
    BY <1>1, <1>4, <2>1 DEF Saved
<1>5. QED
  BY <1>4 DEF Thread, current

LEMMA HeardStep ==
  ASSUME IInv, Heard, [Next]_vars
  PROVE  Heard'
<1>1. TypeOK /\ Fifo /\ Saved /\ InContext /\ AnsweredUnlessNext
  BY DEF IInv, Heard
<1> USE DEF Thread
\* Nothing is sent and the workflow stays where it is.
<1>2. ASSUME UNCHANGED <<message, inbox, at, context, delivered, taken, answered>>
      PROVE  Heard'
  BY <1>1, <1>2 DEF Heard, Saved, InContext, AnsweredUnlessNext
<1>3. ASSUME NEW m \in Messages, SaveMessage(m)
      PROVE  Heard'
  <2>1. /\ message' = [message EXCEPT ![m] = "saved"]
        /\ UNCHANGED <<inbox, at, context, delivered, taken, answered>>
    BY <1>3 DEF SaveMessage
  <2>2. Saved'
    <3>1. \A i \in DOMAIN delivered : delivered[i] \in Messages
      BY <1>1 DEF TypeOK
    <3>2. QED
      BY <1>1, <2>1, <3>1 DEF Saved, TypeOK
  <2>3. InContext' /\ AnsweredUnlessNext'
    BY <1>1, <2>1 DEF InContext, AnsweredUnlessNext
  <2>4. QED
    BY <2>2, <2>3 DEF Heard
<1>4. ASSUME NEW m \in Messages, SignalMessage(m)
      PROVE  Heard'
  <2>1. /\ message[m] = "saved" /\ UNCHANGED <<at, context, taken, answered>>
        /\ message' \in {message, [message EXCEPT ![m] = "signalled"]}
    BY <1>4 DEF SignalMessage
  <2>2. \A d \in Messages : message[d] # "unsent" => message'[d] # "unsent"
    BY <1>1, <2>1 DEF TypeOK
  <2>3. CASE UserMessage(m)
    <3>1. inbox' # <<>>
      BY <1>1, <2>3, AppendProperties DEF TypeOK, UserMessage
    <3>2. Saved'
      <4>1. delivered' = Append(delivered, m) /\ delivered \in Seq(Messages)
        BY <1>1, <2>3 DEF TypeOK, UserMessage
      <4>2. \A i \in DOMAIN delivered' : delivered'[i] = m \/ (i \in DOMAIN delivered /\ delivered'[i] = delivered[i])
        BY <4>1
      <4>3. \A i \in DOMAIN delivered : delivered[i] \in Messages
        BY <4>1
      <4>4. QED
        BY <1>1, <2>1, <2>2, <4>2, <4>3 DEF Saved
    <3>3. InContext' /\ AnsweredUnlessNext'
      BY <1>1, <2>1, <3>1 DEF InContext, AnsweredUnlessNext
    <3>4. QED
      BY <3>2, <3>3 DEF Heard
  <2>4. CASE UNCHANGED <<inbox, delivered, status>>
    <3>1. \A i \in DOMAIN delivered : delivered[i] \in Messages
      BY <1>1 DEF TypeOK
    <3>2. Saved'
      BY <1>1, <2>2, <2>4, <3>1 DEF Saved
    <3>3. QED
      BY <1>1, <2>1, <2>4, <3>2 DEF Heard, InContext, AnsweredUnlessNext
  <2>5. QED
    BY <1>4, <2>3, <2>4 DEF SignalMessage
<1>5. CASE Take
  BY <1>1, <1>5 DEF Take, Heard, Saved, InContext, AnsweredUnlessNext
<1>6. CASE BuildContext
  <2>1. /\ context' = {m \in Messages : message[m] # "unsent" /\ ThreadOf[m] = ThreadOf[current]}
        /\ at' = "iterate" /\ UNCHANGED <<message, delivered, taken>>
    BY <1>6 DEF BuildContext
  <2>2. Thread(taken) \subseteq context'
    BY <1>1, <2>1, ContextHolds
  <2>3. Saved' /\ AnsweredUnlessNext' /\ InContext'
    BY <1>1, <2>1, <2>2 DEF Saved, InContext, AnsweredUnlessNext
  <2>4. QED
    BY <2>3 DEF Heard
<1>7. CASE Iterate
  BY <1>1, <1>7 DEF Iterate, Heard, Saved, InContext, AnsweredUnlessNext
<1>8. CASE CallLlm \/ RunTools
  BY <1>1, <1>8 DEF CallLlm, RunTools, Heard, Saved, InContext, AnsweredUnlessNext
<1>9. CASE AnswerUser
  BY <1>1, <1>9 DEF AnswerUser, Heard, Saved, InContext, AnsweredUnlessNext
<1>10. CASE Initialize \/ Finish \/ Activate
  BY <1>1, <1>10 DEF Initialize, Finish, Activate, Heard, Saved, InContext, AnsweredUnlessNext
<1>11. CASE PauseRow \/ CheckCompletion
  BY <1>1, <1>11 DEF PauseRow, CheckCompletion, Heard, Saved, InContext, AnsweredUnlessNext
<1>12. CASE AnswerFails
  BY <1>1, <1>12 DEF AnswerFails, Heard, Saved, InContext, AnsweredUnlessNext
<1>13. CASE CloseSession \/ SignalComplete \/ AttemptTimesOut
  BY <1>2, <1>13 DEF CloseSession, SignalComplete, AttemptTimesOut
<1>14. ASSUME NEW s \in {"active", "paused"}, LateWrite(s)
       PROVE  Heard'
  BY <1>2, <1>14 DEF LateWrite
<1>15. CASE UNCHANGED vars
  BY <1>2, <1>15 DEF vars
<1>16. QED
  BY <1>3, <1>4, <1>5, <1>6, <1>7, <1>8, <1>9, <1>10, <1>11, <1>12, <1>13, <1>14, <1>15
     DEF Next, Run

\* NothingForgotten: however messages interrupt turns, are lost or repeated, when the
\* workflow waits with nothing to do every message it was sent in the thread that
\* wrote last was in the context of an answer.
THEOREM NoneForgotten == Spec => []NothingForgotten
<1>1. Init => IInv /\ Heard
  <2>1. Init => Heard
    BY DEF Init, Heard, Saved, InContext, AnsweredUnlessNext, Thread
  <2>2. QED
    BY <2>1, InvariantInit
<1>2. IInv /\ Heard /\ [Next]_vars => IInv' /\ Heard'
  BY InvariantStep, HeardStep
<1>3. IInv /\ Heard => NothingForgotten
  <2> SUFFICES ASSUME IInv, Heard, Idle
               PROVE  Thread(delivered) \subseteq answered
    BY DEF NothingForgotten, Thread
  <2>1. delivered = taken
    <3>1. taken \in Seq(Messages) /\ delivered = taken \o <<>>
      BY DEF IInv, TypeOK, Fifo, Idle
    <3>2. QED
      BY <3>1, ConcatEmptySeq
  <2>2. Thread(taken) \subseteq answered
    BY DEF Heard, AnsweredUnlessNext, Idle
  <2>3. QED
    BY <2>1, <2>2
<1>4. QED
  BY <1>1, <1>2, <1>3, PTL DEF Spec

-----------------------------------------------------------------------------
(* The row of the session follows its workflow. *)

\* As long as nobody closed the session and no write came late, the row is active
\* during a turn; the wait finds row and status agreeing unless a message came.
RowFollows ==
  closing = "open" /\ faults = 0 =>
    /\ late = {} /\ ~completion
    /\ at \in {"context", "iterate", "llm", "tools"} \cup Answering =>
         row = "active" /\ status = "processing"
    /\ at = "pausing" => status = Paused \/ inbox # <<>>
    /\ at = "check" => row = "active" \/ inbox # <<>>
    /\ at = "wait" => (row = "paused" <=> status = Paused) \/ inbox # <<>>

LEMMA RowStep ==
  ASSUME TypeOK, RowFollows, [Next]_vars
  PROVE  RowFollows'
<1> SUFFICES ASSUME closing' = "open", faults' = 0
             PROVE  RowFollows'
  BY DEF RowFollows
<1> USE DEF RowFollows
<1>1. closing = "open"
  BY DEF Next, SaveMessage, SignalMessage, CloseSession, SignalComplete, Run, Initialize, Take,
         Finish, Activate, BuildContext, Iterate, CallLlm, RunTools, AnswerUser, PauseRow,
         CheckCompletion, AnswerFails, AttemptTimesOut, LateWrite, vars
<1>2. faults = 0 /\ faults \in Nat
  <2>1. faults \in Nat
    BY IterationAssumption DEF TypeOK
  <2>2. faults' = faults \/ faults' = faults + 1
    BY DEF Next, SaveMessage, SignalMessage, CloseSession, SignalComplete, Run, Initialize, Take,
           Finish, Activate, BuildContext, Iterate, CallLlm, RunTools, AnswerUser, PauseRow,
           CheckCompletion, AnswerFails, AttemptTimesOut, LateWrite, vars
  <2>3. QED
    BY <2>1, <2>2
<1>3. ASSUME NEW m \in Messages, SaveMessage(m)
      PROVE  RowFollows'
  BY <1>1, <1>2, <1>3 DEF SaveMessage
<1>4. ASSUME NEW m \in Messages, SignalMessage(m)
      PROVE  RowFollows'
  <2>1. UNCHANGED <<row, completion, at, late>>
    BY <1>4 DEF SignalMessage
  <2>2. CASE UserMessage(m)
    <3>1. inbox' # <<>>
      BY <2>2, AppendProperties DEF TypeOK, UserMessage
    <3>2. status = "processing" => status' = "processing"
      BY <2>2 DEF UserMessage
    <3>3. QED
      BY <1>1, <1>2, <2>1, <3>1, <3>2
  <2>3. CASE UNCHANGED <<inbox, delivered, status>>
    BY <1>1, <1>2, <2>1, <2>3
  <2>4. QED
    BY <1>4, <2>2, <2>3 DEF SignalMessage
<1>5. CASE CloseSession \/ SignalComplete
  BY <1>1, <1>5 DEF CloseSession, SignalComplete
<1>6. CASE Initialize \/ Take \/ Finish \/ Activate
  BY <1>1, <1>2, <1>6 DEF Initialize, Take, Finish, Activate
<1>7. CASE BuildContext \/ CallLlm \/ RunTools
  BY <1>1, <1>2, <1>7 DEF BuildContext, CallLlm, RunTools
<1>8. CASE Iterate
  BY <1>1, <1>2, <1>8 DEF Iterate
<1>9. CASE AnswerUser
  BY <1>1, <1>2, <1>9 DEF AnswerUser
<1>10. CASE PauseRow
  BY <1>1, <1>2, <1>10 DEF PauseRow
<1>11. CASE CheckCompletion
  BY <1>1, <1>2, <1>11 DEF CheckCompletion, TypeOK
<1>12. CASE AnswerFails \/ AttemptTimesOut
  BY <1>2, <1>12 DEF AnswerFails, AttemptTimesOut
<1>13. ASSUME NEW s \in {"active", "paused"}, LateWrite(s)
       PROVE  RowFollows'
  BY <1>1, <1>2, <1>13 DEF LateWrite
<1>14. CASE UNCHANGED vars
  BY <1>1, <1>2, <1>14 DEF vars
<1>15. QED
  BY <1>3, <1>4, <1>5, <1>6, <1>7, <1>8, <1>9, <1>10, <1>11, <1>12, <1>13, <1>14 DEF Next, Run

\* PausedAgrees: as long as nobody closes the session and nothing is lost or late, the
\* idle workflow waits for Continue if and only if the row says paused, whatever
\* messages come in the middle of a pause.
THEOREM PausedShown == Spec => []PausedAgrees
<1>1. Init => RowFollows
  BY DEF Init, RowFollows
<1>2. TypeOK /\ RowFollows /\ [Next]_vars => RowFollows'
  BY RowStep
<1>3. RowFollows => PausedAgrees
  BY DEF RowFollows, PausedAgrees, Idle
<1>4. QED
  BY <1>1, <1>2, <1>3, TypeCorrect, PTL DEF Spec

-----------------------------------------------------------------------------
(* The session implements the queue of turns. *)

\* A message in the inbox is one that was accepted and not handled yet.
LEMMA Waiting ==
  ASSUME TypeOK, Fifo, inbox # <<>>
  PROVE  Len(taken) < Len(delivered)
  BY TakeConcat DEF TypeOK, Fifo

LEMMA QueueStarts == Init => Queue!QueueInit
  BY DEF Init, Queue!QueueInit

LEMMA QueueStep == IInv /\ [Next]_vars => [Queue!QueueNext]_Queue!queueVars
<1>1. SUFFICES ASSUME IInv, [Next]_vars
               PROVE  [Queue!QueueNext]_Queue!queueVars
  OBVIOUS
<1>2. TypeOK /\ Fifo /\ TurnTaken /\ InLoop
  BY <1>1 DEF IInv
<1> USE DEF Queue!queueVars
<1>3. ASSUME NEW m \in Messages, SaveMessage(m)
      PROVE  UNCHANGED Queue!queueVars
  BY <1>3 DEF SaveMessage
<1>4. ASSUME NEW m \in Messages, SignalMessage(m)
      PROVE  [Queue!QueueNext]_Queue!queueVars
  <2>1. CASE Running /\ UserMessage(m)
    <3>1. Queue!Accept(m)
      BY <1>2, <1>4, <2>1 DEF SignalMessage, UserMessage, Running, Queue!Accept, TypeOK
    <3>2. QED
      BY <3>1 DEF Queue!QueueNext
  <2>2. CASE UNCHANGED <<inbox, delivered, status>>
    BY <1>4, <2>2 DEF SignalMessage
  <2>3. QED
    BY <1>4, <2>1, <2>2 DEF SignalMessage
<1>5. CASE Take
  <2>1. inbox # <<>> /\ inbox \in Seq(Messages) /\ taken \in Seq(Messages)
    BY <1>2, <1>5 DEF Take, TypeOK
  <2>2. Head(inbox) = delivered[Len(taken) + 1]
    BY <1>2, <2>1, TakeConcat DEF Fifo
  <2>3. Len(taken) < Len(delivered)
    BY <1>2, <2>1, Waiting
  <2>4. Queue!Open
    BY <1>5, <2>2, <2>3 DEF Take, Queue!Open
  <2>5. QED
    BY <2>4 DEF Queue!QueueNext
<1>6. CASE Finish
  <2>1. Queue!Stop
    BY <1>6 DEF Finish, Queue!Stop
  <2>2. QED
    BY <2>1 DEF Queue!QueueNext
<1>7. CASE Iterate
  <2>1. CASE inbox # <<>> /\ at' \in {"wait", "check", "ending"} /\ unanswered' = unanswered \cup {Len(taken)}
    <3>1. Len(taken) < Len(delivered)
      BY <1>2, <2>1, Waiting
    <3>2. Queue!Supersede
      BY <1>7, <2>1, <3>1 DEF Iterate, Queue!Supersede
    <3>3. QED
      BY <3>2 DEF Queue!QueueNext
  <2>2. CASE at' \in {"notice", "llm"} /\ UNCHANGED unanswered
    BY <1>7, <2>2 DEF Iterate
  <2>3. QED
    BY <1>7, <2>1, <2>2 DEF Iterate
<1>8. CASE AnswerUser
  <2>1. CASE at = "notice"
    BY <1>8, <2>1 DEF AnswerUser
  <2>2. CASE at # "notice"
    <3>1. Queue!Answer
      BY <1>8, <2>2 DEF AnswerUser, Queue!Answer
    <3>2. QED
      BY <3>1 DEF Queue!QueueNext
  <2>3. QED
    BY <2>1, <2>2
<1>9. CASE PauseRow
  <2>1. Queue!Answer
    BY <1>9 DEF PauseRow, Queue!Answer
  <2>2. QED
    BY <2>1 DEF Queue!QueueNext
<1>10. CASE CheckCompletion
  <2>1. CASE row = "completed"
    <3>1. Queue!Stop
      BY <1>10, <2>1 DEF CheckCompletion, Queue!Stop
    <3>2. QED
      BY <3>1 DEF Queue!QueueNext
  <2>2. CASE row # "completed"
    BY <1>10, <2>2 DEF CheckCompletion
  <2>3. QED
    BY <2>1, <2>2
<1>11. CASE AnswerFails
  <2>1. Queue!Break
    BY <1>11 DEF AnswerFails, Queue!Break
  <2>2. QED
    BY <2>1 DEF Queue!QueueNext
<1>12. CASE CloseSession \/ SignalComplete \/ AttemptTimesOut
  BY <1>12 DEF CloseSession, SignalComplete, AttemptTimesOut
<1>13. CASE Initialize \/ Activate \/ BuildContext
  BY <1>13 DEF Initialize, Activate, BuildContext
<1>14. CASE CallLlm \/ RunTools
  BY <1>14 DEF CallLlm, RunTools
<1>15. ASSUME NEW s \in {"active", "paused"}, LateWrite(s)
       PROVE  UNCHANGED Queue!queueVars
  BY <1>15 DEF LateWrite
<1>16. CASE UNCHANGED vars
  BY <1>16 DEF vars
<1>17. QED
  BY <1>1, <1>3, <1>4, <1>5, <1>6, <1>7, <1>8, <1>9, <1>10, <1>11, <1>12, <1>13, <1>14,
     <1>15, <1>16 DEF Next, Run

\* ImplementsQueue: whatever is lost, repeated or interrupted, the workflow takes the
\* messages it was sent in their order, each once, one turn at a time, and leaves a
\* turn without an answer only for a message that waits.
THEOREM QueueImplemented == Spec => ImplementsQueue
  BY QueueStarts, QueueStep, InvariantInit, InvariantStep, PTL
  DEF Spec, ImplementsQueue, Queue!QueueSpec

-----------------------------------------------------------------------------
(* Turns end: what their fairness rests on. *)

\* The turns of the tool loop that are left, counting the present one.
Rounds ==
  IF at \in {"activate", "context"} THEN MaxIterations + 2
  ELSE IF at \in {"iterate", "llm", "tools"} THEN MaxIterations + 1 - iteration ELSE 0

\* The awaits that are left before the next round, or the next wait.
AwaitsLeft ==
  CASE at = "notice" -> 4
    [] at \in {"answer", "error", "pausing", "iterate"} -> 3
    [] at \in {"initialize", "activate", "check", "ending", "llm"} -> 2
    [] at \in {"wait", "context", "tools"} -> 1
    [] OTHER -> 0

\* The messages that wait for a turn, the rounds of the present one, and its awaits.
Left == <<Len(inbox), Rounds, AwaitsLeft>>

Lower(a, b) == \E k \in 1..3 : a[k] < b[k] /\ \A j \in 1..(k - 1) : a[j] = b[j]
Lowered == Lower(Left', Left)

\* A message the workflow is sent waits for a turn of its own; the present one goes on.
OneMore ==
  /\ \E m \in Messages : SignalMessage(m)
  /\ Len(inbox') = Len(inbox) + 1 /\ Rounds' = Rounds /\ AwaitsLeft' = AwaitsLeft

\* A step of run takes it nearer to its next wait; only a message adds to its work.
RunsDown ==
  /\ Run \/ AnswerFails => Lowered
  /\ Lowered \/ Left' = Left \/ OneMore

LEMMA LeftParts ==
  ASSUME IInv, IInv'
  PROVE  /\ Left \in Nat \X Nat \X Nat /\ Left' \in Nat \X Nat \X Nat
         /\ Left[1] = Len(inbox) /\ Left[2] = Rounds /\ Left[3] = AwaitsLeft
         /\ Left'[1] = Len(inbox') /\ Left'[2] = Rounds' /\ Left'[3] = AwaitsLeft'
<1>1. Len(inbox) \in Nat /\ Len(inbox') \in Nat
  BY LenProperties DEF IInv, TypeOK
<1>2. Rounds \in Nat /\ Rounds' \in Nat
  <2>1. MaxIterations \in Nat /\ iteration \in 0..MaxIterations /\ iteration' \in 0..MaxIterations
    BY IterationAssumption DEF IInv, TypeOK
  <2>2. \A i \in 0..MaxIterations : MaxIterations + 1 - i \in Nat
    BY <2>1
  <2>3. MaxIterations + 2 \in Nat
    BY <2>1
  <2>4. QED
    BY <2>1, <2>2, <2>3 DEF Rounds
<1>3. AwaitsLeft \in Nat /\ AwaitsLeft' \in Nat
  BY DEF AwaitsLeft
<1>4. QED
  BY <1>1, <1>2, <1>3 DEF Left

\* The components of Left in turn.
LEMMA LeftFalls ==
  ASSUME IInv, IInv',
         \/ Len(inbox') < Len(inbox)
         \/ inbox' = inbox /\ Rounds' < Rounds
         \/ inbox' = inbox /\ Rounds' = Rounds /\ AwaitsLeft' < AwaitsLeft
  PROVE  Lowered
<1>1. CASE Len(inbox') < Len(inbox)
  <2>1. 1 \in 1..3 /\ \A j \in 1..(1 - 1) : Left'[j] = Left[j]
    OBVIOUS
  <2>2. QED
    BY <1>1, <2>1, LeftParts DEF Lowered, Lower
<1>2. CASE inbox' = inbox /\ Rounds' < Rounds
  <2>1. 2 \in 1..3 /\ \A j \in 1..(2 - 1) : j = 1
    OBVIOUS
  <2>2. QED
    BY <1>2, <2>1, LeftParts DEF Lowered, Lower
<1>3. CASE inbox' = inbox /\ Rounds' = Rounds /\ AwaitsLeft' < AwaitsLeft
  <2>1. 3 \in 1..3 /\ \A j \in 1..(3 - 1) : j = 1 \/ j = 2
    OBVIOUS
  <2>2. QED
    BY <1>3, <2>1, LeftParts DEF Lowered, Lower
<1>4. QED
  BY <1>1, <1>2, <1>3

LEMMA RunFalls ==
  ASSUME IInv, IInv', Run \/ AnswerFails
  PROVE  Lowered
<1> USE IterationAssumption DEF TypeOK
<1>1. TypeOK /\ InLoop
  BY DEF IInv
<1>2. CASE Take
  <2>1. inbox \in Seq(Messages) /\ inbox # <<>> /\ inbox' = Tail(inbox)
    BY <1>1, <1>2 DEF Take
  <2>2. Len(inbox') < Len(inbox)
    <3>1. Len(inbox) \in Nat \ {0} /\ Len(Tail(inbox)) = Len(inbox) - 1
      BY <2>1, EmptySeq, HeadTailProperties
    <3>2. QED
      BY <2>1, <3>1
  <2>3. QED
    BY <2>2, LeftFalls
<1>3. CASE Initialize \/ Finish \/ Activate \/ BuildContext
  <2>1. inbox' = inbox
    BY <1>3 DEF Initialize, Finish, Activate, BuildContext
  <2>2. Rounds' < Rounds \/ (Rounds' = Rounds /\ AwaitsLeft' < AwaitsLeft)
    BY <1>1, <1>3 DEF Initialize, Finish, Activate, BuildContext, Rounds, AwaitsLeft
  <2>3. QED
    BY <2>1, <2>2, LeftFalls
<1>4. CASE Iterate \/ CallLlm \/ RunTools
  <2>1. inbox' = inbox
    BY <1>4 DEF Iterate, CallLlm, RunTools
  <2>2. Rounds' < Rounds \/ (Rounds' = Rounds /\ AwaitsLeft' < AwaitsLeft)
    <3>1. CASE Iterate
      BY <1>1, <3>1 DEF Iterate, Rounds, AwaitsLeft
    <3>2. CASE CallLlm
      BY <1>1, <3>2 DEF CallLlm, InLoop, Rounds, AwaitsLeft
    <3>3. CASE RunTools
      BY <1>1, <3>3 DEF RunTools, InLoop, Rounds, AwaitsLeft
    <3>4. QED
      BY <1>4, <3>1, <3>2, <3>3
  <2>3. QED
    BY <2>1, <2>2, LeftFalls
<1>5. CASE AnswerUser \/ PauseRow \/ CheckCompletion \/ AnswerFails
  <2>1. inbox' = inbox
    BY <1>5 DEF AnswerUser, PauseRow, CheckCompletion, AnswerFails
  <2>2. Rounds' < Rounds \/ (Rounds' = Rounds /\ AwaitsLeft' < AwaitsLeft)
    BY <1>1, <1>5 DEF AnswerUser, PauseRow, CheckCompletion, AnswerFails, Rounds, AwaitsLeft
  <2>3. QED
    BY <2>1, <2>2, LeftFalls
<1>6. QED
  BY <1>2, <1>3, <1>4, <1>5 DEF Run

\* Only a signal makes the inbox longer, and it leaves the turn alone.
LEMMA SignalKeeps ==
  ASSUME TypeOK, NEW m \in Messages, SignalMessage(m)
  PROVE  Left' = Left \/ OneMore
<1>1. at' = at /\ iteration' = iteration
  BY DEF SignalMessage, UserMessage
<1>2. Rounds' = Rounds /\ AwaitsLeft' = AwaitsLeft
  BY <1>1 DEF Rounds, AwaitsLeft
<1>3. inbox' = inbox \/ inbox' = Append(inbox, m)
  BY DEF SignalMessage, UserMessage
<1>4. Len(Append(inbox, m)) = Len(inbox) + 1
  BY AppendProperties DEF TypeOK
<1>5. QED
  BY <1>2, <1>3, <1>4 DEF Left, OneMore

\* TroubleshootWorkflow.run: whatever is interrupted, paused or fails, each step of the
\* workflow brings it nearer to its next wait or its end, in an order that has no
\* infinite descent, and nothing but a message it is sent adds to its work: a turn
\* has no loop but the one over its iterations.
THEOREM TurnsRunDown ==
  Spec => /\ [](Left \in Nat \X Nat \X Nat)
          /\ [][RunsDown]_vars
<1>1. IInv => Left \in Nat \X Nat \X Nat
  <2>1. IInv => Len(inbox) \in Nat
    BY LenProperties DEF IInv, TypeOK
  <2>2. IInv => Rounds \in Nat
    <3>1. IInv => MaxIterations \in Nat /\ iteration \in 0..MaxIterations
      BY IterationAssumption DEF IInv, TypeOK
    <3>2. QED
      BY <3>1 DEF Rounds
  <2>3. AwaitsLeft \in Nat
    BY DEF AwaitsLeft
  <2>4. QED
    BY <2>1, <2>2, <2>3 DEF Left
<1>2. ASSUME IInv, IInv', [Next]_vars
      PROVE  [RunsDown]_vars
  <2> SUFFICES ASSUME Next
               PROVE  RunsDown
    BY <1>2
  <2>1. Run \/ AnswerFails => Lowered
    BY <1>2, RunFalls
  <2>2. ASSUME NEW m \in Messages, SignalMessage(m)
        PROVE  Left' = Left \/ OneMore
    BY <1>2, <2>2, SignalKeeps DEF IInv
  <2>3. ASSUME \/ \E m \in Messages : SaveMessage(m)
               \/ CloseSession \/ SignalComplete \/ AttemptTimesOut
               \/ \E s \in {"active", "paused"} : LateWrite(s)
        PROVE  Left' = Left
    <3>1. UNCHANGED <<inbox, at, iteration>>
      BY <2>3 DEF SaveMessage, CloseSession, SignalComplete, AttemptTimesOut, LateWrite
    <3>2. QED
      BY <3>1 DEF Left, Rounds, AwaitsLeft
  <2>4. QED
    BY <2>1, <2>2, <2>3 DEF Next, RunsDown
<1>3. QED
  BY <1>1, <1>2, InvariantInit, InvariantStep, PTL DEF Spec

=============================================================================
