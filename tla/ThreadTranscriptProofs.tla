------------------------ MODULE ThreadTranscriptProofs ------------------------
(***************************************************************************)
(* Proofs about ThreadTranscript for any bounds and any number of given-up *)
(* activities: how far the tokens of a session may exceed its limit; that  *)
(* the page stops saying that the assistant works; that the model is sent  *)
(* every tool call with its result; that the page shows no tool call with  *)
(* another's result nor, at rest, as unfinished, where the events of its   *)
(* calls were recorded once and no message came between; and that a turn   *)
(* runs down, whatever the activities it is made of do.                    *)
(***************************************************************************)
EXTENDS ThreadTranscript, SequenceTheorems, WellFoundedInduction, FiniteSetTheorems, TLAPS

-----------------------------------------------------------------------------
(* The inductive invariant of the budget. *)

\* An activity given up is yet to save the row, or may charge once.
Excused == faults - stale

\* Every save granted the limit anew.
Granted == TokenLimit * landed

\* What was charged before the last save, and what every call that was given up
\* may still charge, is within what was granted before it.
Spent == wiped + MaxTokens * owed <= Granted + MaxTokens * Excused

\* The same of all that was charged, with the limit in force and one call.
Reserved ==
  tokens + wiped + MaxTokens * owed
    < TokenLimit + Granted + MaxTokens * Excused + MaxTokens

IInv ==
  /\ tokens \in Nat /\ owed \in Nat /\ faults \in Nat
  /\ stale \in Nat /\ landed \in Nat /\ wiped \in Nat
  /\ stale <= faults
  /\ TokenLimit > 0 => Spent /\ Reserved

-----------------------------------------------------------------------------
(* Charges. *)

LEMMA OneMore == \A m, k \in Nat : m * k \in Nat /\ m * (k + 1) = m * k + m
OBVIOUS

LEMMA Monotone == \A m, j, k \in Nat : j <= k => m * j <= m * k
<1> SUFFICES ASSUME NEW m \in Nat, NEW j \in Nat, NEW k \in Nat, j <= k PROVE m * j <= m * k
  OBVIOUS
<1> DEFINE d == k - j
<1>1. d \in Nat /\ k = j + d
  OBVIOUS
<1> HIDE DEF d
<1>2. m * k = m * j + m * d /\ m * d \in Nat /\ m * j \in Nat
  BY <1>1
<1>3. QED
  BY <1>2

\* The products of the invariant are numbers.
LEMMA Products ==
  ASSUME IInv
  PROVE  /\ TokenLimit \in Nat /\ MaxTokens \in Nat /\ MaxTokens > 0
         /\ Excused \in Nat /\ Excused <= faults
         /\ Granted \in Nat
         /\ MaxTokens * owed \in Nat /\ MaxTokens * Excused \in Nat
<1>1. TokenLimit \in Nat /\ MaxTokens \in Nat /\ MaxTokens > 0
  BY BoundsAssumption
<1>2. Excused \in Nat /\ Excused <= faults
  BY DEF IInv, Excused
<1>3. Granted \in Nat
  BY <1>1, OneMore DEF IInv, Granted
<1>4. MaxTokens * owed \in Nat /\ MaxTokens * Excused \in Nat
  BY <1>1, <1>2, OneMore DEF IInv
<1>5. QED
  BY <1>1, <1>2, <1>3, <1>4

\* Nothing is charged, and of the faults at most one is an attempt to charge.
LEMMA NotCharged ==
  ASSUME IInv, UNCHANGED <<tokens, stale, landed, wiped>>,
         \/ owed' = owed /\ faults' \in {faults, faults + 1}
         \/ owed' = owed + 1 /\ faults' = faults + 1
  PROVE  IInv'
<1>1. /\ tokens' \in Nat /\ owed' \in Nat /\ faults' \in Nat
      /\ stale' \in Nat /\ landed' \in Nat /\ wiped' \in Nat /\ stale' <= faults'
  BY DEF IInv
<1>2. ASSUME TokenLimit > 0 PROVE Spent' /\ Reserved'
  <2>1. Granted' = Granted
    BY DEF Granted
  <2>2. /\ MaxTokens * (Excused + 1) = MaxTokens * Excused + MaxTokens
        /\ MaxTokens * (owed + 1) = MaxTokens * owed + MaxTokens
    BY Products, OneMore DEF IInv
  <2>3. CASE owed' = owed /\ faults' = faults
    <3>1. Excused' = Excused
      BY <2>3 DEF Excused
    <3>2. QED
      BY <1>2, <2>1, <2>3, <3>1 DEF IInv, Spent, Reserved
  <2>4. CASE faults' = faults + 1
    <3>1. Excused' = Excused + 1
      BY <2>4 DEF Excused, IInv
    <3>2. MaxTokens * Excused' = MaxTokens * Excused + MaxTokens
      BY <2>2, <3>1
    <3>3. MaxTokens * owed' \in {MaxTokens * owed, MaxTokens * owed + MaxTokens}
      BY <2>2
    <3>4. QED
      BY <1>2, <2>1, <3>2, <3>3, Products DEF IInv, Spent, Reserved
  <2>5. QED
    BY <2>3, <2>4
<1>3. QED
  BY <1>1, <1>2 DEF IInv

LEMMA InitInv == Init => IInv
<1> SUFFICES ASSUME Init PROVE IInv
  OBVIOUS
<1>1. /\ tokens = 0 /\ owed = 0 /\ landed = 0 /\ wiped = 0
      /\ stale \in Nat /\ faults = stale
  BY BoundsAssumption DEF Init
<1>2. MaxTokens \in Nat /\ MaxTokens > 0 /\ TokenLimit \in Nat
  BY BoundsAssumption
<1>3. Excused = 0
  BY <1>1 DEF Excused
<1>4. MaxTokens * owed = 0 /\ MaxTokens * Excused = 0 /\ Granted = 0
  BY <1>1, <1>2, <1>3 DEF Granted
<1>5. Spent /\ (TokenLimit > 0 => Reserved)
  BY <1>1, <1>2, <1>4 DEF Spent, Reserved
<1>6. QED
  BY <1>1, <1>5 DEF IInv

\* call_llm charges what it used, after a pre-check that found the limit not reached.
LEMMA AskStep ==
  ASSUME IInv, Ask
  PROVE  IInv'
<1>1. PICK n \in 1..MaxTokens : tokens' = tokens + n
  BY DEF Ask
<1>2. UNCHANGED <<owed, stale, landed, wiped, faults>> /\ ~OverBudget
  BY DEF Ask, TurnStep
<1>3. n \in Nat /\ n <= MaxTokens
  BY BoundsAssumption
<1>4. Excused' = Excused /\ Granted' = Granted /\ MaxTokens * owed' = MaxTokens * owed
      /\ MaxTokens * Excused' = MaxTokens * Excused
  BY <1>2 DEF Excused, Granted
<1>5. ASSUME TokenLimit > 0 PROVE Spent' /\ Reserved'
  <2>1. tokens < TokenLimit
    BY <1>2, <1>5, BoundsAssumption DEF IInv, OverBudget
  <2>2. Spent
    BY <1>5 DEF IInv
  <2>3. QED
    BY <1>1, <1>2, <1>3, <1>4, <2>1, <2>2, Products DEF IInv, Spent, Reserved
<1>6. QED
  BY <1>1, <1>2, <1>3, <1>5 DEF IInv

\* A given-up attempt charges what was reserved for it.
LEMMA LateChargeStep ==
  ASSUME IInv, LateCharge
  PROVE  IInv'
<1>1. PICK n \in 1..MaxTokens : tokens' = tokens + n
  BY DEF LateCharge
<1>2. owed > 0 /\ owed' = owed - 1 /\ UNCHANGED <<stale, landed, wiped, faults>>
  BY DEF LateCharge
<1>3. n \in Nat /\ n <= MaxTokens /\ owed' \in Nat /\ owed = owed' + 1
  BY <1>2, BoundsAssumption DEF IInv
<1>4. Excused' = Excused /\ Granted' = Granted /\ MaxTokens * Excused' = MaxTokens * Excused
  BY <1>2 DEF Excused, Granted
<1>5. ASSUME TokenLimit > 0 PROVE Spent' /\ Reserved'
  <2>1. MaxTokens * owed = MaxTokens * owed' + MaxTokens /\ MaxTokens * owed' \in Nat
    BY <1>3, OneMore, BoundsAssumption
  <2>2. Spent /\ Reserved
    BY <1>5 DEF IInv
  <2>3. QED
    BY <1>1, <1>2, <1>3, <1>4, <2>1, <2>2, Products DEF IInv, Spent, Reserved
<1>6. QED
  BY <1>1, <1>2, <1>3, <1>5 DEF IInv

\* A save of the row grants the limit that was in force.
LEMMA LateInitializeStep ==
  ASSUME IInv, LateInitialize
  PROVE  IInv'
<1>1. /\ stale > 0 /\ stale' = stale - 1 /\ landed' = landed + 1
      /\ wiped' = wiped + tokens /\ tokens' = 0 /\ owed' = owed /\ faults' = faults
  BY DEF LateInitialize
<1>2. Excused' = Excused + 1
  BY <1>1 DEF Excused, IInv
<1>3. MaxTokens * Excused' = MaxTokens * Excused + MaxTokens
  BY <1>2, Products, OneMore
<1>4. Granted' = Granted + TokenLimit
  BY <1>1, Products, OneMore DEF Granted, IInv
<1>5. MaxTokens * owed' = MaxTokens * owed
  BY <1>1
<1>6. ASSUME TokenLimit > 0 PROVE Spent' /\ Reserved'
  BY <1>1, <1>3, <1>4, <1>5, <1>6, Products DEF IInv, Spent, Reserved
<1>7. QED
  BY <1>1, <1>6 DEF IInv

-----------------------------------------------------------------------------
(* The theorem of the budget. *)

LEMMA NextInv == IInv /\ [Next]_vars => IInv'
<1> SUFFICES ASSUME IInv, [Next]_vars PROVE IInv'
  OBVIOUS
<1>1. CASE SaveMessage \/ SignalMessage \/ Write \/ LateWrite
  <2>1. UNCHANGED <<sessionVars, faults>>
    BY <1>1 DEF SaveMessage, SignalMessage, Write, LateWrite
  <2>2. QED
    BY <2>1, NotCharged DEF sessionVars
<1>2. CASE Take \/ BuildContext \/ Iterate \/ CannotAsk \/ RunTools \/ Answer
  <2>1. UNCHANGED <<sessionVars, faults>>
    BY <1>2 DEF Take, BuildContext, Iterate, CannotAsk, RunTools, Answer, TurnStep
  <2>2. QED
    BY <2>1, NotCharged DEF sessionVars
<1>3. CASE GiveUp \/ GiveUpAsk
  <2>1. /\ UNCHANGED <<tokens, stale, landed, wiped>> /\ faults' = faults + 1
        /\ owed' \in {owed, owed + 1}
    BY <1>3 DEF GiveUp, GiveUpAsk, Fault, sessionVars
  <2>2. QED
    BY <2>1, NotCharged DEF sessionVars
<1>4. CASE Ask
  BY <1>4, AskStep
<1>5. CASE LateCharge
  BY <1>5, LateChargeStep
<1>6. CASE LateInitialize
  BY <1>6, LateInitializeStep
<1>7. CASE UNCHANGED vars
  <2>1. UNCHANGED <<sessionVars, faults>>
    BY <1>7 DEF vars
  <2>2. QED
    BY <2>1, NotCharged DEF sessionVars
<1>8. QED
  BY <1>1, <1>2, <1>3, <1>4, <1>5, <1>6, <1>7 DEF Next, Turn

\* SessionBudget: however the calls of the model, their timeouts, the charges of
\* the attempts given up and the late saves of the row interleave, what a session
\* is charged exceeds its limit, once more for every such save, by less than the
\* charge of one call, and of every activity given up.
THEOREM Overshoot == Spec => []OvershootBounded
<1>1. IInv => OvershootBounded
  <2> SUFFICES ASSUME IInv, TokenLimit > 0
               PROVE  tokens + wiped < TokenLimit * (1 + landed) + MaxTokens * (1 + faults)
    BY DEF OvershootBounded
  <2>1. Reserved
    BY DEF IInv
  <2>2. TokenLimit * (1 + landed) = TokenLimit + Granted
    BY Products, OneMore DEF Granted, IInv
  <2>3. MaxTokens * (1 + faults) = MaxTokens * faults + MaxTokens /\ MaxTokens * faults \in Nat
    BY Products, OneMore DEF IInv
  <2>4. MaxTokens * Excused <= MaxTokens * faults
    BY Products, Monotone DEF IInv
  <2>5. QED
    BY <2>1, <2>2, <2>3, <2>4, Products DEF IInv, Reserved
<1>2. IInv /\ [Next]_vars => IInv'
  BY NextInv
<1>3. QED
  BY InitInv, <1>1, <1>2, PTL DEF Spec

-----------------------------------------------------------------------------
(* The rows: what an activity writes, and what of it may come late. *)

AllRows == [kind : Messages \cup Events, call : Nat]

Answered == <<Row("answer", 0)>>
Singles == {Think, Answered} \cup {<<Row("started", c)>> : c \in Nat} \cup {<<Row("result", c)>> : c \in Nat}
Activities == Singles \cup {Pair(c) : c \in Nat}
\* An activity given up writes all of its rows late, or the last of two.
Lates == {<<>>} \cup Activities \cup {<<Row("tool", c)>> : c \in Nat}

\* The first activity of todo saves the pair of call c.
Saving(c) == todo # <<>> /\ Head(todo) = Pair(c)

TurnTyped ==
  /\ log \in Seq(AllRows) /\ messages \in Seq(AllRows) /\ context \in Seq(AllRows)
  /\ unsignalled \in Nat /\ pending \in Nat /\ asked \in Nat /\ calls \in Seq(Nat)
  /\ reply \in {"text", "empty"}
  /\ todo \in Seq(Activities) /\ late \in Lates /\ written \in {0, 1}
  /\ written = 1 => \E c \in Nat : Saving(c)
  /\ pc = "wait" => todo \in {<<>>, <<Answered>>}

LEMMA RowKinds ==
  \A k \in Messages \cup Events, c \in Nat :
    Row(k, c) \in AllRows /\ Row(k, c).kind = k /\ Row(k, c).call = c
BY DEF Row, AllRows

LEMMA Pairing ==
  ASSUME NEW c \in Nat
  PROVE  /\ Pair(c) \in Seq(AllRows) /\ Len(Pair(c)) = 2
         /\ Pair(c)[1] = Row("call", c) /\ Pair(c)[2] = Row("tool", c)
         /\ Head(Pair(c)) = Row("call", c) /\ Tail(Pair(c)) = <<Row("tool", c)>>
         /\ \A d \in Nat : Pair(c) = Pair(d) => c = d
<1>1. Row("call", c) \in AllRows /\ Row("tool", c) \in AllRows
  BY RowKinds DEF Messages
<1>2. \A d \in Nat : Pair(d)[1] = Row("call", d) /\ Row("call", d).call = d
  BY RowKinds DEF Pair, Messages
<1>3. Pair(c) \in Seq(AllRows) /\ Len(Pair(c)) = 2 /\ Pair(c)[1] = Row("call", c)
      /\ Pair(c)[2] = Row("tool", c) /\ Head(Pair(c)) = Row("call", c)
  BY <1>1 DEF Pair
<1>4. Tail(Pair(c)) = <<Row("tool", c)>>
  BY <1>1 DEF Pair
<1>5. ASSUME NEW d \in Nat, Pair(c) = Pair(d) PROVE c = d
  BY <1>2, <1>5
<1>6. QED
  BY <1>3, <1>4, <1>5

LEMMA Single ==
  ASSUME NEW a \in Singles
  PROVE  /\ a \in Seq(AllRows) /\ Len(a) = 1 /\ Tail(a) = <<>> /\ Head(a) = a[1] /\ a = <<a[1]>>
         /\ a[1].kind \in {"thinking", "answer", "started", "result"}
         /\ a[1].kind = "answer" <=> a = Answered
         /\ \A c \in Nat : a # Pair(c) /\ a # <<Row("tool", c)>>
<1>1. PICK k \in {"thinking", "answer", "started", "result"}, c \in Nat :
        a = <<Row(k, c)>> /\ (k = "answer" => c = 0)
  BY DEF Singles, Think, Answered
<1>2. Row(k, c) \in AllRows /\ Row(k, c).kind = k
  BY RowKinds DEF Messages, Events
<1>3. \A d \in Nat : Len(Pair(d)) = 2 /\ <<Row("tool", d)>>[1].kind = "tool"
  BY Pairing, RowKinds DEF Messages
<1>4. Row("answer", 0).kind = "answer"
  BY RowKinds DEF Messages
<1>5. Answered[1].kind = "answer"
  BY <1>4 DEF Answered
<1>6. /\ a \in Seq(AllRows) /\ Len(a) = 1 /\ Tail(a) = <<>> /\ Head(a) = a[1] /\ a[1] = Row(k, c)
      /\ a = <<a[1]>>
  BY <1>1, <1>2
<1>7. a[1].kind = "answer" <=> a = Answered
  BY <1>1, <1>2, <1>5, <1>6 DEF Answered
<1>8. \A d \in Nat : a # Pair(d) /\ a # <<Row("tool", d)>>
  BY <1>1, <1>2, <1>3, <1>6
<1>9. QED
  BY <1>1, <1>2, <1>6, <1>7, <1>8

\* What Write writes: the row of a single, the call of a pair, its result.
LEMMA Written ==
  ASSUME TurnTyped, Write
  PROVE  \E row \in AllRows :
           /\ Create(row)
           /\ UNCHANGED <<unsignalled, pending, pc, context, calls, reply, asked, late>>
           /\ \/ /\ row.kind \in {"thinking", "answer", "started", "result"}
                 /\ row.kind = "answer" <=> Head(todo) = Answered
                 /\ Head(todo) = <<row>> /\ \A c \in Nat : ~Saving(c)
                 /\ todo' = Tail(todo) /\ written' = 0
              \/ \E c \in Nat : /\ Saving(c) /\ row = Row("call", c) /\ written = 0
                                /\ todo' = todo /\ written' = 1
              \/ \E c \in Nat : /\ Saving(c) /\ row = Row("tool", c) /\ written = 1
                                /\ todo' = Tail(todo) /\ written' = 0
<1>1. /\ todo # <<>> /\ Create(Head(todo)[written + 1])
      /\ IF written + 1 = Len(Head(todo))
           THEN todo' = Tail(todo) /\ written' = 0
           ELSE written' = written + 1 /\ todo' = todo
      /\ UNCHANGED <<unsignalled, pending, pc, context, calls, reply, asked, late>>
  BY DEF Write, userVars, turnVars
<1>2. Head(todo) \in Activities
  BY <1>1 DEF TurnTyped
<1>3. CASE Head(todo) \in Singles
  <2>1. /\ Len(Head(todo)) = 1 /\ Head(todo)[1] \in AllRows
        /\ Head(todo)[1].kind \in {"thinking", "answer", "started", "result"}
        /\ Head(todo)[1].kind = "answer" <=> Head(todo) = Answered
        /\ Head(todo) = <<Head(todo)[1]>> /\ \A c \in Nat : Head(todo) # Pair(c)
    BY <1>3, Single
  <2>2. written = 0
    BY <2>1 DEF TurnTyped, Saving
  <2>3. QED
    BY <1>1, <2>1, <2>2 DEF Saving
<1>4. CASE \E c \in Nat : Head(todo) = Pair(c)
  <2>1. PICK c \in Nat : Head(todo) = Pair(c)
    BY <1>4
  <2>2. /\ Len(Head(todo)) = 2 /\ Head(todo)[1] = Row("call", c) /\ Head(todo)[2] = Row("tool", c)
        /\ Row("call", c) \in AllRows /\ Row("tool", c) \in AllRows /\ Saving(c)
    BY <1>1, <2>1, Pairing, RowKinds DEF Saving, Messages
  <2>3. CASE written = 0
    BY <1>1, <2>2, <2>3
  <2>4. CASE written = 1
    BY <1>1, <2>2, <2>4
  <2>5. QED
    BY <2>3, <2>4 DEF TurnTyped
<1>5. QED
  BY <1>2, <1>3, <1>4 DEF Activities

LEMMA WrittenLate ==
  ASSUME TurnTyped, LateWrite
  PROVE  \E row \in AllRows :
           /\ Create(row)
           /\ UNCHANGED <<unsignalled, pending, pc, context, calls, reply, asked, todo, written>>
           /\ \/ /\ row.kind \in {"thinking", "answer", "started", "result"}
                 /\ late = <<row>> /\ late' = <<>>
              \/ \E c \in Nat : late = Pair(c) /\ row = Row("call", c) /\ late' = <<Row("tool", c)>>
              \/ \E c \in Nat : late = <<Row("tool", c)>> /\ row = Row("tool", c) /\ late' = <<>>
<1>1. /\ late # <<>> /\ Create(Head(late)) /\ late' = Tail(late)
      /\ UNCHANGED <<unsignalled, pending, pc, context, calls, reply, asked, todo, written>>
  BY DEF LateWrite, userVars, turnVars
<1>2. CASE late \in Singles
  <2>1. Head(late) = late[1] /\ Tail(late) = <<>> /\ late[1] \in AllRows /\ late = <<late[1]>>
        /\ late[1].kind \in {"thinking", "answer", "started", "result"}
    BY <1>2, Single
  <2>2. QED
    BY <1>1, <2>1
<1>3. CASE \E c \in Nat : late = Pair(c)
  <2>1. PICK c \in Nat : late = Pair(c)
    BY <1>3
  <2>2. /\ Head(late) = Row("call", c) /\ Tail(late) = <<Row("tool", c)>> /\ Row("call", c) \in AllRows
    BY <2>1, Pairing, RowKinds DEF Messages
  <2>3. QED
    BY <1>1, <2>1, <2>2
<1>4. CASE \E c \in Nat : late = <<Row("tool", c)>>
  <2>1. PICK c \in Nat : late = <<Row("tool", c)>>
    BY <1>4
  <2>2. Row("tool", c) \in AllRows
    BY RowKinds DEF Messages
  <2>3. Head(late) = Row("tool", c) /\ Tail(late) = <<>>
    BY <2>1, <2>2
  <2>4. QED
    BY <1>1, <2>1, <2>2, <2>3
<1>5. QED
  BY <1>1, <1>2, <1>3, <1>4 DEF TurnTyped, Lates, Activities

\* What is left of an activity that is given up.
LEMMA GivenUp ==
  ASSUME TurnTyped, GiveUp
  PROVE  /\ UNCHANGED <<tables, unsignalled, pending, pc, context, calls, reply, asked, todo>>
         /\ late' \in Lates /\ written' = 0
         /\ \/ written = 0 /\ todo # <<>> /\ late' = Head(todo)
            \/ \E c \in Nat : written = 1 /\ Saving(c) /\ late' = <<Row("tool", c)>>
<1>1. /\ todo # <<>> /\ late' = SubSeq(Head(todo), written + 1, Len(Head(todo))) /\ written' = 0
      /\ UNCHANGED <<tables, unsignalled, pending, pc, context, calls, reply, asked, todo>>
  BY DEF GiveUp, userVars, turnVars
<1>2. Head(todo) \in Activities
  BY <1>1 DEF TurnTyped
<1>3. Head(todo) \in Seq(AllRows)
  BY <1>2, Single, Pairing DEF Activities
<1>4. CASE written = 0
  <2>1. late' = Head(todo)
    BY <1>1, <1>3, <1>4, SubSeqFull
  <2>2. QED
    BY <1>1, <1>2, <1>4, <2>1 DEF Lates
<1>5. CASE written = 1
  <2>1. PICK c \in Nat : Saving(c)
    BY <1>5 DEF TurnTyped
  <2>2. Row("call", c) \in AllRows /\ Row("tool", c) \in AllRows
    BY RowKinds DEF Messages
  <2>3. late' = SubSeq(Pair(c), 2, 2)
    BY <1>1, <1>5, <2>1, Pairing DEF Saving
  <2>4. late' = <<Row("tool", c)>>
    <3> DEFINE s == SubSeq(Pair(c), 2, 2)
    <3>1. Pair(c)[2] = Row("tool", c)
      BY Pairing
    <3>2. \A i \in 2..2 : Pair(c)[i] \in AllRows
      BY <2>2, <3>1
    <3>3. s \in Seq(AllRows) /\ Len(s) = 1 /\ s[1] = Pair(c)[2]
      BY <3>2, SubSeqProperties
    <3> HIDE DEF s
    <3>4. s = <<Row("tool", c)>>
      BY <2>2, <3>1, <3>3
    <3>5. QED
      BY <2>3, <3>4 DEF s
  <2>5. QED
    BY <1>1, <1>5, <2>1, <2>4 DEF Lates
<1>6. QED
  BY <1>4, <1>5 DEF TurnTyped

-----------------------------------------------------------------------------
(* The types. *)

LEMMA Halves ==
  ASSUME NEW n \in Nat, NEW i \in 1..(2 * n)
  PROVE  /\ i % 2 \in {0, 1}
         /\ i % 2 = 1 => (i + 1) \div 2 \in 1..n /\ i = 2 * ((i + 1) \div 2) - 1
         /\ i % 2 = 0 => i \div 2 \in 1..n /\ i = 2 * (i \div 2)
OBVIOUS

LEMMA FunctionSeq ==
  ASSUME NEW S, NEW n \in Nat, NEW f \in [1..n -> S]
  PROVE  f \in Seq(S) /\ Len(f) = n
OBVIOUS

LEMMA TurnActivities ==
  ASSUME NEW cs \in Seq(Nat)
  PROVE  /\ Announced(cs) \in Seq(Activities) /\ Reported(cs) \in Seq(Activities)
         /\ Pairs(cs) \in Seq(AllRows) /\ Len(Pairs(cs)) = 2 * Len(cs)
<1> DEFINE n == 2 * Len(cs)
<1>1. Len(cs) \in Nat /\ n \in Nat
  OBVIOUS
<1>2. Think \in Activities
  BY DEF Activities, Singles
<1>3. ASSUME NEW c \in Nat
      PROVE  /\ <<Row("started", c)>> \in Activities /\ <<Row("result", c)>> \in Activities
             /\ Pair(c) \in Activities
             /\ Row("call", c) \in AllRows /\ Row("tool", c) \in AllRows
  BY RowKinds DEF Activities, Singles, Messages
<1>4. ASSUME NEW i \in 1..n
      PROVE  /\ i % 2 = 1 => cs[(i + 1) \div 2] \in Nat
             /\ i % 2 # 1 => cs[i \div 2] \in Nat
  BY <1>1, Halves
<1>5. \A i \in 1..n : Announced(cs)[i] \in Activities
  BY <1>2, <1>3, <1>4 DEF Announced
<1>6. \A i \in 1..n : Reported(cs)[i] \in Activities
  BY <1>3, <1>4 DEF Reported
<1>7. \A i \in 1..n : Pairs(cs)[i] \in AllRows
  BY <1>3, <1>4 DEF Pairs
<1>8. Announced(cs) \in [1..n -> Activities]
  BY <1>5 DEF Announced
<1>9. Reported(cs) \in [1..n -> Activities]
  BY <1>6 DEF Reported
<1>10. Pairs(cs) \in [1..n -> AllRows]
  BY <1>7 DEF Pairs
<1>11. n = 2 * Len(cs)
  OBVIOUS
<1> HIDE DEF n
<1>12. /\ Announced(cs) \in Seq(Activities) /\ Reported(cs) \in Seq(Activities)
       /\ Pairs(cs) \in Seq(AllRows) /\ Len(Pairs(cs)) = n
  BY <1>1, <1>8, <1>9, <1>10, FunctionSeq
<1>13. QED
  BY <1>11, <1>12

LEMMA CreateTyped ==
  ASSUME TurnTyped, NEW row \in AllRows, Create(row)
  PROVE  log' \in Seq(AllRows) /\ messages' \in Seq(AllRows)
BY DEF TurnTyped, Create

LEMMA TurnTypeInit == Init => TurnTyped
BY DEF Init, TurnTyped, Lates

LEMMA TurnTypeStep == TurnTyped /\ [Next]_vars => TurnTyped'
<1> SUFFICES ASSUME TurnTyped, [Next]_vars PROVE TurnTyped'
  OBVIOUS
<1>1. CASE SaveMessage
  <2>1. PICK row \in AllRows : Create(row)
    BY <1>1, RowKinds DEF SaveMessage, Messages
  <2>2. QED
    BY <1>1, <2>1, CreateTyped
       DEF SaveMessage, TurnTyped, turnVars, recordVars, Saving
<1>2. CASE SignalMessage
  BY <1>2 DEF SignalMessage, TurnTyped, turnVars, recordVars, tables, Saving
<1>3. CASE Write
  <2>1. PICK row \in AllRows :
          /\ Create(row)
          /\ UNCHANGED <<unsignalled, pending, pc, context, calls, reply, asked, late>>
          /\ todo # <<>> /\ todo' \in {todo, Tail(todo)}
          /\ \/ written' = 0
             \/ written' = 1 /\ \E c \in Nat : Saving(c) /\ todo' = todo
    BY <1>3, Written DEF Write
  <2>2. pc = "wait" => todo' = <<>> \/ todo' = todo
    BY <2>1 DEF TurnTyped
  <2>3. todo' \in Seq(Activities)
    BY <2>1, HeadTailProperties DEF TurnTyped
  <2>4. QED
    BY <2>1, <2>2, <2>3, CreateTyped DEF TurnTyped, Saving
<1>4. CASE GiveUp
  BY <1>4, GivenUp DEF TurnTyped, tables
<1>5. CASE LateWrite
  <2>1. PICK row \in AllRows :
          /\ Create(row)
          /\ UNCHANGED <<unsignalled, pending, pc, context, calls, reply, asked, todo, written>>
          /\ late' \in Lates
    BY <1>5, WrittenLate DEF Lates
  <2>2. QED
    BY <2>1, CreateTyped DEF TurnTyped, Saving
<1>6. CASE Take
  BY <1>6 DEF Take, TurnTyped, At, Goto, TurnStep, tables, Saving
<1>7. CASE BuildContext
  BY <1>7 DEF BuildContext, TurnTyped, At, Goto, TurnStep, tables, Saving
<1>8. CASE Iterate
  <2>1. <<Think>> \in Seq(Activities)
    BY DEF Activities, Singles
  <2>2. QED
    BY <1>8, <2>1 DEF Iterate, TurnTyped, At, Goto, TurnStep, tables, Saving
<1>9. CASE CannotAsk
  BY <1>9 DEF CannotAsk, TurnTyped, At, Goto, TurnStep, tables, Saving
<1>10. CASE Ask
  <2>1. /\ todo = <<>> /\ UNCHANGED <<pending, context, log, messages, unsignalled, written, late>>
        /\ \/ /\ reply' \in {"text", "empty"} /\ pc' = "answer" /\ todo' = <<>>
              /\ UNCHANGED <<calls, asked>>
           \/ /\ UNCHANGED reply /\ pc' = "tools" /\ todo' = Announced(calls')
              /\ \E n \in 1..MaxCalls :
                   asked' = asked + n /\ calls' = [k \in 1..n |-> asked + k]
    BY <1>10, Zenon DEF Ask, At, Goto, TurnStep, tables
  <2>2. calls' \in Seq(Nat) /\ asked' \in Nat
    <3>1. ASSUME NEW n \in 1..MaxCalls, asked' = asked + n, calls' = [k \in 1..n |-> asked + k]
          PROVE  calls' \in Seq(Nat) /\ asked' \in Nat
      BY <3>1, BoundsAssumption, IsASeq DEF TurnTyped
    <3>2. QED
      BY <2>1, <3>1 DEF TurnTyped
  <2>3. todo' \in Seq(Activities)
    <3>1. Announced(calls') \in Seq(Activities)
      BY <2>2, TurnActivities
    <3>2. <<>> \in Seq(Activities)
      OBVIOUS
    <3>3. QED
      BY <2>1, <3>1, <3>2, Zenon
  <2>4. QED
    BY <2>1, <2>2, <2>3 DEF TurnTyped, Saving
<1>11. CASE RunTools
  <2>1. /\ todo = <<>> /\ pc' = "check" /\ context' = context \o Pairs(calls)
        /\ todo' = Append(Reported(calls), Think)
        /\ UNCHANGED <<log, messages, unsignalled, written, late, pending, calls, reply, asked>>
    BY <1>11 DEF RunTools, At, Goto, TurnStep, tables
  <2>2. todo' \in Seq(Activities) /\ context' \in Seq(AllRows)
    <3>1. calls \in Seq(Nat) /\ context \in Seq(AllRows)
      BY DEF TurnTyped
    <3>2. Reported(calls) \in Seq(Activities) /\ Pairs(calls) \in Seq(AllRows)
      BY <3>1, TurnActivities
    <3>3. Think \in Activities
      BY DEF Activities, Singles
    <3>4. Append(Reported(calls), Think) \in Seq(Activities)
      BY <3>2, <3>3, AppendProperties
    <3>5. context \o Pairs(calls) \in Seq(AllRows)
      BY <3>1, <3>2, ConcatProperties
    <3>6. QED
      BY <2>1, <3>4, <3>5
  <2>3. QED
    BY <2>1, <2>2 DEF TurnTyped, Saving
<1>12. CASE Answer
  <2>1. <<Answered>> \in Seq(Activities)
    BY DEF Activities, Singles
  <2>2. QED
    BY <1>12, <2>1 DEF Answer, TurnTyped, At, Goto, TurnStep, tables, Saving, Answered
<1>13. CASE GiveUpAsk \/ LateCharge \/ LateInitialize \/ UNCHANGED vars
  BY <1>13 DEF GiveUpAsk, LateCharge, LateInitialize, vars, TurnTyped, turnVars, recordVars,
               userVars, tables, Saving
<1>14. QED
  BY <1>1, <1>2, <1>3, <1>4, <1>5, <1>6, <1>7, <1>8, <1>9, <1>10, <1>11, <1>12, <1>13
     DEF Next, Turn

-----------------------------------------------------------------------------
(* Progress on the page. *)

\* While nothing says otherwise, the last message of the user has its answer: if it
\* has not, a message is on its way, a turn or its last activity is under way, or the
\* model had nothing to say.
Told ==
  \A i \in Users : (\A j \in Users : j <= i) =>
    \/ unsignalled > 0 \/ pending > 0 \/ pc # "wait" \/ todo # <<>> \/ reply = "empty"
    \/ \E j \in DOMAIN log : j > i /\ log[j].kind = "answer"

\* A row that is not the user's leaves its messages where they are.
LEMMA Added ==
  ASSUME log \in Seq(AllRows), NEW row \in AllRows, Create(row)
  PROVE  /\ Len(log') = Len(log) + 1 /\ log'[Len(log) + 1] = row
         /\ \A i \in DOMAIN log : i \in DOMAIN log' /\ log'[i] = log[i]
         /\ row.kind # "user" => Users' = Users
<1>1. log' = Append(log, row)
  BY DEF Create
<1>2. /\ Len(log') = Len(log) + 1 /\ log'[Len(log) + 1] = row
      /\ DOMAIN log = 1..Len(log) /\ DOMAIN log' = 1..(Len(log) + 1)
      /\ \A i \in 1..Len(log) : log'[i] = log[i]
  BY <1>1, AppendProperties
<1>3. row.kind # "user" => Users' = Users
  BY <1>2 DEF Users
<1>4. QED
  BY <1>2, <1>3

LEMMA ToldAdded ==
  ASSUME TurnTyped, Told, NEW row \in AllRows, Create(row), row.kind # "user",
         UNCHANGED <<unsignalled, pending, pc, reply>>,
         todo' = todo \/ pc # "wait" \/ row.kind = "answer"
  PROVE  Told'
<1>1. /\ Len(log') = Len(log) + 1 /\ log'[Len(log) + 1] = row /\ Users' = Users
      /\ \A i \in DOMAIN log : i \in DOMAIN log' /\ log'[i] = log[i]
  BY Added DEF TurnTyped
<1>2. /\ DOMAIN log = 1..Len(log) /\ Len(log) \in Nat /\ DOMAIN log' = 1..(Len(log) + 1)
  BY <1>1, AppendProperties DEF TurnTyped, Create
<1> SUFFICES ASSUME NEW i \in Users, \A j \in Users : j <= i
             PROVE  \/ unsignalled > 0 \/ pending > 0 \/ pc # "wait" \/ todo' # <<>>
                    \/ reply = "empty"
                    \/ \E j \in DOMAIN log' : j > i /\ log'[j].kind = "answer"
  BY <1>1 DEF Told
<1>3. i \in 1..Len(log)
  BY <1>2 DEF Users
<1>4. CASE row.kind = "answer"
  BY <1>1, <1>2, <1>3, <1>4
<1>5. CASE todo' = todo \/ pc # "wait"
  BY <1>1, <1>5 DEF Told
<1>6. QED
  BY <1>4, <1>5

LEMMA ToldInit == Init => Told
BY DEF Init, Told, Users

LEMMA ToldStep == TurnTyped /\ Told /\ [Next]_vars => Told'
<1> SUFFICES ASSUME TurnTyped, Told, [Next]_vars PROVE Told'
  OBVIOUS
<1>1. CASE SaveMessage
  BY <1>1 DEF SaveMessage, Told, TurnTyped
<1>2. CASE SignalMessage
  BY <1>2 DEF SignalMessage, Told, TurnTyped
<1>3. CASE Write
  <2>1. PICK row \in AllRows :
          /\ Create(row) /\ UNCHANGED <<unsignalled, pending, pc, reply>>
          /\ row.kind # "user" /\ todo # <<>>
          /\ \/ row.kind = "answer" <=> Head(todo) = Answered
             \/ \E c \in Nat : Saving(c)
    BY <1>3, Written, RowKinds DEF Write, Messages
  <2>2. pc # "wait" \/ row.kind = "answer"
    <3>1. ASSUME pc = "wait" PROVE row.kind = "answer"
      <4>1. todo = <<Answered>>
        BY <2>1, <3>1 DEF TurnTyped
      <4>2. Head(todo) = Answered
        BY <4>1
      <4>3. \A c \in Nat : ~Saving(c)
        BY <4>2, Single DEF Saving, Singles
      <4>4. QED
        BY <2>1, <4>2, <4>3
    <3>2. QED
      BY <3>1
  <2>3. QED
    BY <2>1, <2>2, ToldAdded
<1>4. CASE GiveUp
  BY <1>4, GivenUp DEF Told, tables, Users
<1>5. CASE LateWrite
  <2>1. PICK row \in AllRows :
          /\ Create(row) /\ UNCHANGED <<unsignalled, pending, pc, reply, todo>>
          /\ row.kind # "user"
    BY <1>5, WrittenLate, RowKinds DEF Messages
  <2>2. QED
    BY <2>1, ToldAdded
<1>6. CASE Take \/ BuildContext \/ CannotAsk \/ Ask \/ RunTools
  <2>1. pc' # "wait"
    BY <1>6, Zenon DEF Take, BuildContext, CannotAsk, Ask, RunTools, Goto
  <2>2. QED
    BY <2>1 DEF Told
<1>7. CASE Iterate
  <2>1. UNCHANGED <<log, pending>> /\ (pc' # "wait" \/ pending > 0)
    BY <1>7 DEF Iterate, Goto, TurnStep, tables
  <2>2. QED
    BY <2>1 DEF Told
<1>8. CASE Answer
  <2>1. todo' # <<>> \/ reply' = "empty"
    BY <1>8 DEF Answer, Goto, TurnTyped
  <2>2. QED
    BY <2>1 DEF Told
<1>9. CASE GiveUpAsk \/ LateCharge \/ LateInitialize \/ UNCHANGED vars
  <2>1. UNCHANGED <<log, unsignalled, pending, pc, todo, reply>>
    BY <1>9 DEF GiveUpAsk, LateCharge, LateInitialize, vars, turnVars, recordVars, userVars, tables
  <2>2. QED
    BY <2>1 DEF Told, Users
<1>10. QED
  BY <1>1, <1>2, <1>3, <1>4, <1>5, <1>6, <1>7, <1>8, <1>9 DEF Next, Turn

\* _build_assistant_progress: when the workflow waits for the user, the page does not
\* say that it works, whatever was interrupted, retried or written late.
THEOREM ProgressTold == Spec => []ProgressEnds
<1>1. Init => TurnTyped /\ Told
  BY TurnTypeInit, ToldInit
<1>2. TurnTyped /\ Told /\ [Next]_vars => (TurnTyped /\ Told)'
  BY TurnTypeStep, ToldStep
<1>3. TurnTyped /\ Told => ProgressEnds
  BY DEF TurnTyped, Told, ProgressEnds, AtRest, Working
<1>4. QED
  BY <1>1, <1>2, <1>3, PTL DEF Spec

-----------------------------------------------------------------------------
(* Tool calls and their results, in the rows and in the context. *)

Recorded(row) == \E i \in DOMAIN messages : messages[i] = row
Newest(row) == messages # <<>> /\ messages[Len(messages)] = row

\* A tool call is followed by its result, or is the newest message while its pair is
\* saved, and a result follows its tool call.
PairAt(i) ==
  /\ messages[i].kind = "call" =>
       \/ i < Len(messages) /\ messages[i + 1] = Row("tool", messages[i].call)
       \/ i = Len(messages) /\ Saving(messages[i].call)
  /\ messages[i].kind = "tool" =>
       i > 1 /\ messages[i - 1] = Row("call", messages[i].call)
Followed == \A i \in DOMAIN messages : PairAt(i)

\* Where an attempt, or a late one, is between the rows of a pair.
Attempted ==
  \A c \in Nat :
    /\ written = 1 /\ Saving(c) => Recorded(Row("tool", c)) \/ Newest(Row("call", c))
    /\ late = <<Row("tool", c)>> => Recorded(Row("tool", c)) \/ Newest(Row("call", c))
    /\ late = Pair(c) => Saving(c) \/ Recorded(Row("call", c))

Disturbed == Split \/ Repeated
Paired == Disturbed \/ (Followed /\ Attempted)

\* The messages once a row is appended.
LEMMA Appended ==
  ASSUME TurnTyped, NEW row \in AllRows, messages' = Append(messages, row)
  PROVE  /\ messages \in Seq(AllRows) /\ messages' \in Seq(AllRows)
         /\ Len(messages) \in Nat /\ Len(messages') = Len(messages) + 1
         /\ DOMAIN messages = 1..Len(messages) /\ DOMAIN messages' = 1..(Len(messages) + 1)
         /\ \A i \in 1..Len(messages) : messages'[i] = messages[i]
         /\ messages'[Len(messages) + 1] = row
         /\ \A r : Recorded(r)' <=> Recorded(r) \/ r = row
         /\ \A r : Newest(r)' <=> r = row
<1>1. messages \in Seq(AllRows)
  BY DEF TurnTyped
<1>2. /\ messages' \in Seq(AllRows) /\ messages' # <<>> /\ Len(messages) \in Nat
      /\ Len(messages') = Len(messages) + 1
      /\ DOMAIN messages = 1..Len(messages) /\ DOMAIN messages' = 1..(Len(messages) + 1)
      /\ \A i \in 1..Len(messages) : messages'[i] = messages[i]
      /\ messages'[Len(messages) + 1] = row
  BY <1>1, AppendProperties
<1>3. \A r : Recorded(r)' <=> Recorded(r) \/ r = row
  BY <1>2 DEF Recorded
<1>4. \A r : Newest(r)' <=> r = row
  BY <1>2 DEF Newest
<1>5. QED
  BY <1>1, <1>2, <1>3, <1>4

\* What disturbs the pairs does not go away.
LEMMA DisturbedStays ==
  ASSUME TurnTyped, NEW row \in AllRows, messages' = Append(messages, row)
  PROVE  Disturbed => Disturbed'
<1>1. Repeated => Repeated'
  BY Appended DEF Repeated
<1>2. ASSUME Split PROVE Split'
  <2>1. PICK i \in DOMAIN messages, k \in DOMAIN messages :
          /\ k < i /\ messages[k].kind = "call" /\ messages[i].kind \in {"user", "answer"}
          /\ \A j \in 1..i : messages[j] # Row("tool", messages[k].call)
    BY <1>2 DEF Split
  <2>2. /\ i \in DOMAIN messages' /\ k \in DOMAIN messages'
        /\ messages'[i] = messages[i] /\ messages'[k] = messages[k]
        /\ \A j \in 1..i : messages'[j] = messages[j]
    BY Appended
  <2>3. QED
    BY <2>1, <2>2 DEF Split
<1>3. QED
  BY <1>1, <1>2 DEF Disturbed

\* A row of a pair that is saved again is a repetition.
LEMMA NotYet ==
  ASSUME TurnTyped, NEW row \in AllRows, messages' = Append(messages, row),
         ~Disturbed', row.kind \in {"call", "tool"}
  PROVE  ~Recorded(row)
<1> SUFFICES ASSUME NEW i \in DOMAIN messages, messages[i] = row PROVE Repeated'
  BY DEF Recorded, Disturbed
<1>1. /\ i \in DOMAIN messages' /\ Len(messages) + 1 \in DOMAIN messages'
      /\ i # Len(messages) + 1 /\ messages'[i] = row /\ messages'[Len(messages) + 1] = row
  BY Appended
<1>2. QED
  BY <1>1 DEF Repeated

\* A message of the user or an answer comes when no pair is half saved.
LEMMA NoneOpen ==
  ASSUME TurnTyped, NEW row \in AllRows, messages' = Append(messages, row),
         ~Disturbed', row.kind \in {"user", "answer"}, NEW c \in Nat, Recorded(Row("call", c))
  PROVE  Recorded(Row("tool", c))
<1> SUFFICES ASSUME ~Recorded(Row("tool", c)) PROVE Split'
  BY DEF Disturbed
<1>1. PICK k \in DOMAIN messages : messages[k] = Row("call", c)
  BY DEF Recorded
<1>2. /\ Row("call", c).kind = "call" /\ Row("call", c).call = c
      /\ Row("tool", c).kind = "tool"
  BY RowKinds DEF Messages
<1> DEFINE n == Len(messages) + 1
<1>3. /\ n \in DOMAIN messages' /\ k \in DOMAIN messages' /\ k < n
      /\ messages'[k] = Row("call", c) /\ messages'[n] = row
      /\ \A j \in 1..n : j = n \/ (j \in DOMAIN messages /\ messages'[j] = messages[j])
  BY <1>1, Appended
<1>4. \A j \in 1..n : messages'[j] # Row("tool", c)
  BY <1>2, <1>3 DEF Recorded
<1> HIDE DEF n
<1>5. QED
  BY <1>2, <1>3, <1>4 DEF Split

\* Without repetition, a recorded result closes its pair.
LEMMA Closed ==
  ASSUME TurnTyped, Followed, ~Disturbed, NEW c \in Nat, Recorded(Row("tool", c))
  PROVE  ~Newest(Row("call", c)) /\ Recorded(Row("call", c))
<1>1. PICK i \in DOMAIN messages : messages[i] = Row("tool", c)
  BY DEF Recorded
<1>2. i > 1 /\ messages[i - 1] = Row("call", c)
  <2>1. Row("tool", c).kind = "tool" /\ Row("tool", c).call = c
    BY RowKinds DEF Messages
  <2>2. QED
    BY <1>1, <2>1, Zenon DEF Followed, PairAt
<1>3. DOMAIN messages = 1..Len(messages) /\ Len(messages) \in Nat
  BY DEF TurnTyped
<1>4. i - 1 \in DOMAIN messages /\ i - 1 # Len(messages)
  BY <1>1, <1>2, <1>3
<1>5. ASSUME Newest(Row("call", c)) PROVE FALSE
  <2>1. Len(messages) \in DOMAIN messages /\ messages[Len(messages)] = messages[i - 1]
    BY <1>2, <1>3, <1>4, <1>5 DEF Newest
  <2>2. messages[i - 1].kind = "call"
    BY <1>2, RowKinds DEF Messages
  <2>3. Repeated
    BY <1>4, <2>1, <2>2 DEF Repeated
  <2>4. QED
    BY <2>3 DEF Disturbed
<1>6. QED
  BY <1>2, <1>4, <1>5 DEF Recorded

\* The newest message is a tool call only while its pair is saved.
LEMMA NewestSaved ==
  ASSUME TurnTyped, Followed, NEW c \in Nat, Newest(Row("call", c))
  PROVE  Saving(c) /\ Recorded(Row("call", c))
<1>1. Len(messages) \in DOMAIN messages /\ messages[Len(messages)] = Row("call", c)
  BY DEF Newest, TurnTyped
<1>2. QED
  BY <1>1, RowKinds DEF Followed, PairAt, Messages, Recorded

LEMMA OneSaved == \A c, d \in Nat : Saving(c) /\ Saving(d) => c = d
BY Pairing DEF Saving

LEMMA IsCall ==
  ASSUME TurnTyped, NEW i \in DOMAIN messages
  PROVE  /\ messages[i] \in AllRows /\ messages[i].call \in Nat
         /\ messages[i].kind = "call" => messages[i] = Row("call", messages[i].call)
<1>1. messages \in Seq(AllRows)
  BY DEF TurnTyped
<1>2. messages[i] \in AllRows
  BY <1>1
<1>3. QED
  BY <1>2 DEF AllRows, Row

\* Where the pairs are, given where they were and that no more is attempted.
LEMMA AsBefore ==
  ASSUME TurnTyped, Paired, UNCHANGED messages,
         \A c \in Nat :
           /\ written' = 1 /\ Saving(c)' => written = 1 /\ Saving(c)
           /\ late' = <<Row("tool", c)>> => late = <<Row("tool", c)>>
           /\ late' = Pair(c) => late = Pair(c)
           /\ Saving(c) => Saving(c)'
  PROVE  Paired'
<1>1. Disturbed => Disturbed'
  BY DEF Disturbed, Split, Repeated
<1>2. ASSUME Followed PROVE Followed'
  <2>1. \A i \in DOMAIN messages : messages[i].call \in Nat
    BY IsCall
  <2>2. QED
    BY <1>2, <2>1 DEF Followed, PairAt
<1>3. \A r : (Recorded(r)' <=> Recorded(r)) /\ (Newest(r)' <=> Newest(r))
  BY DEF Recorded, Newest
<1>4. Attempted => Attempted'
  BY <1>3 DEF Attempted
<1>5. QED
  BY <1>1, <1>2, <1>4 DEF Paired

LEMMA NoneNewest ==
  ASSUME TurnTyped, Followed, ~Disturbed, NEW row \in AllRows, messages' = Append(messages, row),
         ~Disturbed', row.kind \in {"user", "answer"}, NEW c \in Nat
  PROVE  ~Newest(Row("call", c))
<1> SUFFICES ASSUME Newest(Row("call", c)) PROVE FALSE
  OBVIOUS
<1>1. Recorded(Row("call", c))
  BY NewestSaved
<1>2. Recorded(Row("tool", c))
  BY <1>1, NoneOpen
<1>3. QED
  BY <1>2, Closed

\* A message of the user, or an answer, leaves the pairs as they are.
LEMMA OtherSaved ==
  ASSUME TurnTyped, Paired, NEW row \in AllRows, messages' = Append(messages, row),
         row.kind \in {"user", "answer"},
         \A c \in Nat :
           /\ written' = 1 /\ Saving(c)' => written = 1 /\ Saving(c)
           /\ late' = <<Row("tool", c)>> => late = <<Row("tool", c)>>
           /\ late' = Pair(c) => late = Pair(c)
           /\ Saving(c) => Saving(c)'
  PROVE  Paired'
<1> SUFFICES ASSUME ~Disturbed' PROVE Followed' /\ Attempted'
  BY DEF Paired
<1>1. ~Disturbed /\ Followed /\ Attempted
  BY DisturbedStays DEF Paired
<1>2. \A c \in Nat : ~Newest(Row("call", c))
  BY <1>1, NoneNewest
<1>3. Followed'
  <2> SUFFICES ASSUME NEW i \in DOMAIN messages' PROVE PairAt(i)'
    BY DEF Followed
  <2>0. CASE i = Len(messages) + 1
    BY <2>0, Appended DEF PairAt
  <2> SUFFICES ASSUME i # Len(messages) + 1 PROVE PairAt(i)'
    BY <2>0
  <2>1. i \in 1..Len(messages) /\ i \in DOMAIN messages /\ messages'[i] = messages[i]
    BY Appended
  <2>2. CASE messages[i].kind = "call"
    <3>1. messages[i].call \in Nat /\ messages[i] = Row("call", messages[i].call)
      BY <2>1, <2>2, IsCall
    <3>2. i # Len(messages)
      BY <1>2, <2>1, <3>1, Appended DEF Newest
    <3>3. i + 1 \in 1..Len(messages) /\ messages[i + 1] = Row("tool", messages[i].call)
      BY <1>1, <2>1, <2>2, <3>2, Appended DEF Followed, PairAt
    <3>4. QED
      BY <2>1, <2>2, <3>3, Appended DEF PairAt
  <2>3. CASE messages[i].kind = "tool"
    <3>1. i > 1 /\ messages[i - 1] = Row("call", messages[i].call)
      BY <1>1, <2>1, <2>3 DEF Followed, PairAt
    <3>2. i - 1 \in 1..Len(messages)
      BY <2>1, <3>1, Appended
    <3>3. QED
      BY <2>1, <2>3, <3>1, <3>2, Appended DEF PairAt
  <2>4. QED
    BY <2>1, <2>2, <2>3 DEF PairAt
<1>4. Attempted'
  BY <1>1, <1>2, Appended DEF Attempted
<1>5. QED
  BY <1>3, <1>4

\* The tool call of a pair that is being saved opens it.
LEMMA CallSaved ==
  ASSUME TurnTyped, Followed, NEW c \in Nat, messages' = Append(messages, Row("call", c)),
         ~Recorded(Row("call", c)), Saving(c), Saving(c)'
  PROVE  Followed'
<1>1. /\ Row("call", c) \in AllRows /\ Row("call", c).kind = "call" /\ Row("call", c).call = c
  BY RowKinds DEF Messages
<1> SUFFICES ASSUME NEW i \in DOMAIN messages' PROVE PairAt(i)'
  BY DEF Followed
<1>2. CASE i = Len(messages) + 1
  BY <1>1, <1>2, Appended DEF PairAt
<1>3. CASE i # Len(messages) + 1
  <2>1. i \in 1..Len(messages) /\ i \in DOMAIN messages /\ messages'[i] = messages[i]
    BY <1>1, <1>3, Appended
  <2>2. CASE messages[i].kind = "call"
    <3>1. messages[i].call \in Nat /\ messages[i] = Row("call", messages[i].call)
      BY <2>1, <2>2, IsCall
    <3>2. ASSUME i = Len(messages), Saving(messages[i].call) PROVE FALSE
      <4>1. messages[i].call = c
        BY <3>1, <3>2, OneSaved
      <4>2. QED
        BY <2>1, <3>1, <4>1 DEF Recorded
    <3>3. i + 1 \in 1..Len(messages) /\ messages[i + 1] = Row("tool", messages[i].call)
      BY <1>1, <2>1, <2>2, <3>2, Appended DEF Followed, PairAt
    <3>4. QED
      BY <1>1, <2>1, <2>2, <3>3, Appended DEF PairAt
  <2>3. CASE messages[i].kind = "tool"
    <3>1. i > 1 /\ messages[i - 1] = Row("call", messages[i].call)
      BY <2>1, <2>3 DEF Followed, PairAt
    <3>2. i - 1 \in 1..Len(messages)
      BY <1>1, <2>1, <3>1, Appended
    <3>3. QED
      BY <1>1, <2>1, <2>3, <3>1, <3>2, Appended DEF PairAt
  <2>4. QED
    BY <2>1, <2>2, <2>3 DEF PairAt
<1>4. QED
  BY <1>2, <1>3

\* Its result, right after it, closes it.
LEMMA ResultSaved ==
  ASSUME TurnTyped, Followed, NEW c \in Nat, messages' = Append(messages, Row("tool", c)),
         Newest(Row("call", c))
  PROVE  Followed'
<1>1. /\ Row("tool", c) \in AllRows /\ Row("tool", c).kind = "tool" /\ Row("tool", c).call = c
      /\ Row("call", c).call = c
  BY RowKinds DEF Messages
<1>2. Len(messages) > 0 /\ messages[Len(messages)] = Row("call", c)
  BY DEF Newest, TurnTyped
<1> SUFFICES ASSUME NEW i \in DOMAIN messages' PROVE PairAt(i)'
  BY DEF Followed
<1>3. CASE i = Len(messages) + 1
  <2>1. messages'[i] = Row("tool", c) /\ i - 1 = Len(messages) /\ i - 1 \in 1..Len(messages)
    BY <1>1, <1>2, <1>3, Appended
  <2>2. messages'[i - 1] = Row("call", c)
    BY <1>1, <1>2, <2>1, Appended
  <2>3. QED
    BY <1>1, <2>1, <2>2 DEF PairAt
<1>4. CASE i = Len(messages)
  <2>1. messages'[i] = Row("call", c)
    BY <1>1, <1>2, <1>4, Appended
  <2>2. messages'[i + 1] = Row("tool", c) /\ i < Len(messages')
    BY <1>1, <1>4, Appended
  <2>3. messages'[i].kind # "tool"
    BY <2>1, RowKinds DEF Messages
  <2>4. QED
    BY <1>1, <2>1, <2>2, <2>3 DEF PairAt
<1>5. CASE i # Len(messages) + 1 /\ i # Len(messages)
  <2>1. /\ i \in 1..Len(messages) /\ i \in DOMAIN messages /\ messages'[i] = messages[i]
        /\ i + 1 \in 1..Len(messages) /\ messages'[i + 1] = messages[i + 1]
    BY <1>1, <1>5, Appended
  <2>2. CASE messages[i].kind = "call"
    BY <1>1, <1>5, <2>1, <2>2, Appended DEF Followed, PairAt
  <2>3. CASE messages[i].kind = "tool"
    <3>1. i > 1 /\ messages[i - 1] = Row("call", messages[i].call)
      BY <2>1, <2>3 DEF Followed, PairAt
    <3>2. i - 1 \in 1..Len(messages)
      BY <1>1, <2>1, <3>1, Appended
    <3>3. QED
      BY <1>1, <2>1, <2>3, <3>1, <3>2, Appended DEF PairAt
  <2>4. QED
    BY <2>1, <2>2, <2>3 DEF PairAt
<1>6. QED
  BY <1>3, <1>4, <1>5

LEMMA RestDiffers ==
  \A c, d \in Nat :
    /\ Pair(c) # <<Row("tool", d)>> /\ Pair(c) # <<>> /\ <<Row("tool", d)>> # <<>>
    /\ <<Row("tool", c)>> = <<Row("tool", d)>> => c = d
    /\ Row("call", c) = Row("call", d) => c = d
<1> SUFFICES ASSUME NEW c \in Nat, NEW d \in Nat
             PROVE  /\ Pair(c) # <<Row("tool", d)>> /\ Pair(c) # <<>> /\ <<Row("tool", d)>> # <<>>
                    /\ <<Row("tool", c)>> = <<Row("tool", d)>> => c = d
                    /\ Row("call", c) = Row("call", d) => c = d
  OBVIOUS
<1>1. Len(Pair(c)) = 2
  BY Pairing
<1>2. <<Row("tool", c)>>[1].call = c /\ <<Row("tool", d)>>[1].call = d
      /\ Row("call", c).call = c /\ Row("call", d).call = d
  BY RowKinds DEF Messages
<1>3. <<Row("tool", c)>> = <<Row("tool", d)>> => c = d
  BY <1>2, Zenon
<1>4. Row("call", c) = Row("call", d) => c = d
  BY <1>2, Zenon
<1>5. QED
  BY <1>1, <1>3, <1>4

LEMMA PairedInit == Init => Paired
BY RestDiffers DEF Init, Paired, Followed, Attempted, Saving

LEMMA PairedWrite ==
  ASSUME TurnTyped, Paired, Write
  PROVE  Paired'
<1>1. PICK row \in AllRows :
        /\ Create(row) /\ late' = late /\ written \in {0, 1}
        /\ \/ /\ row.kind \in {"thinking", "answer", "started", "result"}
              /\ \A c \in Nat : ~Saving(c)
              /\ written' = 0
           \/ \E c \in Nat : /\ Saving(c) /\ row = Row("call", c) /\ written = 0
                             /\ todo' = todo /\ written' = 1
           \/ \E c \in Nat : /\ Saving(c) /\ row = Row("tool", c) /\ written = 1 /\ written' = 0
  BY Written DEF TurnTyped
<1>2. CASE /\ row.kind \in {"thinking", "started", "result"} /\ written' = 0
           /\ \A c \in Nat : ~Saving(c)
  <2>1. messages' = messages
    BY <1>1, <1>2 DEF Create, Messages
  <2>2. QED
    BY <1>1, <1>2, <2>1, AsBefore
<1>3. CASE row.kind = "answer" /\ written' = 0 /\ \A c \in Nat : ~Saving(c)
  <2>1. messages' = Append(messages, row)
    BY <1>1, <1>3 DEF Create, Messages
  <2>2. QED
    BY <1>1, <1>3, <2>1, OtherSaved
<1>4. ASSUME NEW c \in Nat, Saving(c), row = Row("call", c), todo' = todo, written' = 1
      PROVE  Paired'
  <2>1. row.kind = "call" /\ messages' = Append(messages, row)
    BY <1>1, <1>4, RowKinds DEF Create, Messages
  <2> SUFFICES ASSUME ~Disturbed' PROVE Followed' /\ Attempted'
    BY DEF Paired
  <2>2. ~Disturbed /\ Followed /\ Attempted /\ ~Recorded(Row("call", c))
    BY <1>4, <2>1, DisturbedStays, NotYet DEF Paired
  <2>3. \A d \in Nat : Saving(d)' <=> Saving(d)
    BY <1>4 DEF Saving
  <2>4. Followed'
    BY <1>4, <2>1, <2>2, <2>3, CallSaved
  <2>5. \A d \in Nat : ~Newest(Row("call", d))
    BY <1>4, <2>2, NewestSaved, OneSaved
  <2>6. Newest(Row("call", c))' /\ \A r : Recorded(r) => Recorded(r)'
    BY <1>4, <2>1, Appended
  <2>7. Attempted'
    BY <1>1, <1>4, <2>2, <2>3, <2>5, <2>6, OneSaved DEF Attempted
  <2>8. QED
    BY <2>4, <2>7
<1>5. ASSUME NEW c \in Nat, Saving(c), row = Row("tool", c), written = 1, written' = 0
      PROVE  Paired'
  <2>1. row.kind = "tool" /\ messages' = Append(messages, row)
    BY <1>1, <1>5, RowKinds DEF Create, Messages
  <2> SUFFICES ASSUME ~Disturbed' PROVE Followed' /\ Attempted'
    BY DEF Paired
  <2>2. ~Disturbed /\ Followed /\ Attempted /\ ~Recorded(Row("tool", c))
    BY <1>5, <2>1, DisturbedStays, NotYet DEF Paired
  <2>3. Newest(Row("call", c))
    BY <1>5, <2>2 DEF Attempted
  <2>4. Followed'
    BY <1>5, <2>1, <2>2, <2>3, ResultSaved
  <2>5. \A r : Recorded(r)' <=> Recorded(r) \/ r = row
    BY <2>1, Appended
  <2>6. \A d \in Nat : Newest(Row("call", d)) => d = c
    BY <1>5, <2>2, NewestSaved, OneSaved
  <2>7. \A d \in Nat : Saving(d) => Recorded(Row("call", d))
    BY <1>5, <2>2, <2>3, NewestSaved, OneSaved
  <2>8. Attempted'
    BY <1>1, <1>5, <2>2, <2>5, <2>6, <2>7 DEF Attempted
  <2>9. QED
    BY <2>4, <2>8
<1>6. QED
  BY <1>1, <1>2, <1>3, <1>4, <1>5

LEMMA PairedLateWrite ==
  ASSUME TurnTyped, Paired, LateWrite
  PROVE  Paired'
<1>1. PICK row \in AllRows :
        /\ Create(row) /\ todo' = todo /\ written' = written
        /\ \/ row.kind \in {"thinking", "answer", "started", "result"} /\ late' = <<>>
           \/ \E c \in Nat : late = Pair(c) /\ row = Row("call", c) /\ late' = <<Row("tool", c)>>
           \/ \E c \in Nat : late = <<Row("tool", c)>> /\ row = Row("tool", c) /\ late' = <<>>
  BY WrittenLate
<1>2. \A d \in Nat : Saving(d)' <=> Saving(d)
  BY <1>1 DEF Saving
<1>3. CASE row.kind \in {"thinking", "started", "result"} /\ late' = <<>>
  <2>1. messages' = messages
    BY <1>1, <1>3 DEF Create, Messages
  <2>2. QED
    BY <1>1, <1>2, <1>3, <2>1, AsBefore, RestDiffers
<1>4. CASE row.kind = "answer" /\ late' = <<>>
  <2>1. messages' = Append(messages, row)
    BY <1>1, <1>4 DEF Create, Messages
  <2>2. QED
    BY <1>1, <1>2, <1>4, <2>1, OtherSaved, RestDiffers
<1>5. ASSUME NEW c \in Nat, late = Pair(c), row = Row("call", c), late' = <<Row("tool", c)>>
      PROVE  Paired'
  <2>1. row.kind = "call" /\ messages' = Append(messages, row)
    BY <1>1, <1>5, RowKinds DEF Create, Messages
  <2> SUFFICES ASSUME ~Disturbed' PROVE Followed' /\ Attempted'
    BY DEF Paired
  <2>2. ~Disturbed /\ Followed /\ Attempted /\ ~Recorded(Row("call", c))
    BY <1>5, <2>1, DisturbedStays, NotYet DEF Paired
  <2>3. Saving(c)
    BY <1>5, <2>2 DEF Attempted
  <2>4. Followed'
    BY <1>2, <1>5, <2>1, <2>2, <2>3, CallSaved
  <2>5. Newest(Row("call", c))'
    BY <1>5, <2>1, Appended
  <2>6. Attempted'
    BY <1>2, <1>5, <2>3, <2>5, OneSaved, RestDiffers DEF Attempted
  <2>7. QED
    BY <2>4, <2>6
<1>6. ASSUME NEW c \in Nat, late = <<Row("tool", c)>>, row = Row("tool", c), late' = <<>>
      PROVE  Paired'
  <2>1. row.kind = "tool" /\ messages' = Append(messages, row)
    BY <1>1, <1>6, RowKinds DEF Create, Messages
  <2> SUFFICES ASSUME ~Disturbed' PROVE Followed' /\ Attempted'
    BY DEF Paired
  <2>2. ~Disturbed /\ Followed /\ Attempted /\ ~Recorded(Row("tool", c))
    BY <1>6, <2>1, DisturbedStays, NotYet DEF Paired
  <2>3. Newest(Row("call", c))
    BY <1>6, <2>2 DEF Attempted
  <2>4. Followed'
    BY <1>6, <2>1, <2>2, <2>3, ResultSaved
  <2>5. \A r : Recorded(r)' <=> Recorded(r) \/ r = row
    BY <2>1, Appended
  <2>6. Saving(c)
    BY <2>2, <2>3, NewestSaved
  <2>7. Attempted'
    BY <1>1, <1>2, <1>6, <2>2, <2>5, <2>6, OneSaved, RestDiffers DEF Attempted
  <2>8. QED
    BY <2>4, <2>7
<1>7. QED
  BY <1>1, <1>3, <1>4, <1>5, <1>6

LEMMA PairedGiveUp ==
  ASSUME TurnTyped, Paired, GiveUp
  PROVE  Paired'
<1>1. /\ messages' = messages /\ todo' = todo /\ written' = 0
      /\ \/ todo # <<>> /\ late' = Head(todo)
         \/ \E c \in Nat : written = 1 /\ Saving(c) /\ late' = <<Row("tool", c)>>
  BY GivenUp DEF tables
<1>2. /\ Disturbed => Disturbed'
      /\ Followed => Followed'
      /\ \A r : (Recorded(r)' <=> Recorded(r)) /\ (Newest(r)' <=> Newest(r))
      /\ \A c \in Nat : Saving(c)' <=> Saving(c)
  <2>1. Disturbed => Disturbed'
    BY <1>1 DEF Disturbed, Split, Repeated
  <2>2. \A c : Saving(c)' <=> Saving(c)
    BY <1>1 DEF Saving
  <2>3. Followed => Followed'
    BY <1>1, <2>2 DEF Followed, PairAt
  <2>4. \A r : (Recorded(r)' <=> Recorded(r)) /\ (Newest(r)' <=> Newest(r))
    BY <1>1 DEF Recorded, Newest
  <2>5. QED
    BY <2>1, <2>2, <2>3, <2>4
<1>3. ASSUME Attempted PROVE Attempted'
  <2>1. CASE todo # <<>> /\ late' = Head(todo)
    <3>1. late' \in Activities
      BY <2>1 DEF TurnTyped
    <3>2. \A c \in Nat : late' # <<Row("tool", c)>>
      BY <3>1, Single, RestDiffers DEF Activities
    <3>3. \A c \in Nat : late' = Pair(c) => Saving(c)
      BY <2>1 DEF Saving
    <3>4. QED
      BY <1>1, <1>2, <3>2, <3>3 DEF Attempted
  <2>2. CASE \E c \in Nat : written = 1 /\ Saving(c) /\ late' = <<Row("tool", c)>>
    <3>1. PICK c \in Nat : written = 1 /\ Saving(c) /\ late' = <<Row("tool", c)>>
      BY <2>2
    <3>2. Recorded(Row("tool", c)) \/ Newest(Row("call", c))
      BY <1>3, <3>1 DEF Attempted
    <3>3. QED
      BY <1>1, <1>2, <3>1, <3>2, RestDiffers DEF Attempted
  <2>3. QED
    BY <1>1, <2>1, <2>2
<1>4. QED
  BY <1>2, <1>3 DEF Paired

LEMMA PairedStep == TurnTyped /\ Paired /\ [Next]_vars => Paired'
<1> SUFFICES ASSUME TurnTyped, Paired, [Next]_vars PROVE Paired'
  OBVIOUS
<1>1. CASE SaveMessage
  <2>1. /\ Row("user", 0) \in AllRows /\ Row("user", 0).kind = "user"
        /\ messages' = Append(messages, Row("user", 0))
        /\ UNCHANGED <<todo, written, late>>
    BY <1>1, RowKinds DEF SaveMessage, Create, Messages, recordVars
  <2>2. \A c \in Nat : Saving(c)' <=> Saving(c)
    BY <2>1 DEF Saving
  <2>3. QED
    BY <2>1, <2>2, OtherSaved
<1>2. CASE Write \/ LateWrite \/ GiveUp
  BY <1>2, PairedWrite, PairedLateWrite, PairedGiveUp
<1>3. CASE Turn
  <2>1. UNCHANGED <<messages, written, late>> /\ todo = <<>>
    BY <1>3 DEF Turn, Take, BuildContext, Iterate, CannotAsk, Ask, RunTools, Answer, At,
                TurnStep, tables
  <2>2. written = 0 /\ \A c \in Nat : ~Saving(c)
    BY <2>1 DEF TurnTyped, Saving
  <2>3. QED
    BY <2>1, <2>2, AsBefore
<1>4. CASE SignalMessage \/ GiveUpAsk \/ LateCharge \/ LateInitialize \/ UNCHANGED vars
  <2>1. UNCHANGED <<messages, todo, written, late>>
    BY <1>4 DEF SignalMessage, GiveUpAsk, LateCharge, LateInitialize, vars, tables, recordVars
  <2>2. \A c \in Nat : Saving(c)' <=> Saving(c)
    BY <2>1 DEF Saving
  <2>3. QED
    BY <2>1, <2>2, AsBefore
<1>5. QED
  BY <1>1, <1>2, <1>3, <1>4 DEF Next

-----------------------------------------------------------------------------
(* What the model is sent. *)

Sent == pc \in {"check", "ask", "tools"} => Matched(context) \/ Disturbed

\* The tool calls of a reply, added with their results, keep the context matched.
LEMMA PairsMatched ==
  ASSUME NEW rows \in Seq(AllRows), NEW cs \in Seq(Nat), Matched(rows)
  PROVE  Matched(rows \o Pairs(cs))
<1> DEFINE all == rows \o Pairs(cs)
           n == Len(rows)
           m == 2 * Len(cs)
<1>1. /\ Len(cs) \in Nat /\ n \in Nat /\ m \in Nat /\ Len(Pairs(cs)) = m
      /\ Pairs(cs) \in Seq(AllRows) /\ DOMAIN rows = 1..n
  BY TurnActivities
<1>2. /\ DOMAIN all = 1..(n + m) /\ Len(all) = n + m
      /\ \A i \in 1..n : all[i] = rows[i]
      /\ \A j \in 1..m : all[n + j] = Pairs(cs)[j]
  BY <1>1
<1>3. ASSUME NEW j \in 1..m
      PROVE  \/ /\ j % 2 = 1 /\ j < m
                /\ \E c \in Nat : Pairs(cs)[j] = Row("call", c) /\ Pairs(cs)[j + 1] = Row("tool", c)
             \/ /\ j % 2 = 0 /\ j > 1
                /\ \E c \in Nat : Pairs(cs)[j] = Row("tool", c) /\ Pairs(cs)[j - 1] = Row("call", c)
  <2>1. CASE j % 2 = 1
    <3> DEFINE k == (j + 1) \div 2
    <3>1. k \in 1..Len(cs) /\ j = 2 * k - 1
      BY <1>1, <2>1, Halves
    <3> HIDE DEF k
    <3>2. j + 1 \in 1..m /\ (j + 1) % 2 # 1 /\ (j + 1) \div 2 = k /\ cs[k] \in Nat
      BY <1>1, <3>1
    <3>3. Pairs(cs)[j] = Row("call", cs[k])
      BY <1>1, <2>1, <3>1 DEF Pairs, k
    <3>4. Pairs(cs)[j + 1] = Row("tool", cs[k])
      BY <1>1, <3>2 DEF Pairs
    <3>5. QED
      BY <1>1, <2>1, <3>2, <3>3, <3>4
  <2>2. CASE j % 2 = 0
    <3> DEFINE k == j \div 2
    <3>1. k \in 1..Len(cs) /\ j = 2 * k
      BY <1>1, <2>2, Halves
    <3> HIDE DEF k
    <3>2. j - 1 \in 1..m /\ (j - 1) % 2 = 1 /\ ((j - 1) + 1) \div 2 = k /\ cs[k] \in Nat
      BY <1>1, <3>1
    <3>3. Pairs(cs)[j] = Row("tool", cs[k])
      BY <1>1, <2>2, <3>1 DEF Pairs, k
    <3>4. Pairs(cs)[j - 1] = Row("call", cs[k])
      BY <1>1, <3>2 DEF Pairs
    <3>5. QED
      BY <1>1, <2>2, <3>2, <3>3, <3>4
  <2>3. QED
    BY <1>1, <2>1, <2>2, Halves
<1> HIDE DEF all, n, m
<1>4. \A c \in Nat : /\ Row("call", c).kind = "call" /\ Row("call", c).call = c
                     /\ Row("tool", c).kind = "tool" /\ Row("tool", c).call = c
  BY RowKinds DEF Messages
<1>5. ASSUME NEW i \in 1..(n + m)
      PROVE  /\ all[i].kind = "call" => i < n + m /\ all[i + 1] = Row("tool", all[i].call)
             /\ all[i].kind = "tool" => i > 1 /\ all[i - 1] = Row("call", all[i].call)
  <2>1. CASE i \in 1..n
    <3>1. /\ rows[i].kind = "call" => i < n /\ rows[i + 1] = Row("tool", rows[i].call)
          /\ rows[i].kind = "tool" => i > 1 /\ rows[i - 1] = Row("call", rows[i].call)
      BY <1>1, <2>1 DEF Matched, n
    <3>2. i < n => i + 1 \in 1..n
      BY <1>1, <2>1
    <3>3. i > 1 => i - 1 \in 1..n
      BY <1>1, <2>1
    <3>4. i < n => i < n + m
      BY <1>1, <2>1
    <3>5. QED
      BY <1>2, <2>1, <3>1, <3>2, <3>3, <3>4
  <2>2. CASE i \notin 1..n
    <3> DEFINE j == i - n
    <3>1. j \in 1..m /\ i = n + j /\ i + 1 = n + (j + 1) /\ i - 1 = n + (j - 1)
      BY <1>1, <2>2
    <3> HIDE DEF j
    <3>2. all[i] = Pairs(cs)[j]
      BY <1>2, <3>1
    <3>3. ASSUME NEW c \in Nat, j < m, Pairs(cs)[j] = Row("call", c),
                 Pairs(cs)[j + 1] = Row("tool", c)
          PROVE  /\ all[i].kind = "call" /\ i < n + m
                 /\ all[i + 1] = Row("tool", all[i].call)
      <4>1. j + 1 \in 1..m /\ i < n + m
        BY <1>1, <3>1, <3>3
      <4>2. all[i + 1] = Row("tool", c)
        BY <1>2, <3>1, <3>3, <4>1
      <4>3. QED
        BY <1>4, <3>2, <3>3, <4>1, <4>2
    <3>4. ASSUME NEW c \in Nat, j > 1, Pairs(cs)[j] = Row("tool", c),
                 Pairs(cs)[j - 1] = Row("call", c)
          PROVE  /\ all[i].kind = "tool" /\ i > 1
                 /\ all[i - 1] = Row("call", all[i].call)
      <4>1. j - 1 \in 1..m /\ i > 1
        BY <1>1, <3>1, <3>4
      <4>2. all[i - 1] = Row("call", c)
        BY <1>2, <3>1, <3>4, <4>1
      <4>3. QED
        BY <1>4, <3>2, <3>4, <4>1, <4>2
    <3>5. QED
      BY <1>3, <3>1, <3>3, <3>4
  <2>3. QED
    BY <2>1, <2>2
<1>6. Matched(all)
  BY <1>2, <1>5 DEF Matched
<1>7. QED
  BY <1>6 DEF all

LEMMA SentInit == Init => Sent
BY DEF Init, Sent

LEMMA SentStep == TurnTyped /\ Paired /\ Sent /\ [Next]_vars => Sent'
<1> SUFFICES ASSUME TurnTyped, Paired, Sent, [Next]_vars PROVE Sent'
  OBVIOUS
<1>1. CASE SaveMessage \/ Write \/ LateWrite
  <2>1. UNCHANGED <<pc, context>> /\ \E row \in AllRows : Create(row)
    <3>1. Row("user", 0) \in AllRows
      BY RowKinds DEF Messages
    <3>2. QED
      BY <1>1, <3>1, Written, WrittenLate DEF SaveMessage, turnVars
  <2>2. Disturbed => Disturbed'
    <3>1. PICK row \in AllRows : Create(row)
      BY <2>1
    <3>2. CASE messages' = Append(messages, row)
      BY <3>2, DisturbedStays
    <3>3. CASE messages' = messages
      BY <3>3 DEF Disturbed, Split, Repeated
    <3>4. QED
      BY <3>1, <3>2, <3>3 DEF Create
  <2>3. QED
    BY <2>1, <2>2 DEF Sent
<1>2. CASE SignalMessage \/ GiveUp \/ GiveUpAsk \/ LateCharge \/ LateInitialize \/ UNCHANGED vars
  <2>1. UNCHANGED <<messages, pc, context>>
    BY <1>2 DEF SignalMessage, GiveUp, GiveUpAsk, LateCharge, LateInitialize, vars, tables, turnVars
  <2>2. QED
    BY <2>1 DEF Sent, Disturbed, Split, Repeated
<1>3. CASE Turn
  <2>1. messages' = messages /\ todo = <<>>
    BY <1>3 DEF Turn, Take, BuildContext, Iterate, CannotAsk, Ask, RunTools, Answer, At,
                TurnStep, tables
  <2>2. Disturbed => Disturbed'
    BY <2>1 DEF Disturbed, Split, Repeated
  <2>3. CASE Take \/ CannotAsk \/ Answer
    <3>1. pc' \notin {"check", "ask", "tools"}
      BY <2>3 DEF Take, CannotAsk, Answer, Goto
    <3>2. QED
      BY <3>1 DEF Sent
  <2>4. CASE BuildContext
    <3>1. context' = messages
      BY <2>4 DEF BuildContext
    <3>2. ASSUME Followed PROVE Matched(messages)
      <4>1. \A i \in DOMAIN messages : messages[i].call \in Nat
        BY IsCall
      <4>2. QED
        BY <2>1, <3>2, <4>1 DEF Followed, PairAt, Matched, Saving
    <3>3. QED
      BY <2>2, <3>1, <3>2 DEF Paired, Sent
  <2>5. CASE Iterate \/ Ask
    <3>1. pc \in {"check", "ask"} /\ context' = context
      BY <2>5 DEF Iterate, Ask, At
    <3>2. QED
      BY <2>2, <3>1 DEF Sent
  <2>6. CASE RunTools
    <3>1. pc = "tools" /\ context' = context \o Pairs(calls)
      BY <2>6 DEF RunTools, At
    <3>2. Matched(context) => Matched(context')
      BY <3>1, PairsMatched DEF TurnTyped
    <3>3. QED
      BY <2>2, <3>1, <3>2 DEF Sent
  <2>7. QED
    BY <1>3, <2>3, <2>4, <2>5, <2>6 DEF Turn
<1>4. QED
  BY <1>1, <1>2, <1>3 DEF Next

\* build_llm_context and run: for any number of messages, calls, iterations and
\* given-up activities, what the model is sent pairs every tool call with its result,
\* unless an attempt to save a pair was repeated or a message came between its rows.
THEOREM ContextPaired == Spec => []ContextSound
<1>1. Init => TurnTyped /\ Paired /\ Sent
  BY TurnTypeInit, PairedInit, SentInit
<1>2. TurnTyped /\ Paired /\ Sent /\ [Next]_vars => (TurnTyped /\ Paired /\ Sent)'
  BY TurnTypeStep, PairedStep, SentStep
<1>3. Sent => ContextSound
  BY DEF Sent, Disturbed, ContextSound
<1>4. QED
  BY <1>1, <1>2, <1>3, PTL DEF Spec

-----------------------------------------------------------------------------
(* The events of the tool calls, in the log and to come. *)

Start(c) == Row("started", c)
Result(c) == Row("result", c)

Logged(row) == \E i \in DOMAIN log : log[i] = row
\* An activity that the workflow has yet to finish writes this row alone.
Listed(row) == \E m \in DOMAIN todo : todo[m] = <<row>>
Called(c) == \E k \in DOMAIN calls : calls[k] = c

\* A result is recorded after its call was.
Ordered ==
  \A c \in Nat, p \in DOMAIN log :
    log[p] = Result(c) => \E q \in DOMAIN log : q < p /\ log[q] = Start(c)

\* Where the two events of a call are: the start is recorded before the tools run, and
\* from then on the result is recorded or still to be.
Story ==
  /\ Ordered
  /\ \A c \in Nat :
       /\ Called(c) \/ Logged(Start(c)) \/ late = <<Start(c)>> => c > 0
       /\ Listed(Start(c)) => pc = "tools" /\ Called(c)
       /\ pc = "tools" /\ Called(c) => Logged(Start(c)) \/ Listed(Start(c))
       /\ Listed(Result(c)) \/ late = <<Result(c)>> => Logged(Start(c))
       /\ Logged(Start(c)) \/ late = <<Start(c)>> =>
            Logged(Result(c)) \/ Listed(Result(c)) \/ (pc = "tools" /\ Called(c))

LEMMA EventRows ==
  ASSUME NEW c \in Nat
  PROVE  /\ Start(c) \in AllRows /\ Result(c) \in AllRows
         /\ Start(c).kind = "started" /\ Start(c).call = c
         /\ Result(c).kind = "result" /\ Result(c).call = c
         /\ \A d \in Nat : (Start(c) = Start(d) \/ Result(c) = Result(d)) => c = d
         /\ \A d \in Nat : Start(c) # Result(d)
         /\ \A d \in Nat : <<Start(c)>> # Pair(d) /\ <<Result(c)>> # Pair(d)
                           /\ <<Start(c)>> # <<Row("tool", d)>> /\ <<Result(c)>> # <<Row("tool", d)>>
         /\ <<Start(c)>> # Think /\ <<Result(c)>> # Think
         /\ <<Start(c)>> # Answered /\ <<Result(c)>> # Answered
<1>1. \A k \in Messages \cup Events, d \in Nat :
        Row(k, d) \in AllRows /\ Row(k, d).kind = k /\ Row(k, d).call = d
  BY RowKinds
<1>2. \A d \in Nat : Pair(d)[1] = Row("call", d) /\ Len(Pair(d)) = 2
  BY Pairing
<1>3. {"started", "result", "thinking", "answer", "tool", "call"} \subseteq Messages \cup Events
  BY DEF Messages, Events
<1>4. /\ Start(c) \in AllRows /\ Result(c) \in AllRows
      /\ Start(c).kind = "started" /\ Start(c).call = c
      /\ Result(c).kind = "result" /\ Result(c).call = c
  BY <1>1, <1>3 DEF Start, Result
<1>5. \A d \in Nat : /\ (Start(c) = Start(d) \/ Result(c) = Result(d)) => c = d
                     /\ Start(c) # Result(d)
  BY <1>1, <1>3 DEF Start, Result
<1>6. \A row \in AllRows : <<row>>[1] = row /\ Len(<<row>>) = 1
  OBVIOUS
<1>7. \A d \in Nat : <<Start(c)>> # Pair(d) /\ <<Result(c)>> # Pair(d)
  BY <1>2, <1>4, <1>6
<1>8. ASSUME NEW k \in {"tool", "thinking", "answer"}, NEW d \in Nat
      PROVE  <<Start(c)>> # <<Row(k, d)>> /\ <<Result(c)>> # <<Row(k, d)>>
  BY <1>1, <1>3, <1>4, <1>6
<1>9. QED
  BY <1>4, <1>5, <1>7, <1>8 DEF Think, Answered

\* The log gains one row.
LEMMA LogGains ==
  ASSUME log \in Seq(AllRows), NEW row \in AllRows, Create(row)
  PROVE  /\ DOMAIN log = 1..Len(log) /\ Len(log) \in Nat
         /\ DOMAIN log' = 1..(Len(log) + 1) /\ Len(log') = Len(log) + 1
         /\ log'[Len(log) + 1] = row
         /\ \A i \in DOMAIN log : log'[i] = log[i]
         /\ \A r : Logged(r)' <=> Logged(r) \/ r = row
<1>1. log' = Append(log, row)
  BY DEF Create
<1>2. /\ DOMAIN log = 1..Len(log) /\ Len(log) \in Nat
      /\ DOMAIN log' = 1..(Len(log) + 1) /\ Len(log') = Len(log) + 1
      /\ log'[Len(log) + 1] = row
      /\ \A i \in DOMAIN log : log'[i] = log[i]
  BY <1>1, AppendProperties
<1>3. QED
  BY <1>2 DEF Logged

LEMMA StoryInit == Init => Story
BY DEF Init, Story, Ordered, Logged, Listed, Called

\* A row is written, in its turn or late.
LEMMA StoryAdded ==
  ASSUME TurnTyped, Story, NEW row \in AllRows, Create(row), UNCHANGED <<pc, calls>>,
         \A c \in Nat : /\ Listed(Start(c))' => Listed(Start(c))
                        /\ Listed(Result(c))' => Listed(Result(c))
                        /\ Listed(Start(c)) => Listed(Start(c))' \/ row = Start(c)
                        /\ Listed(Result(c)) => Listed(Result(c))' \/ row = Result(c)
                        /\ late' = <<Start(c)>> => late = <<Start(c)>>
                        /\ late' = <<Result(c)>> => late = <<Result(c)>>
                        /\ row = Start(c) => Listed(Start(c)) \/ late = <<Start(c)>>
                        /\ row = Result(c) => Listed(Result(c)) \/ late = <<Result(c)>>
  PROVE  Story'
<1>1. /\ DOMAIN log = 1..Len(log) /\ Len(log) \in Nat
      /\ DOMAIN log' = 1..(Len(log) + 1)
      /\ log'[Len(log) + 1] = row
      /\ \A i \in DOMAIN log : log'[i] = log[i]
      /\ \A r : Logged(r)' <=> Logged(r) \/ r = row
  BY LogGains DEF TurnTyped
<1>2. Ordered'
  <2> SUFFICES ASSUME NEW c \in Nat, NEW p \in DOMAIN log', log'[p] = Result(c)
               PROVE  \E q \in DOMAIN log' : q < p /\ log'[q] = Start(c)
    BY DEF Ordered
  <2>1. \E q \in DOMAIN log : q < p /\ log[q] = Start(c)
    <3>1. CASE p \in DOMAIN log
      BY <1>1, <3>1 DEF Story, Ordered
    <3>2. CASE p = Len(log) + 1
      <4>1. Logged(Start(c))
        BY <1>1, <3>2 DEF Story
      <4>2. QED
        BY <1>1, <3>2, <4>1 DEF Logged
    <3>3. QED
      BY <1>1, <3>1, <3>2
  <2>2. QED
    BY <1>1, <2>1
<1>3. ASSUME NEW c \in Nat
      PROVE  /\ Called(c)' \/ Logged(Start(c))' \/ late' = <<Start(c)>> => c > 0
             /\ Listed(Start(c))' => pc' = "tools" /\ Called(c)'
             /\ pc' = "tools" /\ Called(c)' => Logged(Start(c))' \/ Listed(Start(c))'
             /\ Listed(Result(c))' \/ late' = <<Result(c)>> => Logged(Start(c))'
             /\ Logged(Start(c))' \/ late' = <<Start(c)>> =>
                  Logged(Result(c))' \/ Listed(Result(c))' \/ (pc' = "tools" /\ Called(c)')
  <2>1. Called(c)' <=> Called(c)
    BY DEF Called
  <2>2. /\ Logged(Start(c))' <=> Logged(Start(c)) \/ Start(c) = row
        /\ Logged(Result(c))' <=> Logged(Result(c)) \/ Result(c) = row
    BY <1>1
  <2>3. QED
    BY <2>1, <2>2 DEF Story
<1>4. QED
  BY <1>2, <1>3 DEF Story

\* Nothing of the story changes.
LEMMA StorySame ==
  ASSUME Story, UNCHANGED <<log, pc, calls, todo>>,
         \A c \in Nat : /\ late' = <<Start(c)>> => late = <<Start(c)>> \/ Listed(Start(c))
                        /\ late' = <<Result(c)>> => late = <<Result(c)>> \/ Listed(Result(c))
  PROVE  Story'
<1>1. \A c \in Nat : /\ Called(c)' <=> Called(c)
                     /\ Logged(Start(c))' <=> Logged(Start(c))
                     /\ Logged(Result(c))' <=> Logged(Result(c))
                     /\ Listed(Start(c))' <=> Listed(Start(c))
                     /\ Listed(Result(c))' <=> Listed(Result(c))
  BY DEF Called, Logged, Listed
<1>2. Ordered'
  BY DEF Story, Ordered
<1>3. QED
  BY <1>1, <1>2 DEF Story

\* A step of the turn outside of the tool calls.
LEMMA StoryTurn ==
  ASSUME Story, UNCHANGED <<log, calls, late>>, pc # "tools", pc' # "tools", todo = <<>>,
         todo' \in {<<>>, <<Think>>, <<Answered>>}
  PROVE  Story'
<1>1. \A c \in Nat : ~Listed(Start(c)) /\ ~Listed(Result(c))
  BY DEF Listed
<1>2. \A c \in Nat : ~Listed(Start(c))' /\ ~Listed(Result(c))'
  <2>1. \A m \in DOMAIN todo' : todo'[m] \in {Think, Answered}
    OBVIOUS
  <2>2. QED
    BY <2>1, EventRows DEF Listed
<1>3. \A c \in Nat : /\ Called(c)' <=> Called(c)
                     /\ Logged(Start(c))' <=> Logged(Start(c))
                     /\ Logged(Result(c))' <=> Logged(Result(c))
  BY DEF Called, Logged
<1>4. Ordered'
  BY DEF Story, Ordered
<1>5. QED
  BY <1>1, <1>2, <1>3, <1>4 DEF Story

\* What the activities of a reply are, before its tools run and after.
LEMMA Announcing ==
  ASSUME NEW cs \in Seq(Nat), NEW c \in Nat
  PROVE  /\ (\E m \in DOMAIN Announced(cs) : Announced(cs)[m] = <<Start(c)>>)
              <=> (\E k \in DOMAIN cs : cs[k] = c)
         /\ \A m \in DOMAIN Announced(cs) : Announced(cs)[m] # <<Result(c)>>
<1>1. /\ DOMAIN Announced(cs) = 1..(2 * Len(cs)) /\ DOMAIN cs = 1..Len(cs) /\ Len(cs) \in Nat
      /\ \A m \in 1..(2 * Len(cs)) :
           Announced(cs)[m] = IF m % 2 = 1 THEN Think ELSE <<Row("started", cs[m \div 2])>>
  BY DEF Announced
<1>2. ASSUME NEW m \in 1..(2 * Len(cs))
      PROVE  \/ Announced(cs)[m] = Think
             \/ m \div 2 \in DOMAIN cs /\ Announced(cs)[m] = <<Start(cs[m \div 2])>>
  BY <1>1, Halves DEF Start
<1>3. ASSUME NEW k \in DOMAIN cs
      PROVE  2 * k \in 1..(2 * Len(cs)) /\ Announced(cs)[2 * k] = <<Start(cs[k])>>
  <2>1. k \in 1..Len(cs) /\ k \in Nat
    BY <1>1
  <2>2. 2 * k \in 1..(2 * Len(cs)) /\ (2 * k) % 2 = 0 /\ (2 * k) \div 2 = k
    BY <1>1, <2>1
  <2>3. QED
    BY <1>1, <2>2 DEF Start
<1>4. \A k \in DOMAIN cs : cs[k] \in Nat
  OBVIOUS
<1>5. \A d \in Nat : <<Start(d)>> = <<Start(c)>> => d = c
  BY EventRows
<1>6. \A d \in Nat : <<Start(d)>> # <<Result(c)>>
  BY EventRows
<1>7. Think # <<Start(c)>> /\ Think # <<Result(c)>>
  BY EventRows
<1>8. QED
  BY <1>1, <1>2, <1>3, <1>4, <1>5, <1>6, <1>7

LEMMA Reporting ==
  ASSUME NEW cs \in Seq(Nat), NEW c \in Nat
  PROVE  LET todo2 == Append(Reported(cs), Think) IN
         /\ (\E m \in DOMAIN todo2 : todo2[m] = <<Result(c)>>) <=> (\E k \in DOMAIN cs : cs[k] = c)
         /\ \A m \in DOMAIN todo2 : todo2[m] # <<Start(c)>>
<1> DEFINE todo2 == Append(Reported(cs), Think)
<1>1. /\ DOMAIN Reported(cs) = 1..(2 * Len(cs)) /\ DOMAIN cs = 1..Len(cs) /\ Len(cs) \in Nat
      /\ \A m \in 1..(2 * Len(cs)) :
           Reported(cs)[m] = IF m % 2 = 1 THEN <<Row("result", cs[(m + 1) \div 2])>>
                                          ELSE Pair(cs[m \div 2])
  BY DEF Reported
<1>2. Reported(cs) \in Seq(Activities) /\ Len(Reported(cs)) = 2 * Len(cs)
  BY <1>1, TurnActivities
<1>3. /\ DOMAIN todo2 = 1..(2 * Len(cs) + 1) /\ todo2[2 * Len(cs) + 1] = Think
      /\ \A m \in 1..(2 * Len(cs)) : todo2[m] = Reported(cs)[m]
  BY <1>1, <1>2, AppendProperties
<1> HIDE DEF todo2
<1>4. ASSUME NEW m \in 1..(2 * Len(cs))
      PROVE  \/ \E k \in DOMAIN cs : todo2[m] = <<Result(cs[k])>>
             \/ \E k \in DOMAIN cs : todo2[m] = Pair(cs[k])
  <2>1. CASE m % 2 = 1
    <3>1. (m + 1) \div 2 \in DOMAIN cs /\ todo2[m] = <<Result(cs[(m + 1) \div 2])>>
      BY <1>1, <1>3, <2>1, Halves DEF Result
    <3>2. QED
      BY <3>1
  <2>2. CASE m % 2 # 1
    <3>1. m \div 2 \in DOMAIN cs /\ todo2[m] = Pair(cs[m \div 2])
      BY <1>1, <1>3, <2>2, Halves
    <3>2. QED
      BY <3>1
  <2>3. QED
    BY <2>1, <2>2
<1>5. ASSUME NEW k \in DOMAIN cs
      PROVE  2 * k - 1 \in 1..(2 * Len(cs)) /\ todo2[2 * k - 1] = <<Result(cs[k])>>
  <2>1. k \in 1..Len(cs) /\ k \in Nat
    BY <1>1
  <2>2. 2 * k - 1 \in 1..(2 * Len(cs)) /\ (2 * k - 1) % 2 = 1 /\ ((2 * k - 1) + 1) \div 2 = k
    BY <1>1, <2>1
  <2>3. QED
    BY <1>1, <1>3, <2>2 DEF Result
<1>6. \A k \in DOMAIN cs : cs[k] \in Nat
  OBVIOUS
<1>7. \A d \in Nat : <<Result(d)>> = <<Result(c)>> => d = c
  BY EventRows
<1>8. \A d \in Nat : <<Result(d)>> # <<Start(c)>> /\ Pair(d) # <<Start(c)>> /\ Pair(d) # <<Result(c)>>
  BY EventRows
<1>9. Think # <<Start(c)>> /\ Think # <<Result(c)>>
  BY EventRows
<1>10. \A m \in DOMAIN todo2 : m \in 1..(2 * Len(cs)) \/ m = 2 * Len(cs) + 1
  BY <1>1, <1>3
<1>11. \A m \in DOMAIN todo2 : todo2[m] # <<Start(c)>>
  BY <1>3, <1>4, <1>6, <1>8, <1>9, <1>10
<1>12. ASSUME NEW m \in DOMAIN todo2, todo2[m] = <<Result(c)>>
       PROVE  \E k \in DOMAIN cs : cs[k] = c
  BY <1>3, <1>4, <1>6, <1>7, <1>8, <1>9, <1>10, <1>12
<1>13. ASSUME NEW k \in DOMAIN cs, cs[k] = c
       PROVE  \E m \in DOMAIN todo2 : todo2[m] = <<Result(c)>>
  BY <1>1, <1>3, <1>5, <1>13
<1>14. QED
  BY <1>11, <1>12, <1>13 DEF todo2

LEMMA StoryStep == TurnTyped /\ Story /\ [Next]_vars => Story'
<1> SUFFICES ASSUME TurnTyped, Story, [Next]_vars PROVE Story'
  OBVIOUS
<1>1. CASE SaveMessage
  <2>1. /\ Create(Row("user", 0)) /\ Row("user", 0) \in AllRows /\ Row("user", 0).kind = "user"
        /\ UNCHANGED <<pc, calls, todo, late>>
    BY <1>1, RowKinds DEF SaveMessage, Messages, turnVars, recordVars
  <2>2. \A c \in Nat : Row("user", 0) # Start(c) /\ Row("user", 0) # Result(c)
    BY <2>1, EventRows
  <2>3. \A r : Listed(r)' <=> Listed(r)
    BY <2>1 DEF Listed
  <2>4. QED
    BY <2>1, <2>2, <2>3, StoryAdded
<1>2. CASE Write
  <2>1. PICK row \in AllRows :
           /\ Create(row) /\ UNCHANGED <<pc, calls, late>>
           /\ \/ Head(todo) = <<row>> /\ todo' = Tail(todo)
              \/ \E c \in Nat : Saving(c) /\ row = Row("call", c) /\ todo' = todo
              \/ \E c \in Nat : Saving(c) /\ row = Row("tool", c) /\ todo' = Tail(todo)
    BY <1>2, Written
  <2>2. /\ todo # <<>> /\ todo \in Seq(Activities)
    BY <1>2 DEF Write, TurnTyped
  <2>3. /\ \A m \in DOMAIN Tail(todo) : m + 1 \in DOMAIN todo /\ Tail(todo)[m] = todo[m + 1]
        /\ \A m \in DOMAIN todo : m = 1 \/ (m - 1 \in DOMAIN Tail(todo) /\ Tail(todo)[m - 1] = todo[m])
        /\ 1 \in DOMAIN todo /\ todo[1] = Head(todo)
    BY <2>2
  <2>4. CASE Head(todo) = <<row>> /\ todo' = Tail(todo)
    <3>1. \A r : Listed(r)' => Listed(r)
      BY <2>3, <2>4 DEF Listed
    <3>2. \A r : Listed(r) => Listed(r)' \/ <<r>> = <<row>>
      BY <2>3, <2>4 DEF Listed
    <3>3. Listed(row)
      BY <2>3, <2>4 DEF Listed
    <3>4. \A r : <<r>> = <<row>> => r = row
      OBVIOUS
    <3>5. QED
      BY <2>1, <3>1, <3>2, <3>3, <3>4, StoryAdded
  <2>5. CASE \E c \in Nat : Saving(c) /\ row \in {Row("call", c), Row("tool", c)}
                            /\ todo' \in {todo, Tail(todo)}
    <3>1. PICK d \in Nat : Head(todo) = Pair(d) /\ row \in {Row("call", d), Row("tool", d)}
      BY <2>5 DEF Saving
    <3>2. \A c \in Nat : row # Start(c) /\ row # Result(c)
      <4>1. Row("call", d).kind = "call" /\ Row("tool", d).kind = "tool"
        BY RowKinds DEF Messages
      <4>2. QED
        BY <3>1, <4>1, EventRows
    <3>3. ASSUME NEW c \in Nat
          PROVE  Head(todo) # <<Start(c)>> /\ Head(todo) # <<Result(c)>>
      <4>1. <<Start(c)>> # Pair(d) /\ <<Result(c)>> # Pair(d)
        BY EventRows
      <4>2. QED
        BY <3>1, <4>1
    <3>4. \A r : Head(todo) # <<r>> => (Listed(r)' <=> Listed(r))
      <4>1. CASE todo' = todo
        BY <4>1 DEF Listed
      <4>2. CASE todo' = Tail(todo)
        BY <2>3, <4>2 DEF Listed
      <4>3. QED
        BY <2>5, <4>1, <4>2
    <3>5. QED
      BY <2>1, <3>2, <3>3, <3>4, StoryAdded
  <2>6. QED
    BY <2>1, <2>4, <2>5
<1>3. CASE GiveUp
  <2>1. /\ UNCHANGED <<log, pc, calls, todo>>
        /\ \/ todo # <<>> /\ late' = Head(todo)
           \/ \E c \in Nat : late' = <<Row("tool", c)>>
    BY <1>3, GivenUp DEF tables
  <2>2. \A c \in Nat : /\ late' = <<Start(c)>> => Listed(Start(c))
                       /\ late' = <<Result(c)>> => Listed(Result(c))
    <3>1. CASE todo # <<>> /\ late' = Head(todo)
      <4>1. 1 \in DOMAIN todo /\ todo[1] = Head(todo)
        BY <3>1 DEF TurnTyped
      <4>2. QED
        BY <3>1, <4>1 DEF Listed
    <3>2. CASE \E c \in Nat : late' = <<Row("tool", c)>>
      BY <3>2, EventRows
    <3>3. QED
      BY <2>1, <3>1, <3>2
  <2>3. QED
    BY <2>1, <2>2, StorySame
<1>4. CASE LateWrite
  <2>1. PICK row \in AllRows :
           /\ Create(row) /\ UNCHANGED <<pc, calls, todo>>
           /\ \/ late = <<row>> /\ late' = <<>>
              \/ \E c \in Nat : row = Row("call", c) /\ late' = <<Row("tool", c)>>
              \/ \E c \in Nat : row = Row("tool", c) /\ late' = <<>>
    BY <1>4, WrittenLate
  <2>2. \A r : Listed(r)' <=> Listed(r)
    BY <2>1 DEF Listed
  <2>3. ASSUME NEW c \in Nat
        PROVE  late' # <<Start(c)>> /\ late' # <<Result(c)>>
    <3>1. \A d \in Nat : <<Start(c)>> # <<Row("tool", d)>> /\ <<Result(c)>> # <<Row("tool", d)>>
      BY EventRows
    <3>2. <<Start(c)>> # <<>> /\ <<Result(c)>> # <<>>
      OBVIOUS
    <3>3. late' = <<>> \/ \E d \in Nat : late' = <<Row("tool", d)>>
      BY <2>1
    <3>4. QED
      BY <3>1, <3>2, <3>3
  <2>4. \A c \in Nat : /\ row = Start(c) => late = <<Start(c)>>
                       /\ row = Result(c) => late = <<Result(c)>>
    <3>1. \A c \in Nat : Row("call", c).kind = "call" /\ Row("tool", c).kind = "tool"
      BY RowKinds DEF Messages
    <3>2. QED
      BY <2>1, <3>1, EventRows
  <2>5. QED
    BY <2>1, <2>2, <2>3, <2>4, StoryAdded
<1>5. CASE Take \/ BuildContext \/ Iterate \/ CannotAsk \/ Answer
  <2>1. /\ UNCHANGED <<log, calls, late>> /\ pc # "tools" /\ pc' # "tools" /\ todo = <<>>
        /\ todo' \in {<<>>, <<Think>>, <<Answered>>}
    BY <1>5 DEF Take, BuildContext, Iterate, CannotAsk, Answer, At, Goto, TurnStep, tables, Answered
  <2>2. QED
    BY <2>1, StoryTurn
<1>6. CASE Ask
  <2>1. /\ todo = <<>> /\ pc = "ask" /\ UNCHANGED <<log, late>>
        /\ \/ pc' = "answer" /\ todo' = <<>> /\ UNCHANGED calls
           \/ /\ pc' = "tools" /\ todo' = Announced(calls')
              /\ \E n \in 1..MaxCalls : calls' = [k \in 1..n |-> asked + k]
    BY <1>6, Zenon DEF Ask, At, Goto, TurnStep, tables
  <2>2. CASE pc' = "answer" /\ todo' = <<>> /\ UNCHANGED calls
    BY <2>1, <2>2, StoryTurn
  <2>3. CASE /\ pc' = "tools" /\ todo' = Announced(calls')
             /\ \E n \in 1..MaxCalls : calls' = [k \in 1..n |-> asked + k]
    <3>1. PICK n \in 1..MaxCalls : calls' = [k \in 1..n |-> asked + k]
      BY <2>3
    <3>2. calls' \in Seq(Nat) /\ \A k \in DOMAIN calls' : calls'[k] > 0
      BY <3>1, BoundsAssumption, IsASeq DEF TurnTyped
    <3>3. \A c \in Nat : (Listed(Start(c))' <=> Called(c)') /\ ~Listed(Result(c))'
      BY <2>3, <3>2, Announcing DEF Listed, Called
    <3>4. \A c \in Nat : ~Listed(Start(c)) /\ ~Listed(Result(c))
      BY <2>1 DEF Listed
    <3>5. \A c \in Nat : (Logged(Start(c))' <=> Logged(Start(c)))
                         /\ (Logged(Result(c))' <=> Logged(Result(c)))
      BY <2>1 DEF Logged
    <3>6. \A c \in Nat : Called(c)' => c > 0
      BY <3>2 DEF Called
    <3>7. Ordered'
      BY <2>1 DEF Story, Ordered
    <3>8. QED
      BY <2>1, <2>3, <3>3, <3>4, <3>5, <3>6, <3>7 DEF Story
  <2>4. QED
    BY <2>1, <2>2, <2>3
<1>7. CASE RunTools
  <2>1. /\ todo = <<>> /\ pc = "tools" /\ pc' = "check" /\ UNCHANGED <<log, late, calls>>
        /\ todo' = Append(Reported(calls), Think)
    BY <1>7 DEF RunTools, At, Goto, TurnStep, tables
  <2>2. \A c \in Nat : (Listed(Result(c))' <=> Called(c)) /\ ~Listed(Start(c))'
    BY <2>1, Reporting DEF Listed, Called, TurnTyped
  <2>3. \A c \in Nat : ~Listed(Start(c)) /\ ~Listed(Result(c))
    BY <2>1 DEF Listed
  <2>4. \A c \in Nat : /\ (Logged(Start(c))' <=> Logged(Start(c)))
                       /\ (Logged(Result(c))' <=> Logged(Result(c)))
                       /\ (Called(c)' <=> Called(c))
    BY <2>1 DEF Logged, Called
  <2>5. Ordered'
    BY <2>1 DEF Story, Ordered
  <2>6. QED
    BY <2>1, <2>2, <2>3, <2>4, <2>5 DEF Story
<1>8. CASE SignalMessage \/ GiveUpAsk \/ LateCharge \/ LateInitialize \/ UNCHANGED vars
  <2>1. UNCHANGED <<log, pc, calls, todo, late>>
    BY <1>8 DEF SignalMessage, GiveUpAsk, LateCharge, LateInitialize, vars, turnVars, recordVars,
                userVars, tables
  <2>2. QED
    BY <2>1, StorySame
<1>9. QED
  BY <1>1, <1>2, <1>3, <1>4, <1>5, <1>6, <1>7, <1>8 DEF Next, Turn

-----------------------------------------------------------------------------
(* The chat page.  The page is a fold over the rows of one message, so what it shows is  *)
(* proved by climbing from row to row.                                                   *)

\* A nonempty set of naturals has a least member.
LEMMA Least ==
  ASSUME NEW T, T \subseteq Nat, T # {}
  PROVE  \E x \in T : \A y \in T : x <= y
<1> DEFINE R == {ss \in Nat \X Nat : ss[1] < ss[2]}
<1>1. IsWellFoundedOn(R, Nat)
  BY NatLessThanWellFounded, Zenon DEF OpToRel
<1>2. \A x, y \in Nat : y < x => <<y, x>> \in R
  OBVIOUS
<1> HIDE DEF R
<1>3. PICK x \in T : \A y \in T : ~ (<<y, x>> \in R)
  BY <1>1, WFMin
<1>4. \A y \in T : ~ (y < x)
  BY <1>2, <1>3
<1>5. QED
  BY <1>4

\* Induction, for a set rather than for an operator.
LEMMA Climb ==
  ASSUME NEW S, 0 \in S, \A n \in Nat : n \in S => n + 1 \in S
  PROVE  \A n \in Nat : n \in S
<1> SUFFICES ASSUME Nat \ S # {} PROVE FALSE
  OBVIOUS
<1>1. PICK x \in Nat \ S : \A y \in Nat \ S : x <= y
  BY Least
<1>2. x # 0 /\ x - 1 \in Nat
  BY <1>1
<1>3. x - 1 \in S
  BY <1>1, <1>2
<1>4. (x - 1) + 1 = x
  BY <1>2
<1>5. QED
  BY <1>1, <1>2, <1>3, <1>4

LEMMA Minimum ==
  ASSUME NEW T, T \subseteq Nat, T # {}
  PROVE  Min(T) \in T /\ \A y \in T : Min(T) <= y
BY Least DEF Min

\* Page is defined: the recursive function exists, and so satisfies its equations.
LEMMA PageSteps ==
  ASSUME NEW rows \in Seq(AllRows), NEW i \in DOMAIN rows
  PROVE  /\ Page(rows, i)[i] = NoTools
         /\ \A j \in (i + 1)..Len(rows) : Page(rows, i)[j] = Show(Page(rows, i)[j - 1], rows[j])
<1> DEFINE Traced(m, g) ==
             g = [j \in i..(i + m) |-> IF j = i THEN NoTools ELSE Show(g[j - 1], rows[j])]
           S == {m \in Nat : \E g : Traced(m, g)}
<1>1. i \in Nat /\ i <= Len(rows) /\ Len(rows) \in Nat
  OBVIOUS
<1>2. 0 \in S
  <2> DEFINE g == [j \in i..i |-> NoTools]
  <2>1. i + 0 = i /\ \A j \in i..i : j = i
    BY <1>1
  <2>2. Traced(0, g)
    BY <2>1
  <2>3. QED
    BY <2>2
<1>3. ASSUME NEW m \in Nat, m \in S
      PROVE  m + 1 \in S
  <2>1. PICK g : Traced(m, g)
    BY <1>3
  <2> DEFINE h == [j \in i..(i + m + 1) |->
                     IF j = i + m + 1 THEN Show(g[i + m], rows[i + m + 1]) ELSE g[j]]
  <2>2. \A j \in i..(i + m) : /\ j \in i..(i + m + 1) /\ j # i + m + 1
                              /\ g[j] = IF j = i THEN NoTools ELSE Show(g[j - 1], rows[j])
    BY <1>1, <2>1
  <2>3. ASSUME NEW j \in i..(i + m + 1)
        PROVE  h[j] = IF j = i THEN NoTools ELSE Show(h[j - 1], rows[j])
    <3>1. CASE j = i
      BY <1>1, <2>2, <3>1
    <3>2. CASE j # i /\ j # i + m + 1
      <4>1. j \in i..(i + m) /\ j - 1 \in i..(i + m)
        BY <1>1, <3>2
      <4>2. QED
        BY <2>2, <3>2, <4>1
    <3>3. CASE j = i + m + 1
      <4>1. j - 1 = i + m /\ i + m \in i..(i + m) /\ j # i
        BY <1>1, <3>3
      <4>2. QED
        BY <2>2, <3>3, <4>1
    <3>4. QED
      BY <3>1, <3>2, <3>3
  <2>4. i + (m + 1) = i + m + 1
    BY <1>1
  <2> HIDE DEF h
  <2>5. h = [j \in i..(i + m + 1) |-> h[j]]
    BY DEF h
  <2>6. Traced(m + 1, h)
    BY <2>3, <2>4, <2>5
  <2>7. QED
    BY <2>6
<1>4. \A n \in Nat : n \in S
  <2> HIDE DEF S
  <2>1. QED
    BY <1>2, <1>3, Climb
<1>5. Len(rows) - i \in Nat /\ i + (Len(rows) - i) = Len(rows)
  BY <1>1
<1>6. \E g : g = [j \in i..Len(rows) |-> IF j = i THEN NoTools ELSE Show(g[j - 1], rows[j])]
  BY <1>4, <1>5
<1>7. Page(rows, i)
        = [j \in i..Len(rows) |-> IF j = i THEN NoTools ELSE Show(Page(rows, i)[j - 1], rows[j])]
  BY <1>6, Zenon DEF Page
<1>8. /\ i \in i..Len(rows)
      /\ \A j \in (i + 1)..Len(rows) : j \in i..Len(rows) /\ j # i
  BY <1>1
<1>9. QED
  BY <1>7, <1>8

Shown == [call : Nat, result : Nat]
Pages == [tools : Seq(Shown), open : SUBSET Nat]

LEMMA Elements ==
  ASSUME NEW T, NEW s \in Seq(T)
  PROVE  /\ DOMAIN s = 1..Len(s) /\ Len(s) \in Nat /\ Len(s) + 1 \notin DOMAIN s
         /\ \A k \in DOMAIN s : s[k] \in T
OBVIOUS

\* What a row does to the tool calls shown.
Opens(page, row, new) ==
  /\ row.kind = "started"
  /\ DOMAIN new.tools = 1..(Len(page.tools) + 1) /\ new.open = page.open \cup {Len(page.tools) + 1}
  /\ new.tools[Len(page.tools) + 1] = ToolShown(row.call, 0)
  /\ \A k \in DOMAIN page.tools : new.tools[k] = page.tools[k]
\* k is given the result.
Gives(page, row, new, k) ==
  /\ DOMAIN new.tools = DOMAIN page.tools
  /\ new.tools[k] = ToolShown(page.tools[k].call, row.call)
  /\ \A l \in DOMAIN page.tools \ {k} : new.tools[l] = page.tools[l]
Settles(page, row, new) ==
  /\ row.kind = "result"
  /\ \E k \in page.open : /\ page.tools[k].call = row.call
                          /\ Gives(page, row, new, k) /\ new.open = page.open \ {k}
Unmatched(page, row) == row.kind = "result" /\ \A k \in page.open : page.tools[k].call # row.call
Steals(page, row, new) ==
  /\ Unmatched(page, row) /\ new.open = page.open
  /\ \E k \in DOMAIN page.tools : page.tools[k].result = 0 /\ Gives(page, row, new, k)
Adds(page, row, new) ==
  /\ Unmatched(page, row) /\ new.open = page.open
  /\ DOMAIN new.tools = 1..(Len(page.tools) + 1)
  /\ new.tools[Len(page.tools) + 1] = ToolShown(row.call, row.call)
  /\ \A k \in DOMAIN page.tools : new.tools[k] = page.tools[k]
Skips(page, row, new) == row.kind \notin {"started", "result"} /\ new = page

LEMMA IsElements ==
  ASSUME NEW T, NEW n \in Nat, NEW s \in [1..n -> T]
  PROVE  s \in Seq(T)
OBVIOUS

LEMMA GivenResult ==
  ASSUME NEW page \in Pages, NEW row \in AllRows, NEW k \in DOMAIN page.tools, NEW new,
         new.tools = [page.tools EXCEPT ![k].result = row.call]
  PROVE  Gives(page, row, new, k) /\ new.tools \in Seq(Shown)
<1>1. /\ page.tools \in Seq(Shown) /\ DOMAIN page.tools = 1..Len(page.tools)
      /\ page.tools[k] \in Shown /\ row.call \in Nat
  <2>1. page.tools \in Seq(Shown) /\ row.call \in Nat
    BY DEF Pages, AllRows
  <2>2. QED
    BY <2>1, Elements
<1>2. [page.tools[k] EXCEPT !.result = row.call] = ToolShown(page.tools[k].call, row.call)
  BY <1>1 DEF ToolShown, Shown
<1>3. /\ DOMAIN new.tools = DOMAIN page.tools
      /\ new.tools[k] = [page.tools[k] EXCEPT !.result = row.call]
      /\ \A l \in DOMAIN page.tools \ {k} : new.tools[l] = page.tools[l]
  BY <1>1
<1>4. new.tools \in Seq(Shown)
  <2>1. ToolShown(page.tools[k].call, row.call) \in Shown
    BY <1>1 DEF ToolShown, Shown
  <2>2. /\ DOMAIN new.tools = 1..Len(page.tools)
        /\ \A l \in DOMAIN new.tools : new.tools[l] \in Shown
    BY <1>1, <1>2, <1>3, <2>1, Elements
  <2>3. new.tools = [l \in 1..Len(page.tools) |-> new.tools[l]]
    BY <1>1
  <2>4. Len(page.tools) \in Nat
    BY <1>1
  <2>5. new.tools \in [1..Len(page.tools) -> Shown]
    BY <2>2, <2>3
  <2>6. QED
    BY <2>4, <2>5, IsElements
<1>5. QED
  BY <1>2, <1>3, <1>4 DEF Gives

LEMMA AddedTool ==
  ASSUME NEW page \in Pages, NEW tool \in Shown, NEW tools,
         tools = Append(page.tools, tool)
  PROVE  /\ tools \in Seq(Shown)
         /\ DOMAIN tools = 1..(Len(page.tools) + 1)
         /\ tools[Len(page.tools) + 1] = tool
         /\ \A k \in DOMAIN page.tools : tools[k] = page.tools[k]
BY AppendProperties DEF Pages

LEMMA ShowCases ==
  ASSUME NEW page \in Pages, page.open \subseteq DOMAIN page.tools, NEW row \in AllRows
  PROVE  LET new == Show(page, row) IN
         /\ new \in Pages /\ new.open \subseteq DOMAIN new.tools
         /\ \/ Opens(page, row, new) \/ Settles(page, row, new) \/ Steals(page, row, new)
            \/ Adds(page, row, new) \/ Skips(page, row, new)
<1> DEFINE tools == page.tools
           mine == {k \in page.open : tools[k].call = row.call}
           started == {k \in DOMAIN tools : tools[k].result = 0}
           new == Show(page, row)
<1>1. /\ tools \in Seq(Shown) /\ DOMAIN tools = 1..Len(tools) /\ Len(tools) \in Nat
      /\ DOMAIN tools \subseteq Nat /\ row.call \in Nat /\ page.open \subseteq DOMAIN tools
      /\ page = [tools |-> tools, open |-> page.open]
  BY DEF Pages, AllRows
<1>2. \A r \in Nat : ToolShown(row.call, r) \in Shown
  BY <1>1 DEF ToolShown, Shown
<1>3. CASE row.kind = "started"
  <2>1. new = [tools |-> Append(tools, ToolShown(row.call, 0)), open |-> page.open \cup {Len(tools) + 1}]
    BY <1>3, Zenon DEF Show
  <2>2. Opens(page, row, new) /\ new.tools \in Seq(Shown)
    BY <1>1, <1>2, <1>3, <2>1, AddedTool DEF Opens
  <2>3. new \in Pages /\ new.open \subseteq DOMAIN new.tools
    BY <1>1, <2>1, <2>2 DEF Pages, Opens
  <2>4. QED
    BY <2>2, <2>3
<1>4. CASE row.kind = "result" /\ mine # {}
  <2>1. new = [tools |-> [tools EXCEPT ![Min(mine)].result = row.call],
               open |-> page.open \ {Min(mine)}]
    BY <1>4, Zenon DEF Show
  <2>2. Min(mine) \in mine
    BY <1>1, <1>4, Minimum
  <2>3. Gives(page, row, new, Min(mine)) /\ new.tools \in Seq(Shown)
    BY <1>1, <2>1, <2>2, GivenResult
  <2>4. Settles(page, row, new)
    <3>1. Min(mine) \in page.open /\ tools[Min(mine)].call = row.call
      BY <2>2
    <3>2. new.open = page.open \ {Min(mine)}
      BY <2>1
    <3>3. QED
      BY <1>4, <2>3, <3>1, <3>2, Zenon DEF Settles
  <2>5. new \in Pages /\ new.open \subseteq DOMAIN new.tools
    BY <1>1, <2>1, <2>3 DEF Pages, Gives
  <2>6. QED
    BY <2>4, <2>5
<1>5. CASE row.kind = "result" /\ mine = {} /\ started # {}
  <2>1. new = [page EXCEPT !.tools[Min(started)].result = row.call]
    BY <1>5, Zenon DEF Show
  <2>2. new = [tools |-> [tools EXCEPT ![Min(started)].result = row.call], open |-> page.open]
    BY <1>1, <2>1
  <2>3. Min(started) \in started
    BY <1>1, <1>5, Minimum
  <2>4. Gives(page, row, new, Min(started)) /\ new.tools \in Seq(Shown)
    BY <1>1, <2>2, <2>3, GivenResult
  <2>5. Steals(page, row, new)
    <3>1. Min(started) \in DOMAIN tools /\ tools[Min(started)].result = 0
      BY <2>3
    <3>2. new.open = page.open
      BY <2>2
    <3>3. Unmatched(page, row)
      BY <1>5 DEF Unmatched
    <3>4. QED
      BY <2>4, <3>1, <3>2, <3>3, Zenon DEF Steals
  <2>6. new \in Pages /\ new.open \subseteq DOMAIN new.tools
    BY <1>1, <2>2, <2>4 DEF Pages, Gives
  <2>7. QED
    BY <2>5, <2>6
<1>6. CASE row.kind = "result" /\ mine = {} /\ started = {}
  <2>1. new = [page EXCEPT !.tools = Append(@, ToolShown(row.call, row.call))]
    BY <1>6, Zenon DEF Show
  <2>2. new = [tools |-> Append(tools, ToolShown(row.call, row.call)), open |-> page.open]
    BY <1>1, <2>1
  <2>3. Adds(page, row, new) /\ new.tools \in Seq(Shown)
    BY <1>1, <1>2, <1>6, <2>2, AddedTool DEF Adds, Unmatched
  <2>4. new \in Pages /\ new.open \subseteq DOMAIN new.tools
    BY <1>1, <2>2, <2>3 DEF Pages, Adds
  <2>5. QED
    BY <2>3, <2>4
<1>7. CASE row.kind \notin {"started", "result"}
  <2>1. new = page
    BY <1>7, Zenon DEF Show
  <2>2. QED
    BY <1>7, <2>1 DEF Skips
<1>8. QED
  BY <1>3, <1>4, <1>5, <1>6, <1>7

\* What the page of message i shows of the rows after it, as far as row j.
Honest(page, i, j) ==
  LET tools == page.tools
      Seen == (i + 1)..j
  IN
  /\ page \in Pages /\ page.open \subseteq DOMAIN tools
  /\ \A k \in DOMAIN tools :
       /\ tools[k].result \in {0, tools[k].call} \/ ~Undisturbed(tools[k].result)
       /\ tools[k].result = 0 => k \in page.open
  /\ \A q \in Seen, c \in Nat :
       log[q] = Start(c) => \/ \E k \in page.open : tools[k].call = c
                            \/ \E p \in Seen : log[p] = Result(c)
  /\ \A k \in page.open :
       /\ \E q \in Seen : log[q] = Start(tools[k].call)
       /\ \A p \in Seen : log[p] = Result(tools[k].call) => ~Undisturbed(tools[k].call)
       /\ \A l \in page.open \ {k} :
            tools[l].call = tools[k].call =>
              \E q, r \in Seen : q # r /\ log[q] = Start(tools[k].call) /\ log[r] = Start(tools[k].call)

LEMMA Twice ==
  ASSUME log \in Seq(AllRows), NEW c \in Nat, NEW p \in DOMAIN log, NEW q \in DOMAIN log, p # q,
         (log[p] = Start(c) /\ log[q] = Start(c)) \/ (log[p] = Result(c) /\ log[q] = Result(c))
  PROVE  ~Undisturbed(c)
<1>1. ASSUME NEW row, log[p] = row, log[q] = row
      PROVE  ~(Cardinality(Positions(row)) <= 1)
  <2>1. DOMAIN log = 1..Len(log) /\ Len(log) \in Nat
    OBVIOUS
  <2>2. IsFiniteSet(DOMAIN log)
    BY <2>1, FS_Interval
  <2>3. Positions(row) \subseteq DOMAIN log /\ {p, q} \subseteq Positions(row)
    BY <1>1 DEF Positions
  <2>4. IsFiniteSet(Positions(row)) /\ Cardinality(Positions(row)) \in Nat
    BY <2>2, <2>3, FS_Subset, FS_CardinalityType
  <2>5. Cardinality({p, q}) <= Cardinality(Positions(row))
    BY <2>3, <2>4, FS_Subset
  <2>6. Cardinality({p, q}) = 2
    <3>1. IsFiniteSet({p}) /\ Cardinality({p}) = 1
      BY FS_Singleton
    <3>2. Cardinality({p} \cup {q}) = Cardinality({p}) + 1
      BY <3>1, FS_AddElement
    <3>3. {p} \cup {q} = {p, q}
      OBVIOUS
    <3>4. QED
      BY <3>1, <3>2, <3>3
  <2>7. QED
    BY <2>4, <2>5, <2>6
<1>2. QED
  BY <1>1 DEF Undisturbed, Start, Result

\* The row after j is shown.
LEMMA HonestAdded ==
  ASSUME log \in Seq(AllRows), Story, NEW i \in Users, NEW j \in i..(Len(log) - 1), NEW page,
         Honest(page, i, j)
  PROVE  Honest(Show(page, log[j + 1]), i, j + 1)
<1> DEFINE row == log[j + 1]
           tools == page.tools
           new == Show(page, row)
           Seen == (i + 1)..j
           Later == (i + 1)..(j + 1)
<1> SUFFICES Honest(new, i, j + 1)
  OBVIOUS
<1>1. /\ DOMAIN log = 1..Len(log) /\ Len(log) \in Nat /\ i \in 1..Len(log) /\ j + 1 \in DOMAIN log
      /\ row \in AllRows /\ log[i].kind = "user"
      /\ Later = Seen \cup {j + 1} /\ j + 1 \notin Seen /\ Seen \subseteq DOMAIN log
      /\ \A q \in Seen : q <= j /\ q \in Nat
      /\ i \in Nat /\ j \in Nat
  <2>1. DOMAIN log = 1..Len(log) /\ Len(log) \in Nat /\ i \in DOMAIN log /\ log[i].kind = "user"
    BY DEF Users
  <2>2. j + 1 \in DOMAIN log /\ row \in AllRows
    BY <2>1
  <2>3. QED
    BY <2>1, <2>2
<1>2. page \in Pages /\ page.open \subseteq DOMAIN tools
  BY DEF Honest
<1>3. /\ new \in Pages /\ new.open \subseteq DOMAIN new.tools
      /\ \/ Opens(page, row, new) \/ Settles(page, row, new) \/ Steals(page, row, new)
         \/ Adds(page, row, new) \/ Skips(page, row, new)
  BY <1>1, <1>2, ShowCases
<1>4. /\ tools \in Seq(Shown) /\ DOMAIN tools = 1..Len(tools) /\ Len(tools) \in Nat
      /\ \A k \in DOMAIN tools : tools[k].call \in Nat /\ tools[k].result \in Nat
      /\ Len(tools) + 1 \notin DOMAIN tools
      /\ row.call \in Nat
  <2>1. tools \in Seq(Shown) /\ row.call \in Nat
    BY <1>1, <1>2 DEF Pages, AllRows
  <2>2. /\ DOMAIN tools = 1..Len(tools) /\ Len(tools) \in Nat /\ Len(tools) + 1 \notin DOMAIN tools
        /\ \A k \in DOMAIN tools : tools[k] \in Shown
    BY <2>1, Elements
  <2>3. QED
    BY <2>1, <2>2 DEF Shown
<1>5. /\ row.kind = "started" => row = Start(row.call)
      /\ row.kind = "result" => row = Result(row.call)
      /\ \A c \in Nat : /\ row = Start(c) => row.kind = "started" /\ row.call = c
                        /\ row = Result(c) => row.kind = "result" /\ row.call = c
  <2>1. \A c \in Nat : /\ Start(c).kind = "started" /\ Start(c).call = c
                       /\ Result(c).kind = "result" /\ Result(c).call = c
    BY EventRows
  <2>2. row = [kind |-> row.kind, call |-> row.call]
    BY <1>1 DEF AllRows
  <2>3. QED
    BY <2>1, <2>2 DEF Start, Result, Row
<1> HIDE DEF row, new, tools, Seen, Later
<1>6. /\ \A k \in DOMAIN tools :
           /\ tools[k].result \in {0, tools[k].call} \/ ~Undisturbed(tools[k].result)
           /\ tools[k].result = 0 => k \in page.open
      /\ \A q \in Seen, c \in Nat :
           log[q] = Start(c) => \/ \E k \in page.open : tools[k].call = c
                                \/ \E p \in Seen : log[p] = Result(c)
      /\ \A k \in page.open :
           /\ \E q \in Seen : log[q] = Start(tools[k].call)
           /\ \A p \in Seen : log[p] = Result(tools[k].call) => ~Undisturbed(tools[k].call)
           /\ \A l \in page.open \ {k} :
                tools[l].call = tools[k].call =>
                  \E q, r \in Seen : q # r /\ log[q] = Start(tools[k].call)
                                           /\ log[r] = Start(tools[k].call)
  BY DEF Honest, Seen, tools
<1>7. row.kind = "result" =>
        \E q \in DOMAIN log : q <= j /\ log[q] = Start(row.call)
  <2> SUFFICES ASSUME row.kind = "result"
               PROVE  \E q \in DOMAIN log : q <= j /\ log[q] = Start(row.call)
    OBVIOUS
  <2>1. log[j + 1] = Result(row.call)
    BY <1>5 DEF row
  <2>2. \E q \in DOMAIN log : q < j + 1 /\ log[q] = Start(row.call)
    BY <1>1, <1>4, <2>1 DEF Story, Ordered
  <2>3. QED
    BY <1>1, <2>2
<1>8. row.kind = "result" => row.call > 0
  BY <1>4, <1>7 DEF Story, Logged
\* A result that no open call of its page has was recorded twice, or apart from its call.
<1>9. Unmatched(page, row) => ~Undisturbed(row.call)
  <2> SUFFICES ASSUME Unmatched(page, row), Undisturbed(row.call) PROVE FALSE
    OBVIOUS
  <2>1. row.kind = "result" /\ row = Result(row.call) /\ \A k \in page.open : tools[k].call # row.call
    BY <1>5 DEF Unmatched, tools
  <2>2. log[j + 1] = Result(row.call)
    BY <2>1 DEF row
  <2>3. PICK q \in DOMAIN log : q <= j /\ log[q] = Start(row.call)
    BY <1>7, <2>1
  <2>4. CASE q \in Seen
    <3>1. PICK p \in Seen : log[p] = Result(row.call)
      BY <1>4, <1>6, <2>1, <2>3, <2>4
    <3>2. QED
      BY <1>1, <1>4, <2>2, <3>1, Twice
  <2>5. CASE q \notin Seen
    <3>1. q # i
      BY <1>1, <1>4, <2>3, EventRows
    <3>2. i > q
      BY <1>1, <2>3, <2>5, <3>1 DEF Seen
    <3>3. PICK p \in DOMAIN log : log[p] = Result(row.call) /\ p < i
      <4>1. q \in Positions(Start(row.call))
        BY <2>3 DEF Positions
      <4>2. \E r \in Positions(Result(row.call)) : r < i
        BY <3>2, <4>1 DEF Undisturbed, Start, Result
      <4>3. QED
        BY <4>2 DEF Positions
    <3>4. p # j + 1
      BY <1>1, <3>3
    <3>5. QED
      BY <1>1, <1>4, <2>2, <3>3, <3>4, Twice
  <2>6. QED
    BY <2>4, <2>5
\* Any row but the start of a call.
<1>10. ASSUME \A c \in Nat : row # Start(c),
              \A k \in new.open : k \in page.open /\ new.tools[k].call = tools[k].call,
              \A k \in page.open : k \in new.open \/ row = Result(tools[k].call),
              \A k \in new.open : row = Result(tools[k].call) =>
                \E l \in page.open \ {k} : tools[l].call = tools[k].call,
              \A k \in DOMAIN new.tools :
                /\ new.tools[k].result \in {0, new.tools[k].call} \/ ~Undisturbed(new.tools[k].result)
                /\ new.tools[k].result = 0 => k \in new.open
       PROVE  Honest(new, i, j + 1)
  <2>1. log[j + 1] = row
    BY DEF row
  <2>2. ASSUME NEW q \in Later, NEW c \in Nat, log[q] = Start(c)
        PROVE  \/ \E k \in new.open : new.tools[k].call = c
               \/ \E p \in Later : log[p] = Result(c)
    <3>1. q \in Seen
      BY <1>1, <1>10, <2>1, <2>2
    <3>2. CASE \E p \in Seen : log[p] = Result(c)
      BY <1>1, <3>2
    <3>3. CASE \E k \in page.open : tools[k].call = c
      <4>1. PICK k \in page.open : tools[k].call = c
        BY <3>3
      <4>2. CASE k \in new.open
        BY <1>10, <4>1, <4>2
      <4>3. CASE row = Result(tools[k].call)
        BY <1>1, <2>1, <4>1, <4>3
      <4>4. QED
        BY <1>10, <4>2, <4>3
    <3>4. QED
      BY <1>6, <2>2, <3>1, <3>2, <3>3
  <2>3. ASSUME NEW k \in new.open
        PROVE  /\ \E q \in Later : log[q] = Start(new.tools[k].call)
               /\ \A l \in new.open \ {k} :
                    new.tools[l].call = new.tools[k].call =>
                      \E q, r \in Later : q # r /\ log[q] = Start(new.tools[k].call)
                                                /\ log[r] = Start(new.tools[k].call)
    <3>1. /\ k \in page.open /\ new.tools[k].call = tools[k].call
          /\ \A l \in new.open : l \in page.open /\ new.tools[l].call = tools[l].call
      BY <1>10
    <3>2. Seen \subseteq Later
      BY <1>1
    <3>3. QED
      BY <1>6, <3>1, <3>2
  <2>4. ASSUME NEW k \in new.open, NEW p \in Later, log[p] = Result(new.tools[k].call)
        PROVE  ~Undisturbed(new.tools[k].call)
    <3>1. /\ k \in page.open /\ new.tools[k].call = tools[k].call /\ tools[k].call \in Nat
      BY <1>2, <1>4, <1>10 DEF tools
    <3>2. CASE p \in Seen
      BY <1>6, <2>4, <3>1, <3>2
    <3>3. CASE p = j + 1
      <4>1. PICK l \in page.open \ {k} : tools[l].call = tools[k].call
        BY <1>10, <2>1, <2>4, <3>1, <3>3
      <4>2. PICK q \in Seen, r \in Seen : q # r /\ log[q] = Start(tools[k].call)
                                              /\ log[r] = Start(tools[k].call)
        BY <1>6, <3>1, <4>1
      <4>3. QED
        BY <1>1, <3>1, <4>2, Twice
    <3>4. QED
      BY <1>1, <3>2, <3>3
  <2>5. QED
    BY <1>3, <1>10, <2>2, <2>3, <2>4 DEF Honest, Later
<1>11. CASE Skips(page, row, new)
  <2>1. new = page /\ new.tools = tools /\ row.kind \notin {"started", "result"}
    BY <1>11 DEF Skips, tools
  <2>2. \A c \in Nat : row # Start(c) /\ row # Result(c)
    BY <1>5, <2>1
  <2>3. \A k \in page.open : tools[k].call \in Nat
    BY <1>2, <1>4 DEF tools
  <2>4. QED
    BY <1>6, <1>10, <2>1, <2>2, <2>3
<1>12. CASE Settles(page, row, new)
  <2>1. PICK k \in page.open : /\ tools[k].call = row.call /\ row.kind = "result"
                               /\ Gives(page, row, new, k) /\ new.open = page.open \ {k}
    BY <1>12, Zenon DEF Settles, tools
  <2>2. /\ DOMAIN new.tools = DOMAIN tools
        /\ new.tools[k].call = tools[k].call /\ new.tools[k].result = tools[k].call
        /\ \A l \in DOMAIN tools \ {k} : new.tools[l] = tools[l]
    BY <2>1 DEF Gives, ToolShown, tools
  <2>3. \A c \in Nat : row # Start(c)
    BY <1>5, <2>1
  <2>4. page.open \subseteq DOMAIN tools /\ row = Result(tools[k].call)
    BY <1>2, <1>5, <2>1 DEF tools
  <2>5. \A l \in new.open : /\ l \in page.open /\ l # k /\ new.tools[l].call = tools[l].call
                             /\ k \in page.open \ {l} /\ tools[l].call \in Nat
    BY <1>4, <2>1, <2>2, <2>4
  <2>6. \A l \in new.open : row = Result(tools[l].call) => tools[k].call = tools[l].call
    BY <1>5, <2>1, <2>5
  <2>7. \A l \in page.open : l \in new.open \/ row = Result(tools[l].call)
    BY <2>1, <2>4
  <2>8. \A l \in DOMAIN new.tools :
          /\ new.tools[l].result \in {0, new.tools[l].call} \/ ~Undisturbed(new.tools[l].result)
          /\ new.tools[l].result = 0 => l \in new.open
    <3>1. new.tools[k].result # 0
      BY <1>4, <1>8, <2>1, <2>2
    <3>2. QED
      BY <1>6, <2>1, <2>2, <3>1
  <2>9. QED
    BY <1>10, <2>3, <2>5, <2>6, <2>7, <2>8
<1>13. CASE Steals(page, row, new)
  <2>1. PICK k \in DOMAIN tools : Gives(page, row, new, k)
    BY <1>13, Zenon DEF Steals, tools
  <2>2. Unmatched(page, row) /\ new.open = page.open /\ row.kind = "result"
    BY <1>13, Zenon DEF Steals, Unmatched
  <2>3. /\ DOMAIN new.tools = DOMAIN tools
        /\ new.tools[k].call = tools[k].call /\ new.tools[k].result = row.call
        /\ \A l \in DOMAIN tools \ {k} : new.tools[l] = tools[l]
    BY <2>1 DEF Gives, ToolShown, tools
  <2>4. \A c \in Nat : row # Start(c)
    BY <1>5, <2>2
  <2>5. \A l \in page.open : /\ tools[l].call \in Nat /\ row # Result(tools[l].call)
                              /\ new.tools[l].call = tools[l].call
    <3>1. \A l \in page.open : l \in DOMAIN tools /\ tools[l].call # row.call
      BY <1>2, <2>2 DEF Unmatched, tools
    <3>2. QED
      BY <1>4, <1>5, <2>3, <3>1
  <2>6. \A l \in DOMAIN new.tools :
          /\ new.tools[l].result \in {0, new.tools[l].call} \/ ~Undisturbed(new.tools[l].result)
          /\ new.tools[l].result = 0 => l \in new.open
    <3>1. new.tools[k].result # 0 /\ ~Undisturbed(new.tools[k].result)
      BY <1>4, <1>8, <1>9, <2>2, <2>3
    <3>2. QED
      BY <1>6, <2>2, <2>3, <3>1
  <2>7. QED
    BY <1>10, <2>2, <2>4, <2>5, <2>6
<1>14. CASE Adds(page, row, new)
  <2>1. /\ Unmatched(page, row) /\ new.open = page.open /\ row.kind = "result"
        /\ DOMAIN new.tools = DOMAIN tools \cup {Len(tools) + 1}
        /\ new.tools[Len(tools) + 1].call = row.call /\ new.tools[Len(tools) + 1].result = row.call
        /\ \A l \in DOMAIN tools : new.tools[l] = tools[l]
    BY <1>4, <1>14 DEF Adds, Unmatched, ToolShown, tools
  <2>2. \A c \in Nat : row # Start(c)
    BY <1>5, <2>1
  <2>3. \A l \in page.open : /\ tools[l].call \in Nat /\ row # Result(tools[l].call)
                              /\ new.tools[l].call = tools[l].call
    <3>1. \A l \in page.open : l \in DOMAIN tools /\ tools[l].call # row.call
      BY <1>2, <2>1 DEF Unmatched, tools
    <3>2. QED
      BY <1>4, <1>5, <2>1, <3>1
  <2>4. \A l \in DOMAIN new.tools :
          /\ new.tools[l].result \in {0, new.tools[l].call} \/ ~Undisturbed(new.tools[l].result)
          /\ new.tools[l].result = 0 => l \in new.open
    <3>1. row.call # 0
      BY <1>4, <1>8, <2>1
    <3>2. QED
      BY <1>6, <2>1, <3>1
  <2>5. QED
    BY <1>10, <2>1, <2>2, <2>3, <2>4
<1>15. CASE Opens(page, row, new)
  <2> DEFINE last == Len(tools) + 1
  <2>1. /\ row.kind = "started" /\ row = Start(row.call)
        /\ new.open = page.open \cup {last}
        /\ DOMAIN new.tools = DOMAIN tools \cup {last}
        /\ new.tools[last].call = row.call /\ new.tools[last].result = 0
        /\ \A l \in DOMAIN tools : new.tools[l] = tools[l]
    BY <1>4, <1>5, <1>15 DEF Opens, ToolShown, tools
  <2>2. last \notin DOMAIN tools /\ page.open \subseteq DOMAIN tools
    BY <1>2, <1>4 DEF tools
  <2> HIDE DEF last
  <2>3. log[j + 1] = Start(row.call)
    BY <2>1 DEF row
  <2>4. \A l \in DOMAIN new.tools :
          /\ new.tools[l].result \in {0, new.tools[l].call} \/ ~Undisturbed(new.tools[l].result)
          /\ new.tools[l].result = 0 => l \in new.open
    BY <1>6, <2>1, <2>2
  <2>5. ASSUME NEW q \in Later, NEW c \in Nat, log[q] = Start(c)
        PROVE  \/ \E k \in new.open : new.tools[k].call = c
               \/ \E p \in Later : log[p] = Result(c)
    <3>1. CASE q = j + 1
      BY <1>4, <2>1, <2>3, <2>5, <3>1, EventRows
    <3>2. CASE q \in Seen
      <4>1. CASE \E k \in page.open : tools[k].call = c
        BY <2>1, <2>2, <4>1
      <4>2. CASE \E p \in Seen : log[p] = Result(c)
        BY <1>1, <4>2
      <4>3. QED
        BY <1>6, <2>5, <3>2, <4>1, <4>2
    <3>3. QED
      BY <1>1, <3>1, <3>2
  <2>6. \A k \in page.open : k # last /\ new.tools[k].call = tools[k].call /\ tools[k].call \in Nat
    BY <1>4, <2>1, <2>2
  <2>7. Seen \subseteq Later /\ j + 1 \in Later /\ j + 1 \notin Seen
    BY <1>1
  \* The new tool call and an open one of the same call have a start each.
  <2>8. ASSUME NEW k \in page.open, new.tools[k].call = new.tools[last].call
        PROVE  \E q, r \in Later : q # r /\ log[q] = Start(row.call) /\ log[r] = Start(row.call)
    <3>1. PICK q \in Seen : log[q] = Start(tools[k].call)
      BY <1>6
    <3>2. tools[k].call = row.call
      BY <2>1, <2>6, <2>8
    <3>3. QED
      BY <2>3, <2>7, <3>1, <3>2
  <2>9. ASSUME NEW k \in new.open
        PROVE  /\ \E q \in Later : log[q] = Start(new.tools[k].call)
               /\ \A l \in new.open \ {k} :
                    new.tools[l].call = new.tools[k].call =>
                      \E q, r \in Later : q # r /\ log[q] = Start(new.tools[k].call)
                                                /\ log[r] = Start(new.tools[k].call)
    <3>1. CASE k = last
      <4>1. \A l \in new.open \ {k} : l \in page.open
        BY <2>1, <3>1
      <4>2. QED
        BY <2>1, <2>3, <2>7, <2>8, <3>1, <4>1
    <3>2. CASE k \in page.open
      <4>1. ASSUME NEW l \in new.open \ {k}, new.tools[l].call = new.tools[k].call
            PROVE  \E q, r \in Later : q # r /\ log[q] = Start(new.tools[k].call)
                                             /\ log[r] = Start(new.tools[k].call)
        <5>1. CASE l = last
          BY <2>1, <2>8, <3>2, <4>1, <5>1
        <5>2. CASE l \in page.open
          <6>1. PICK q \in Seen, r \in Seen : q # r /\ log[q] = Start(tools[k].call)
                                                  /\ log[r] = Start(tools[k].call)
            BY <1>6, <2>6, <3>2, <4>1, <5>2
          <6>2. QED
            BY <2>6, <2>7, <3>2, <6>1
        <5>3. QED
          BY <2>1, <5>1, <5>2
      <4>2. \E q \in Later : log[q] = Start(new.tools[k].call)
        BY <1>6, <2>6, <2>7, <3>2
      <4>3. QED
        BY <4>1, <4>2
    <3>3. QED
      BY <2>1, <3>1, <3>2
  <2>10. ASSUME NEW k \in new.open, NEW p \in Later, log[p] = Result(new.tools[k].call)
         PROVE  ~Undisturbed(new.tools[k].call)
    <3>1. p \in Seen
      <4>1. new.tools[k].call \in Nat
        BY <1>4, <2>1, <2>6
      <4>2. p # j + 1
        BY <1>4, <2>3, <2>10, <4>1, EventRows
      <4>3. QED
        BY <1>1, <4>2
    <3>2. CASE k \in page.open
      BY <1>6, <2>6, <2>10, <3>1, <3>2
    <3>3. CASE k = last
      <4>1. log[p] = Result(row.call)
        BY <2>1, <2>10, <3>3
      <4>2. PICK q \in DOMAIN log : q < p /\ log[q] = Start(row.call)
        BY <1>1, <1>4, <3>1, <4>1 DEF Story, Ordered
      <4>3. q # j + 1
        BY <1>1, <3>1, <4>2
      <4>4. QED
        BY <1>1, <1>4, <2>1, <2>3, <3>3, <4>2, <4>3, Twice
    <3>4. QED
      BY <2>1, <3>2, <3>3
  <2>11. QED
    BY <1>3, <2>4, <2>5, <2>9, <2>10 DEF Honest, Later
<1>16. QED
  BY <1>3, <1>11, <1>12, <1>13, <1>14, <1>15 DEF row, new

LEMMA PageHonest ==
  ASSUME log \in Seq(AllRows), Story, NEW i \in Users
  PROVE  \A j \in i..Len(log) : Honest(Page(log, i)[j], i, j)
<1> DEFINE page == Page(log, i)
           S == {m \in Nat : i + m <= Len(log) => Honest(page[i + m], i, i + m)}
<1>1. /\ i \in DOMAIN log /\ DOMAIN log = 1..Len(log) /\ Len(log) \in Nat
      /\ i \in Nat /\ i + 0 = i
  BY DEF Users
<1>2. /\ page[i] = NoTools
      /\ \A j \in (i + 1)..Len(log) : page[j] = Show(page[j - 1], log[j])
  BY <1>1, PageSteps
<1> HIDE DEF page
<1>3. 0 \in S
  <2>1. NoTools.tools = <<>> /\ NoTools.open = {} /\ NoTools \in Pages /\ DOMAIN NoTools.tools = {}
    BY DEF NoTools, Pages
  <2>2. \A q \in (i + 1)..i : FALSE
    BY <1>1
  <2>3. Honest(NoTools, i, i)
    BY <2>1, <2>2 DEF Honest
  <2>4. QED
    BY <1>1, <1>2, <2>3
<1>4. ASSUME NEW m \in Nat, m \in S
      PROVE  m + 1 \in S
  <2> SUFFICES ASSUME i + (m + 1) <= Len(log) PROVE Honest(page[i + (m + 1)], i, i + (m + 1))
    OBVIOUS
  <2> DEFINE j == i + m
  <2>1. /\ j \in i..(Len(log) - 1) /\ i + (m + 1) = j + 1 /\ j + 1 \in (i + 1)..Len(log)
        /\ (j + 1) - 1 = j /\ j <= Len(log)
    BY <1>1
  <2>2. Honest(page[j], i, j)
    BY <1>4, <2>1
  <2> HIDE DEF j
  <2>3. Honest(Show(page[j], log[j + 1]), i, j + 1)
    BY <2>1, <2>2, HonestAdded
  <2>4. page[j + 1] = Show(page[j], log[j + 1])
    BY <1>2, <2>1
  <2>5. QED
    BY <2>1, <2>3, <2>4
<1>5. \A m \in Nat : m \in S
  <2> HIDE DEF S
  <2>1. QED
    BY <1>3, <1>4, Climb
<1>6. ASSUME NEW j \in i..Len(log)
      PROVE  Honest(page[j], i, j)
  <2>1. j - i \in Nat /\ i + (j - i) = j /\ j <= Len(log)
    BY <1>1
  <2>2. i + (j - i) <= Len(log) => Honest(page[i + (j - i)], i, i + (j - i))
    BY <1>5, <2>1
  <2>3. QED
    BY <2>1, <2>2
<1>7. QED
  BY <1>6 DEF page

LEMMA EndOfMessage ==
  ASSUME log \in Seq(AllRows), NEW i \in Users
  PROVE  End(i) \in i..Len(log) /\ (End(i) < Len(log) => End(i) \in Users)
<1> DEFINE next == {j \in Users : j > i}
<1>1. DOMAIN log = 1..Len(log) /\ Len(log) \in Nat /\ Users \subseteq 1..Len(log) /\ i \in 1..Len(log)
  BY DEF Users
<1>2. CASE next = {}
  BY <1>1, <1>2 DEF End
<1>3. CASE next # {}
  <2>1. End(i) = Min(next)
    BY <1>3 DEF End
  <2>2. next \subseteq Nat
    <3>1. ASSUME NEW j \in next PROVE j \in Nat
      <4>1. j \in Users
        OBVIOUS
      <4>2. j \in 1..Len(log)
        BY <1>1, <4>1
      <4>3. QED
        BY <1>1, <4>2
    <3>2. QED
      BY <3>1
  <2>3. Min(next) \in next
    <3> HIDE DEF next
    <3>1. QED
      BY <1>3, <2>2, Minimum
  <2>4. Min(next) \in Users /\ Min(next) > i /\ Min(next) \in 1..Len(log)
    BY <1>1, <2>3
  <2>5. QED
    <3> HIDE DEF next
    <3>1. QED
      BY <1>1, <2>1, <2>4
<1>4. QED
  BY <1>2, <1>3

LEMMA TruthfulPage == TurnTyped /\ Story => ToolsShownTruthfully
<1> SUFFICES ASSUME TurnTyped, Story, NEW i \in Users,
                    \A k \in DOMAIN Tools(i) : Undisturbed(Tools(i)[k].call) /\ Undisturbed(Tools(i)[k].result)
             PROVE  \A k \in DOMAIN Tools(i) : /\ Tools(i)[k].result \in {0, Tools(i)[k].call}
                                               /\ AtRest => Tools(i)[k].result # 0
  BY DEF ToolsShownTruthfully
<1> DEFINE e == End(i)
           page == Page(log, i)[e]
           tools == page.tools
<1>1. log \in Seq(AllRows)
  BY DEF TurnTyped
<1>2. e \in i..Len(log) /\ (e < Len(log) => e \in Users)
  BY <1>1, EndOfMessage
<1>3. Honest(page, i, e)
  BY <1>1, <1>2, PageHonest
<1>4. Tools(i) = tools
  BY DEF Tools
<1>5. /\ DOMAIN log = 1..Len(log) /\ Len(log) \in Nat /\ i \in 1..Len(log) /\ i \in Nat /\ e \in Nat
      /\ \A u \in Users : u \in DOMAIN log /\ log[u].kind = "user"
  BY <1>1, <1>2 DEF Users
<1> HIDE DEF e, page, tools
<1>6. \A k \in DOMAIN tools :
        /\ tools[k].result \in {0, tools[k].call} \/ ~Undisturbed(tools[k].result)
        /\ tools[k].result = 0 => k \in page.open
  BY <1>3 DEF Honest, tools
<1>7. \A k \in page.open :
        /\ \E q \in (i + 1)..e : log[q] = Start(tools[k].call)
        /\ \A p \in (i + 1)..e : log[p] = Result(tools[k].call) => ~Undisturbed(tools[k].call)
  BY <1>3 DEF Honest, tools
<1>8. \A k \in DOMAIN tools : tools[k].call \in Nat
  <2>1. tools \in Seq(Shown)
    BY <1>3 DEF Honest, Pages, tools
  <2>2. \A k \in DOMAIN tools : tools[k] \in Shown
    BY <2>1, Elements
  <2>3. QED
    BY <2>2 DEF Shown
<1>9. ASSUME NEW k \in DOMAIN tools, AtRest, tools[k].result = 0
      PROVE  FALSE
  <2> DEFINE d == tools[k].call
  <2>1. d \in Nat /\ k \in page.open /\ Undisturbed(d)
    BY <1>4, <1>6, <1>8, <1>9
  <2>2. PICK q \in (i + 1)..e : log[q] = Start(d)
    BY <1>7, <2>1
  <2> HIDE DEF d
  <2>3. q \in DOMAIN log /\ q > i /\ q <= e /\ q \in Nat
    BY <1>2, <1>5
  <2>4. Logged(Start(d))
    BY <2>2, <2>3 DEF Logged
  <2>5. pc = "wait" /\ todo = <<>>
    BY <1>9 DEF AtRest
  <2>6. ~Listed(Result(d))
    BY <2>5 DEF Listed
  <2>7. PICK p \in DOMAIN log : log[p] = Result(d)
    BY <2>1, <2>4, <2>5, <2>6 DEF Story, Logged
  <2>8. PICK s \in DOMAIN log : s < p /\ log[s] = Start(d)
    BY <2>1, <2>7 DEF Story, Ordered
  <2>9. s = q
    BY <1>1, <2>1, <2>2, <2>3, <2>8, Twice
  <2>10. CASE p <= e
    <3>1. p \in (i + 1)..e
      BY <1>5, <2>3, <2>8, <2>9, <2>10
    <3>2. QED
      BY <1>7, <2>1, <2>7, <3>1 DEF d
  <2>11. CASE p > e
    <3>1. e \in Users
      BY <1>2, <1>5, <2>11
    <3>2. q # e
      BY <1>5, <2>1, <2>2, <3>1, EventRows
    <3>3. q \in Positions(Start(d)) /\ e > q
      BY <1>5, <2>2, <2>3, <3>2 DEF Positions
    <3>4. \E r \in Positions(Result(d)) : r < e
      BY <2>1, <3>1, <3>3 DEF Undisturbed, Start, Result
    <3>5. PICK r \in DOMAIN log : log[r] = Result(d) /\ r < e
      BY <3>4 DEF Positions
    <3>6. r # p
      BY <1>5, <2>11, <3>5
    <3>7. QED
      BY <1>1, <2>1, <2>7, <3>5, <3>6, Twice
  <2>12. QED
    BY <1>5, <2>10, <2>11
<1>10. QED
  BY <1>4, <1>6, <1>9

\* _events_to_progress: with what is in the tables, whoever opens the page and whenever,
\* a tool call is never shown with the result of another, and one that has finished is not
\* shown as under way, unless its events were doubled or split by a message.  The rows are
\* a story that the workflow keeps to (Story); that the page reads it rightly is shown by
\* climbing the rows (Honest).
THEOREM ToolsTruthful == Spec => []ToolsShownTruthfully
<1>1. Init => TurnTyped /\ Story
  BY TurnTypeInit, StoryInit
<1>2. TurnTyped /\ Story /\ [Next]_vars => (TurnTyped /\ Story)'
  BY TurnTypeStep, StoryStep
<1>3. TurnTyped /\ Story => ToolsShownTruthfully
  BY TruthfulPage
<1>4. QED
  BY <1>1, <1>2, <1>3, PTL DEF Spec

-----------------------------------------------------------------------------
(* Type correctness. *)

UserMessages == {i \in DOMAIN messages : messages[i].kind = "user"}

Counted ==
  /\ unsignalled + pending <= Cardinality(UserMessages)
  /\ Cardinality(UserMessages) <= MaxMessages

Within(rows) == \A n \in DOMAIN rows : rows[n].call <= MaxAsked

\* Every tool call that a row names was asked for.
Named ==
  /\ Within(log) /\ Within(messages) /\ Within(late) /\ asked <= MaxAsked
  /\ \A m \in DOMAIN todo : Within(todo[m])
  /\ \A k \in DOMAIN calls : calls[k] <= MaxAsked

Staged ==
  /\ pc \in {"wait", "build", "check", "ask", "tools", "answer"}
  /\ iteration \in 0..MaxIterations
  /\ pc \in {"ask", "tools"} => iteration < MaxIterations
  /\ \A i \in DOMAIN messages : messages[i].kind \in Messages

\* The model is sent messages only, and of calls that were asked for.
Contextual ==
  Within(context) /\ \A n \in DOMAIN context : context[n].kind \in Messages

\* Each fault is one late attempt at most.
Faulty ==
  /\ owed \in Nat /\ stale \in Nat /\ landed \in Nat /\ faults \in Nat
  /\ owed + stale + landed <= faults /\ faults <= MaxFaults

LEMMA UserCount ==
  ASSUME TurnTyped, NEW row \in AllRows, Create(row)
  PROVE  /\ Cardinality(UserMessages) \in Nat
         /\ Cardinality(UserMessages)' = IF row.kind = "user" THEN Cardinality(UserMessages) + 1
                                                              ELSE Cardinality(UserMessages)
<1>1. /\ messages \in Seq(AllRows) /\ DOMAIN messages = 1..Len(messages) /\ Len(messages) \in Nat
      /\ Len(messages) + 1 \notin DOMAIN messages
  BY Elements DEF TurnTyped
<1>2. IsFiniteSet(UserMessages) /\ Cardinality(UserMessages) \in Nat
  <2>1. IsFiniteSet(DOMAIN messages)
    BY <1>1, FS_Interval
  <2>2. UserMessages \subseteq DOMAIN messages
    BY DEF UserMessages
  <2>3. QED
    BY <2>1, <2>2, FS_Subset, FS_CardinalityType
<1>3. CASE row.kind \in Messages
  <2>1. messages' = Append(messages, row)
    BY <1>3 DEF Create
  <2>2. /\ DOMAIN messages' = 1..(Len(messages) + 1)
        /\ messages'[Len(messages) + 1] = row
        /\ \A i \in DOMAIN messages : messages'[i] = messages[i]
    BY <1>1, <2>1, AppendProperties
  <2>3. DOMAIN messages' = DOMAIN messages \cup {Len(messages) + 1}
    BY <1>1, <2>2
  <2>4. CASE row.kind = "user"
    <3>1. UserMessages' = UserMessages \cup {Len(messages) + 1}
      BY <1>1, <2>2, <2>3, <2>4 DEF UserMessages
    <3>2. Len(messages) + 1 \notin UserMessages
      BY <1>1 DEF UserMessages
    <3>3. Cardinality(UserMessages \cup {Len(messages) + 1}) = Cardinality(UserMessages) + 1
      BY <1>2, <3>2, FS_AddElement
    <3>4. QED
      BY <1>2, <2>4, <3>1, <3>3
  <2>5. CASE row.kind # "user"
    <3>1. UserMessages' = UserMessages
      BY <1>1, <2>2, <2>3, <2>5 DEF UserMessages
    <3>2. QED
      BY <1>2, <2>5, <3>1
  <2>6. QED
    BY <2>4, <2>5
<1>4. CASE row.kind \notin Messages
  <2>1. UserMessages' = UserMessages /\ row.kind # "user"
    BY <1>4 DEF Create, UserMessages, Messages
  <2>2. QED
    BY <1>2, <2>1
<1>5. QED
  BY <1>3, <1>4

LEMMA CountedStep == TurnTyped /\ Counted /\ [Next]_vars => Counted'
<1> SUFFICES ASSUME TurnTyped, Counted, [Next]_vars PROVE Counted'
  OBVIOUS
<1>1. unsignalled \in Nat /\ pending \in Nat
  BY DEF TurnTyped
<1>2. CASE SaveMessage
  <2>1. /\ Row("user", 0) \in AllRows /\ Row("user", 0).kind = "user" /\ Create(Row("user", 0))
        /\ Cardinality(UserMessages) < MaxMessages
        /\ unsignalled' = unsignalled + 1 /\ pending' = pending
    BY <1>2, RowKinds DEF SaveMessage, Messages, UserMessages
  <2>2. /\ Cardinality(UserMessages)' = Cardinality(UserMessages) + 1
        /\ Cardinality(UserMessages) \in Nat
    BY <2>1, UserCount
  <2>3. QED
    BY <1>1, <2>1, <2>2, BoundsAssumption DEF Counted
<1>3. CASE Write \/ LateWrite
  <2>1. PICK row \in AllRows : Create(row) /\ row.kind # "user" /\ UNCHANGED <<unsignalled, pending>>
    <3>1. \A c \in Nat : Row("call", c).kind = "call" /\ Row("tool", c).kind = "tool"
      BY RowKinds DEF Messages
    <3>2. QED
      BY <1>3, <3>1, Written, WrittenLate
  <2>2. Cardinality(UserMessages)' = Cardinality(UserMessages)
    BY <2>1, UserCount
  <2>3. QED
    BY <2>1, <2>2 DEF Counted
<1>4. CASE SignalMessage
  <2>1. /\ UserMessages' = UserMessages /\ unsignalled > 0
        /\ unsignalled' = unsignalled - 1 /\ pending' = pending + 1
    BY <1>4 DEF SignalMessage, tables, UserMessages
  <2>2. unsignalled' + pending' = unsignalled + pending
    BY <1>1, <2>1
  <2>3. QED
    BY <2>1, <2>2 DEF Counted
<1>5. CASE Take
  <2>1. /\ UserMessages' = UserMessages /\ pending > 0
        /\ unsignalled' = unsignalled /\ pending' = pending - 1
    BY <1>5 DEF Take, TurnStep, tables, UserMessages
  <2>2. messages \in Seq(AllRows)
    BY DEF TurnTyped
  <2>3. Cardinality(UserMessages) \in Nat
    <3>1. DOMAIN messages = 1..Len(messages) /\ Len(messages) \in Nat
      BY <2>2
    <3>2. UserMessages \subseteq DOMAIN messages /\ IsFiniteSet(DOMAIN messages)
      BY <3>1, FS_Interval DEF UserMessages
    <3>3. QED
      BY <3>2, FS_Subset, FS_CardinalityType
  <2>4. unsignalled' + pending' <= Cardinality(UserMessages)
    BY <1>1, <2>1, <2>3 DEF Counted
  <2>5. QED
    BY <2>1, <2>4 DEF Counted
<1>6. CASE \/ GiveUp \/ BuildContext \/ Iterate \/ CannotAsk \/ Ask \/ RunTools \/ Answer
           \/ GiveUpAsk \/ LateCharge \/ LateInitialize \/ UNCHANGED vars
  <2>1. UNCHANGED <<messages, unsignalled, pending>>
    BY <1>6 DEF GiveUp, BuildContext, Iterate, CannotAsk, Ask, RunTools, Answer, GiveUpAsk, LateCharge,
                LateInitialize, vars, TurnStep, tables, userVars
  <2>2. QED
    BY <2>1 DEF Counted, UserMessages
<1>7. QED
  BY <1>2, <1>3, <1>4, <1>5, <1>6 DEF Next, Turn

LEMMA FaultyStep == Faulty /\ [Next]_vars => Faulty'
<1> SUFFICES ASSUME Faulty, [Next]_vars PROVE Faulty'
  OBVIOUS
<1>1. CASE GiveUp
  BY <1>1, BoundsAssumption DEF GiveUp, Fault, Faulty, sessionVars
<1>2. CASE GiveUpAsk
  BY <1>2, BoundsAssumption DEF GiveUpAsk, Fault, Faulty
<1>3. CASE LateCharge
  BY <1>3 DEF LateCharge, Faulty
<1>4. CASE LateInitialize
  BY <1>4 DEF LateInitialize, Faulty
<1>5. CASE SaveMessage \/ SignalMessage \/ Write \/ LateWrite \/ Turn \/ UNCHANGED vars
  <2>1. UNCHANGED <<owed, stale, landed, faults>>
    BY <1>5 DEF SaveMessage, SignalMessage, Write, LateWrite, Turn, Take, BuildContext, Iterate,
                CannotAsk, Ask, RunTools, Answer, TurnStep, sessionVars, vars
  <2>2. QED
    BY <2>1 DEF Faulty
<1>6. QED
  BY <1>1, <1>2, <1>3, <1>4, <1>5 DEF Next

LEMMA StagedStep == TurnTyped /\ Staged /\ [Next]_vars => Staged'
<1> SUFFICES ASSUME TurnTyped, Staged, [Next]_vars PROVE Staged'
  OBVIOUS
<1>1. CASE SaveMessage \/ Write \/ LateWrite
  <2>1. UNCHANGED <<pc, iteration>> /\ \E row \in AllRows : Create(row)
    <3>1. Row("user", 0) \in AllRows
      BY RowKinds DEF Messages
    <3>2. UNCHANGED <<pc, iteration>>
      BY <1>1 DEF SaveMessage, Write, LateWrite, turnVars
    <3>3. QED
      BY <1>1, <3>1, <3>2, Written, WrittenLate DEF SaveMessage
  <2>2. PICK row \in AllRows : Create(row)
    BY <2>1
  <2>3. \A i \in DOMAIN messages' : messages'[i].kind \in Messages
    <3>1. CASE row.kind \in Messages
      <4>1. messages' = Append(messages, row) /\ messages \in Seq(AllRows)
        BY <2>2, <3>1 DEF Create, TurnTyped
      <4>2. \A i \in DOMAIN messages' : messages'[i] = row
                                        \/ (i \in DOMAIN messages /\ messages'[i] = messages[i])
        BY <4>1
      <4>3. QED
        BY <3>1, <4>2 DEF Staged
    <3>2. CASE row.kind \notin Messages
      BY <2>2, <3>2 DEF Create, Staged
    <3>3. QED
      BY <3>1, <3>2
  <2>4. QED
    BY <2>1, <2>3 DEF Staged
<1>2. CASE Turn
  <2>1. UNCHANGED messages
    BY <1>2 DEF Turn, Take, BuildContext, Iterate, CannotAsk, Ask, RunTools, Answer, TurnStep, tables
  <2>2. CASE Take \/ CannotAsk \/ Ask \/ Answer
    <3>1. iteration' = iteration /\ pc' \in {"build", "answer", "tools", "wait"}
          /\ (pc' = "tools" => pc = "ask")
      BY <2>2 DEF Take, CannotAsk, Ask, Answer, At, Goto
    <3>2. QED
      BY <2>1, <3>1 DEF Staged
  <2>3. CASE BuildContext
    BY <2>1, <2>3, BoundsAssumption DEF BuildContext, Goto, Staged
  <2>4. CASE Iterate
    <3>1. /\ iteration' = iteration
          /\ pc' \in {"wait", "ask", "answer"} /\ (pc' = "ask" => iteration < MaxIterations)
      BY <2>4 DEF Iterate, Goto
    <3>2. QED
      BY <2>1, <3>1 DEF Staged
  <2>5. CASE RunTools
    <3>1. pc = "tools" /\ pc' = "check" /\ iteration' = iteration + 1
      BY <2>5 DEF RunTools, At, Goto
    <3>2. iteration' \in 0..MaxIterations
      BY <3>1, BoundsAssumption DEF Staged
    <3>3. QED
      BY <2>1, <3>1, <3>2 DEF Staged
  <2>6. QED
    BY <1>2, <2>2, <2>3, <2>4, <2>5 DEF Turn
<1>3. CASE SignalMessage \/ GiveUp \/ GiveUpAsk \/ LateCharge \/ LateInitialize \/ UNCHANGED vars
  <2>1. UNCHANGED <<messages, pc, iteration>>
    BY <1>3 DEF SignalMessage, GiveUp, GiveUpAsk, LateCharge, LateInitialize, vars, turnVars, tables
  <2>2. QED
    BY <2>1 DEF Staged
<1>4. QED
  BY <1>1, <1>2, <1>3 DEF Next

LEMMA RowsWithin ==
  ASSUME NEW row \in AllRows, NEW c \in Nat
  PROVE  /\ Within(<<row>>) <=> row.call <= MaxAsked
         /\ Within(Pair(c)) <=> c <= MaxAsked
         /\ Within(<<>>) /\ Within(Think) /\ Within(Answered)
         /\ \A k \in Messages \cup Events : c <= MaxAsked => Within(<<Row(k, c)>>)
<1>1. Within(<<row>>) <=> row.call <= MaxAsked
  BY DEF Within
<1>2. /\ DOMAIN Pair(c) = 1..2 /\ Pair(c)[1].call = c /\ Pair(c)[2].call = c
  <2>1. Row("call", c).call = c /\ Row("tool", c).call = c
    BY RowKinds DEF Messages
  <2>2. QED
    BY <2>1, Pairing
<1>3. \A k \in Messages \cup Events, d \in Nat :
        /\ DOMAIN <<Row(k, d)>> = 1..1 /\ <<Row(k, d)>>[1] = Row(k, d) /\ Row(k, d).call = d
  BY RowKinds
<1>4. \A k \in Messages \cup Events, d \in Nat : d <= MaxAsked => Within(<<Row(k, d)>>)
  BY <1>3 DEF Within
<1>5. "thinking" \in Messages \cup Events /\ "answer" \in Messages \cup Events /\ 0 <= MaxAsked
  BY BoundsAssumption DEF Messages, Events
<1>6. QED
  BY <1>1, <1>2, <1>4, <1>5 DEF Within, Think, Answered

LEMMA ActivitiesWithin ==
  ASSUME NEW cs \in Seq(Nat), \A k \in DOMAIN cs : cs[k] <= MaxAsked
  PROVE  /\ \A m \in DOMAIN Announced(cs) : Within(Announced(cs)[m])
         /\ \A m \in DOMAIN Append(Reported(cs), Think) : Within(Append(Reported(cs), Think)[m])
<1>1. DOMAIN cs = 1..Len(cs) /\ Len(cs) \in Nat /\ \A k \in DOMAIN cs : cs[k] \in Nat
  BY Elements
<1>2. \A k \in DOMAIN cs : /\ Within(<<Row("started", cs[k])>>) /\ Within(<<Row("result", cs[k])>>)
                           /\ Within(Pair(cs[k]))
                           /\ Row("call", cs[k]).call <= MaxAsked /\ Row("tool", cs[k]).call <= MaxAsked
  <2>1. \A d \in Nat : Row("call", d).call = d /\ Row("tool", d).call = d /\ Row("call", d) \in AllRows
    BY RowKinds DEF Messages
  <2>2. {"started", "result"} \subseteq Messages \cup Events
    BY DEF Messages, Events
  <2>3. \A d \in Nat : d <= MaxAsked => /\ Within(<<Row("started", d)>>) /\ Within(<<Row("result", d)>>)
                                        /\ Within(Pair(d))
    BY <2>1, <2>2, RowsWithin
  <2>4. QED
    BY <1>1, <2>1, <2>3
<1>3. Within(Think)
  <2>1. Row("call", 0) \in AllRows
    BY RowKinds DEF Messages
  <2>2. QED
    BY <2>1, RowsWithin
<1>4. \A i \in 1..(2 * Len(cs)) : /\ i % 2 = 1 => (i + 1) \div 2 \in DOMAIN cs
                                  /\ i % 2 # 1 => i \div 2 \in DOMAIN cs
  BY <1>1, Halves
<1>5. ASSUME NEW m \in DOMAIN Announced(cs)
      PROVE  Within(Announced(cs)[m])
  <2>1. /\ m \in 1..(2 * Len(cs))
        /\ Announced(cs)[m] = IF m % 2 = 1 THEN Think ELSE <<Row("started", cs[m \div 2])>>
    BY <1>1 DEF Announced
  <2>2. QED
    BY <1>2, <1>3, <1>4, <2>1
<1>6. ASSUME NEW m \in DOMAIN Append(Reported(cs), Think)
      PROVE  Within(Append(Reported(cs), Think)[m])
  <2>1. /\ DOMAIN Reported(cs) = 1..(2 * Len(cs))
        /\ \A i \in 1..(2 * Len(cs)) :
             Reported(cs)[i] = IF i % 2 = 1 THEN <<Row("result", cs[(i + 1) \div 2])>>
                                            ELSE Pair(cs[i \div 2])
    BY <1>1 DEF Reported
  <2>2. Reported(cs) \in Seq(Activities)
    BY TurnActivities
  <2>3. \/ Append(Reported(cs), Think)[m] = Think
        \/ m \in 1..(2 * Len(cs)) /\ Append(Reported(cs), Think)[m] = Reported(cs)[m]
    BY <2>1, <2>2
  <2>4. QED
    BY <1>2, <1>3, <1>4, <2>1, <2>3
<1>7. QED
  BY <1>5, <1>6

LEMMA NamedCreate ==
  ASSUME TurnTyped, Named, NEW row \in AllRows, Create(row), row.call <= MaxAsked
  PROVE  Within(log') /\ Within(messages')
<1>1. ASSUME NEW rows \in Seq(AllRows), Within(rows)
      PROVE  Within(Append(rows, row))
  BY <1>1 DEF Within
<1>2. QED
  BY <1>1 DEF Create, TurnTyped, Named

LEMMA NamedStep == TurnTyped /\ Named /\ [Next]_vars => Named'
<1> SUFFICES ASSUME TurnTyped, Named, [Next]_vars PROVE Named'
  OBVIOUS
<1>1. /\ todo \in Seq(Activities) /\ calls \in Seq(Nat) /\ asked \in Nat
  BY DEF TurnTyped
<1>2. CASE SaveMessage
  <2>1. /\ Row("user", 0) \in AllRows /\ Row("user", 0).call = 0 /\ Create(Row("user", 0))
        /\ UNCHANGED <<todo, late, calls, asked>>
    BY <1>2, RowKinds DEF SaveMessage, Messages, recordVars, turnVars
  <2>2. Within(log') /\ Within(messages')
    BY <2>1, NamedCreate, BoundsAssumption
  <2>3. QED
    BY <2>1, <2>2 DEF Named
<1>3. \A c \in Nat : /\ Row("call", c) \in AllRows /\ Row("call", c).call = c
                     /\ Row("tool", c) \in AllRows /\ Row("tool", c).call = c
  BY RowKinds DEF Messages
<1>4. todo # <<>> => /\ 1 \in DOMAIN todo /\ Head(todo) = todo[1] /\ Within(Head(todo))
                     /\ \A m \in DOMAIN Tail(todo) : Within(Tail(todo)[m])
  <2>1. todo # <<>> => /\ 1 \in DOMAIN todo /\ Head(todo) = todo[1]
                       /\ \A m \in DOMAIN Tail(todo) : m + 1 \in DOMAIN todo /\ Tail(todo)[m] = todo[m + 1]
    BY <1>1
  <2>2. QED
    BY <2>1 DEF Named
<1>5. CASE Write
  <2>1. PICK row \in AllRows :
           /\ Create(row) /\ UNCHANGED <<late, calls, asked>>
           /\ \/ Head(todo) = <<row>> \/ \E c \in Nat : Saving(c) /\ row \in {Row("call", c), Row("tool", c)}
           /\ todo' \in {todo, Tail(todo)}
    BY <1>5, Written
  <2>2. todo # <<>>
    BY <1>5 DEF Write
  <2>3. row.call <= MaxAsked
    <3>1. CASE Head(todo) = <<row>>
      BY <1>4, <2>2, <3>1, RowsWithin
    <3>2. CASE \E c \in Nat : Saving(c) /\ row \in {Row("call", c), Row("tool", c)}
      BY <1>3, <1>4, <2>2, <3>2, RowsWithin DEF Saving
    <3>3. QED
      BY <2>1, <3>1, <3>2
  <2>4. Within(log') /\ Within(messages')
    BY <2>1, <2>3, NamedCreate
  <2>5. QED
    BY <1>4, <2>1, <2>2, <2>4 DEF Named
<1>6. CASE GiveUp
  <2>1. /\ UNCHANGED <<log, messages, calls, asked, todo>>
        /\ \/ todo # <<>> /\ late' = Head(todo)
           \/ \E c \in Nat : Saving(c) /\ late' = <<Row("tool", c)>>
    BY <1>6, GivenUp DEF tables
  <2>2. Within(late')
    <3>1. CASE todo # <<>> /\ late' = Head(todo)
      BY <1>4, <3>1
    <3>2. CASE \E c \in Nat : Saving(c) /\ late' = <<Row("tool", c)>>
      <4>1. PICK c \in Nat : Saving(c) /\ late' = <<Row("tool", c)>>
        BY <3>2
      <4>2. c <= MaxAsked
        BY <1>3, <1>4, <4>1, RowsWithin DEF Saving
      <4>3. QED
        BY <1>3, <4>1, <4>2, RowsWithin
    <3>3. QED
      BY <2>1, <3>1, <3>2
  <2>3. QED
    BY <2>1, <2>2 DEF Named
<1>7. CASE LateWrite
  <2>1. PICK row \in AllRows :
           /\ Create(row) /\ UNCHANGED <<calls, asked, todo>>
           /\ \/ late = <<row>> /\ late' = <<>>
              \/ \E c \in Nat : late = Pair(c) /\ row = Row("call", c) /\ late' = <<Row("tool", c)>>
    BY <1>7, WrittenLate
  <2>2. row.call <= MaxAsked /\ Within(late')
    <3>1. CASE late = <<row>> /\ late' = <<>>
      BY <3>1, RowsWithin DEF Named, Within
    <3>2. CASE \E c \in Nat : late = Pair(c) /\ row = Row("call", c) /\ late' = <<Row("tool", c)>>
      BY <1>3, <3>2, RowsWithin DEF Named
    <3>3. QED
      BY <2>1, <3>1, <3>2
  <2>3. Within(log') /\ Within(messages')
    BY <2>1, <2>2, NamedCreate
  <2>4. QED
    BY <2>1, <2>2, <2>3 DEF Named
<1>8. CASE Take \/ BuildContext \/ Iterate \/ CannotAsk \/ Answer
  <2>1. /\ UNCHANGED <<log, messages, late, calls, asked>>
        /\ todo' \in {<<>>, <<Think>>, <<Answered>>}
    BY <1>8 DEF Take, BuildContext, Iterate, CannotAsk, Answer, Goto, TurnStep, tables, Answered
  <2>2. Within(Think) /\ Within(Answered)
    BY <1>3, RowsWithin
  <2>3. \A m \in DOMAIN todo' : todo'[m] \in {Think, Answered}
    BY <2>1
  <2>4. QED
    BY <2>1, <2>2, <2>3 DEF Named
<1>9. CASE Ask
  <2>1. /\ UNCHANGED <<log, messages, late>>
        /\ \/ todo' = <<>> /\ UNCHANGED <<calls, asked>>
           \/ \E n \in 1..MaxCalls : /\ asked + n <= MaxAsked /\ asked' = asked + n
                                     /\ calls' = [k \in 1..n |-> asked + k]
                                     /\ todo' = Announced(calls')
    BY <1>9, Zenon DEF Ask, Goto, TurnStep, tables
  <2>2. CASE todo' = <<>> /\ UNCHANGED <<calls, asked>>
    BY <2>1, <2>2 DEF Named
  <2>3. CASE \E n \in 1..MaxCalls : /\ asked + n <= MaxAsked /\ asked' = asked + n
                                    /\ calls' = [k \in 1..n |-> asked + k]
                                    /\ todo' = Announced(calls')
    <3>1. PICK n \in 1..MaxCalls : /\ asked + n <= MaxAsked /\ asked' = asked + n
                                   /\ calls' = [k \in 1..n |-> asked + k]
                                   /\ todo' = Announced(calls')
      BY <2>3
    <3>2. n \in Nat /\ calls' \in [1..n -> Nat] /\ \A k \in DOMAIN calls' : calls'[k] <= MaxAsked
      BY <1>1, <3>1, BoundsAssumption
    <3>3. calls' \in Seq(Nat)
      BY <3>2, IsElements
    <3>4. \A m \in DOMAIN todo' : Within(todo'[m])
      BY <3>1, <3>2, <3>3, ActivitiesWithin
    <3>5. QED
      BY <2>1, <3>1, <3>2, <3>4 DEF Named
  <2>4. QED
    BY <2>1, <2>2, <2>3
<1>10. CASE RunTools
  <2>1. UNCHANGED <<log, messages, late, calls, asked>> /\ todo' = Append(Reported(calls), Think)
    BY <1>10 DEF RunTools, Goto, TurnStep, tables
  <2>2. \A m \in DOMAIN todo' : Within(todo'[m])
    BY <1>1, <2>1, ActivitiesWithin DEF Named
  <2>3. QED
    BY <2>1, <2>2 DEF Named
<1>11. CASE SignalMessage \/ GiveUpAsk \/ LateCharge \/ LateInitialize \/ UNCHANGED vars
  <2>1. UNCHANGED <<log, messages, late, calls, asked, todo>>
    BY <1>11 DEF SignalMessage, GiveUpAsk, LateCharge, LateInitialize, vars, turnVars, recordVars, tables
  <2>2. QED
    BY <2>1 DEF Named
<1>12. QED
  BY <1>2, <1>5, <1>6, <1>7, <1>8, <1>9, <1>10, <1>11 DEF Next, Turn

LEMMA PairsWithin ==
  ASSUME NEW cs \in Seq(Nat), \A k \in DOMAIN cs : cs[k] <= MaxAsked
  PROVE  \A j \in DOMAIN Pairs(cs) : Pairs(cs)[j].kind \in Messages /\ Pairs(cs)[j].call <= MaxAsked
<1>1. DOMAIN cs = 1..Len(cs) /\ Len(cs) \in Nat /\ \A k \in DOMAIN cs : cs[k] \in Nat
  BY Elements
<1>2. \A d \in Nat : /\ Row("call", d).kind \in Messages /\ Row("call", d).call = d
                     /\ Row("tool", d).kind \in Messages /\ Row("tool", d).call = d
  BY RowKinds DEF Messages
<1>3. TAKE j \in DOMAIN Pairs(cs)
<1>4. /\ j \in 1..(2 * Len(cs))
      /\ Pairs(cs)[j] = IF j % 2 = 1 THEN Row("call", cs[(j + 1) \div 2])
                                     ELSE Row("tool", cs[j \div 2])
  BY <1>1 DEF Pairs
<1>5. /\ j % 2 = 1 => (j + 1) \div 2 \in DOMAIN cs
      /\ j % 2 # 1 => j \div 2 \in DOMAIN cs
  BY <1>1, <1>4, Halves
<1>6. QED
  BY <1>1, <1>2, <1>4, <1>5

LEMMA ContextualStep == TurnTyped /\ Named /\ Staged /\ Contextual /\ [Next]_vars => Contextual'
<1> SUFFICES ASSUME TurnTyped, Named, Staged, Contextual, [Next]_vars PROVE Contextual'
  OBVIOUS
<1>1. CASE BuildContext
  <2>1. context' = messages
    BY <1>1 DEF BuildContext
  <2>2. QED
    BY <2>1 DEF Named, Staged, Contextual, Within
<1>2. CASE RunTools
  <2>1. context' = context \o Pairs(calls)
    BY <1>2 DEF RunTools
  <2>2. context \in Seq(AllRows) /\ calls \in Seq(Nat) /\ Pairs(calls) \in Seq(AllRows)
    BY TurnActivities DEF TurnTyped
  <2>3. \A j \in DOMAIN Pairs(calls) :
          Pairs(calls)[j].kind \in Messages /\ Pairs(calls)[j].call <= MaxAsked
    BY <2>2, PairsWithin DEF Named
  <2>4. \A n \in DOMAIN context' :
          \/ n \in DOMAIN context /\ context'[n] = context[n]
          \/ \E j \in DOMAIN Pairs(calls) : context'[n] = Pairs(calls)[j]
    <3>1. /\ DOMAIN context = 1..Len(context) /\ Len(context) \in Nat
          /\ DOMAIN Pairs(calls) = 1..Len(Pairs(calls)) /\ Len(Pairs(calls)) \in Nat
      BY <2>2, Elements
    <3>2. /\ DOMAIN context' = 1..(Len(context) + Len(Pairs(calls)))
          /\ \A n \in DOMAIN context' :
               context'[n] = IF n <= Len(context) THEN context[n] ELSE Pairs(calls)[n - Len(context)]
      BY <2>1, <2>2
    <3>3. QED
      BY <3>1, <3>2
  <2>5. QED
    BY <2>3, <2>4 DEF Contextual, Within
<1>3. CASE \/ Take \/ Iterate \/ CannotAsk \/ Ask \/ Answer \/ SaveMessage \/ SignalMessage \/ Write
           \/ GiveUp \/ LateWrite \/ GiveUpAsk \/ LateCharge \/ LateInitialize \/ UNCHANGED vars
  <2>1. UNCHANGED context
    BY <1>3 DEF Take, Iterate, CannotAsk, Ask, Answer, SaveMessage, SignalMessage, Write, GiveUp,
                LateWrite, GiveUpAsk, LateCharge, LateInitialize, vars, turnVars
  <2>2. QED
    BY <2>1 DEF Contextual, Within
<1>4. QED
  BY <1>1, <1>2, <1>3 DEF Next, Turn

LEMMA BoundsInit == Init => TurnTyped /\ Counted /\ Named /\ Staged /\ Contextual /\ Faulty
<1> SUFFICES ASSUME Init PROVE TurnTyped /\ Counted /\ Named /\ Staged /\ Contextual /\ Faulty
  OBVIOUS
<1>1. UserMessages = {} /\ Cardinality({}) = 0
  BY FS_EmptySet DEF Init, UserMessages
<1>2. Counted
  BY <1>1, BoundsAssumption DEF Init, Counted
<1>3. Named
  BY BoundsAssumption DEF Init, Named, Within
<1>4. Staged /\ Contextual /\ Faulty
  BY BoundsAssumption DEF Init, Staged, Contextual, Within, Faulty
<1>5. QED
  BY <1>2, <1>3, <1>4, TurnTypeInit

LEMMA Retyped ==
  ASSUME NEW T, NEW U, NEW s \in Seq(T), \A n \in DOMAIN s : s[n] \in U
  PROVE  s \in Seq(U)
<1>1. s \in [1..Len(s) -> T] /\ Len(s) \in Nat
  OBVIOUS
<1>2. s \in [1..Len(s) -> U]
  BY <1>1
<1>3. QED
  BY <1>1, <1>2, IsElements

\* Rows whose calls are bounded are typed.
LEMMA RowsTyped ==
  ASSUME NEW kinds, NEW rows \in Seq(AllRows), Within(rows),
         \A n \in DOMAIN rows : rows[n].kind \in kinds
  PROVE  rows \in Seq(RowsOf(kinds))
<1>1. \A n \in DOMAIN rows : rows[n] \in AllRows
  BY Elements
<1>2. \A n \in DOMAIN rows : rows[n] \in RowsOf(kinds)
  BY <1>1, BoundsAssumption DEF AllRows, Within, RowsOf
<1>3. QED
  BY <1>2, Retyped

LEMMA AnyRowsTyped ==
  ASSUME NEW rows \in Seq(AllRows), Within(rows)
  PROVE  rows \in Seq(RowsOf(Messages \cup Events))
<1>1. \A n \in DOMAIN rows : rows[n] \in AllRows
  BY Elements
<1>2. \A n \in DOMAIN rows : rows[n].kind \in Messages \cup Events
  BY <1>1 DEF AllRows
<1>3. QED
  BY <1>2, RowsTyped

\* The rows of an activity, and what is left of one given up.
LEMMA ActivityRows == \A a \in Activities \cup Lates : a \in Seq(AllRows)
<1>1. \A a \in Activities : a \in Seq(AllRows)
  BY Single, Pairing DEF Activities
<1>2. \A c \in Nat : <<Row("tool", c)>> \in Seq(AllRows)
  <2>1. \A c \in Nat : Row("tool", c) \in AllRows
    BY RowKinds DEF Messages
  <2>2. QED
    BY <2>1
<1>3. <<>> \in Seq(AllRows)
  OBVIOUS
<1>4. ASSUME NEW a \in Activities \cup Lates PROVE a \in Seq(AllRows)
  <2>1. a \in Activities \/ a = <<>> \/ \E c \in Nat : a = <<Row("tool", c)>>
    BY DEF Lates
  <2>2. QED
    BY <1>1, <1>2, <1>3, <2>1, Zenon
<1>5. QED
  BY <1>4

\* TypeOK: every row on the page, yet to be written, or sent to the model names a call
\* that was asked for; the model is sent no event; only the second row of a pair is ever
\* yet to be written by an attempt that wrote one; no more messages wait than were
\* saved, and an activity given up is counted once.
THEOREM TypeCorrect == Spec => []TypeOK
<1> DEFINE Bounded == TurnTyped /\ Counted /\ Named /\ Staged /\ Contextual /\ Faulty /\ IInv
<1>1. Init => Bounded
  BY BoundsInit, InitInv
<1>2. Bounded /\ [Next]_vars => Bounded'
  BY TurnTypeStep, CountedStep, NamedStep, StagedStep, ContextualStep, FaultyStep, NextInv
<1>3. Bounded => TypeOK
  <2> SUFFICES ASSUME Bounded PROVE TypeOK
    OBVIOUS
  <2> DEFINE Kinds == Messages \cup Events
  <2>1. log \in Seq(RowsOf(Kinds)) /\ late \in Seq(RowsOf(Kinds))
    BY AnyRowsTyped, ActivityRows DEF TurnTyped, Named
  <2>2. messages \in Seq(RowsOf(Messages)) /\ context \in Seq(RowsOf(Messages))
    BY RowsTyped DEF TurnTyped, Named, Staged, Contextual
  <2>9. todo \in Seq(Seq(RowsOf(Kinds)))
    <3>1. todo \in Seq(Activities) /\ \A m \in DOMAIN todo : todo[m] \in Activities
      BY Elements DEF TurnTyped
    <3>2. \A m \in DOMAIN todo : todo[m] \in Seq(RowsOf(Kinds))
      BY <3>1, AnyRowsTyped, ActivityRows DEF Named
    <3> HIDE DEF Kinds
    <3>3. QED
      BY <3>1, <3>2, Retyped
  <2>10. written \in 0..1 /\ (written = 1 => todo # <<>> /\ Len(Head(todo)) = 2)
    BY Pairing DEF TurnTyped, Saving
  <2>11. calls \in Seq(0..MaxAsked)
    <3>1. calls \in Seq(Nat) /\ \A k \in DOMAIN calls : calls[k] \in Nat /\ calls[k] <= MaxAsked
      BY Elements DEF TurnTyped, Named
    <3>2. \A k \in DOMAIN calls : calls[k] \in 0..MaxAsked
      BY <3>1, BoundsAssumption
    <3>3. QED
      BY <3>1, <3>2, Retyped
  <2>3. unsignalled \in 0..MaxMessages /\ pending \in 0..MaxMessages
    <3>1. Cardinality(UserMessages) \in Nat
      <4>1. DOMAIN messages = 1..Len(messages) /\ Len(messages) \in Nat
        BY Elements DEF TurnTyped
      <4>2. UserMessages \subseteq DOMAIN messages /\ IsFiniteSet(DOMAIN messages)
        BY <4>1, FS_Interval DEF UserMessages
      <4>3. QED
        BY <4>2, FS_Subset, FS_CardinalityType
    <3>2. QED
      BY <3>1, BoundsAssumption DEF Counted, TurnTyped
  <2>4. asked \in 0..MaxAsked
    BY BoundsAssumption DEF Named, TurnTyped
  <2>5. /\ owed \in 0..MaxFaults /\ stale \in 0..MaxFaults /\ landed \in 0..MaxFaults
        /\ faults \in 0..MaxFaults
    BY BoundsAssumption DEF Faulty
  <2>6. QED
    BY <2>1, <2>2, <2>3, <2>4, <2>5, <2>9, <2>10, <2>11 DEF TypeOK, TurnTyped, Staged, IInv
<1> HIDE DEF Bounded
<1>4. QED
  BY <1>1, <1>2, <1>3, PTL DEF Spec

-----------------------------------------------------------------------------
(* A turn ends. *)

\* The stages before the end of the turn, an iteration of the loop counting as one.
Stage ==
  CASE pc = "wait" -> 0
    [] pc = "answer" -> 1
    [] pc \in {"check", "ask", "tools"} -> 2 + (MaxIterations - iteration)
    [] OTHER -> 3 + MaxIterations
\* The steps of the iteration, and of the first activity.
Step == CASE pc = "check" -> 2 [] pc = "ask" -> 1 [] OTHER -> 0

\* What the workflow has left to do, most significant first.
Left == <<pending, Stage, Step, Len(todo), 1 - written>>

Lower(a, b) == \E k \in 1..5 : a[k] < b[k] /\ \A j \in 1..(k - 1) : a[j] = b[j]

RunsDown ==
  /\ Turn \/ Write => Lower(Left', Left)
  /\ ~SignalMessage /\ ~GiveUp => Lower(Left', Left) \/ Left' = Left

LEMMA Measured ==
  ASSUME TurnTyped, Staged
  PROVE  Left \in [1..5 -> Nat]
<1>1. pending \in Nat /\ Len(todo) \in Nat /\ 1 - written \in Nat
  BY DEF TurnTyped
<1>2. Stage \in Nat
  <2>1. MaxIterations \in Nat /\ iteration \in Nat /\ MaxIterations - iteration \in Nat
    BY BoundsAssumption DEF Staged
  <2>2. QED
    BY <2>1 DEF Stage
<1>3. Step \in Nat
  BY DEF Step
<1>4. QED
  BY <1>1, <1>2, <1>3 DEF Left

\* A step of the turn lowers the stage, or leaves it and lowers the step.
LEMMA TurnRunsDown ==
  ASSUME TurnTyped, Staged, Turn
  PROVE  Lower(Left', Left)
<1>1. MaxIterations \in Nat /\ iteration \in Nat /\ iteration <= MaxIterations /\ pending \in Nat
  BY BoundsAssumption DEF Staged, TurnTyped
<1>2. /\ Left[1] = pending /\ Left[2] = Stage /\ Left[3] = Step
      /\ Left'[1] = pending' /\ Left'[2] = Stage' /\ Left'[3] = Step'
  BY DEF Left
<1>3. CASE Take
  <2>1. pending' < pending
    BY <1>1, <1>3 DEF Take
  <2>2. QED
    BY <1>2, <2>1 DEF Lower
<1>4. ASSUME ~Take
      PROVE  pending' = pending /\ (Stage' < Stage \/ (Stage' = Stage /\ Step' < Step))
  <2>1. CASE BuildContext
    BY <1>1, <2>1 DEF BuildContext, At, Goto, Stage, Step
  <2>2. CASE Iterate
    <3>1. /\ pc = "check" /\ iteration' = iteration /\ pending' = pending
          /\ pc' \in {"wait", "ask", "answer"}
      BY <2>2 DEF Iterate, At, Goto
    <3>2. QED
      BY <1>1, <3>1 DEF Stage, Step
  <2>3. CASE CannotAsk \/ Ask
    <3>1. /\ pc = "ask" /\ iteration' = iteration /\ pending' = pending
          /\ pc' \in {"answer", "tools"}
      BY <2>3 DEF CannotAsk, Ask, At, Goto
    <3>2. QED
      BY <1>1, <3>1 DEF Stage, Step
  <2>4. CASE RunTools
    <3>1. /\ pc = "tools" /\ iteration' = iteration + 1 /\ pending' = pending /\ pc' = "check"
      BY <2>4 DEF RunTools, At, Goto
    <3>2. QED
      BY <1>1, <3>1 DEF Stage, Step
  <2>5. CASE Answer
    <3>1. pc = "answer" /\ pc' = "wait" /\ pending' = pending
      BY <2>5 DEF Answer, At, Goto
    <3>2. QED
      BY <3>1 DEF Stage
  <2>6. QED
    BY <1>4, <2>1, <2>2, <2>3, <2>4, <2>5 DEF Turn
<1>5. QED
  BY <1>2, <1>3, <1>4 DEF Lower

LEMMA WriteRunsDown ==
  ASSUME TurnTyped, Write
  PROVE  Lower(Left', Left)
<1>1. /\ UNCHANGED <<pending, pc, iteration>>
      /\ todo # <<>> /\ todo' \in {todo, Tail(todo)}
      /\ todo' = todo => written = 0 /\ written' = 1
  <2>1. UNCHANGED <<pending, pc, iteration>> /\ todo # <<>>
    BY DEF Write, userVars, turnVars
  <2>2. todo \in Seq(Activities)
    BY DEF TurnTyped
  <2>3. Tail(todo) # todo
    <3>1. Len(Tail(todo)) = Len(todo) - 1 /\ Len(todo) \in Nat
      BY <2>1, <2>2
    <3>2. QED
      BY <3>1
  <2>4. QED
    BY <2>1, <2>3, Written
<1>2. Stage' = Stage /\ Step' = Step
  BY <1>1 DEF Stage, Step
<1>3. Len(todo') < Len(todo) \/ (Len(todo') = Len(todo) /\ 1 - written' < 1 - written)
  BY <1>1 DEF TurnTyped
<1>4. /\ Left[1] = pending /\ Left[2] = Stage /\ Left[3] = Step /\ Left[4] = Len(todo)
      /\ Left[5] = 1 - written
      /\ Left'[1] = pending' /\ Left'[2] = Stage' /\ Left'[3] = Step' /\ Left'[4] = Len(todo')
      /\ Left'[5] = 1 - written'
  BY DEF Left
<1>5. CASE Len(todo') < Len(todo)
  BY <1>1, <1>2, <1>4, <1>5 DEF Lower
<1>6. CASE Len(todo') = Len(todo) /\ 1 - written' < 1 - written
  BY <1>1, <1>2, <1>4, <1>6 DEF Lower
<1>7. QED
  BY <1>3, <1>5, <1>6

\* No turn goes on for ever, whatever the model replies: every step of the workflow, an
\* interrupted or refused one too, lowers what it has left to do (run of
\* TroubleshootWorkflow, its loop to LLM_MAX_AGENT_ITERATIONS), and only another message
\* or an activity given up raises it.
THEOREM TurnsRunDown ==
  Spec => [](Left \in [1..5 -> Nat]) /\ [][RunsDown]_vars
<1>1. Init => TurnTyped /\ Staged
  BY BoundsInit
<1>2. TurnTyped /\ Staged /\ [Next]_vars => (TurnTyped /\ Staged)'
  BY TurnTypeStep, StagedStep
<1>3. TurnTyped /\ Staged => Left \in [1..5 -> Nat]
  BY Measured
<1>4. TurnTyped /\ Staged /\ [Next]_vars => [RunsDown]_vars
  <2> SUFFICES ASSUME TurnTyped, Staged, Next PROVE RunsDown
    BY DEF vars
  <2>1. CASE Turn \/ Write
    BY <2>1, TurnRunsDown, WriteRunsDown DEF RunsDown
  <2>2. CASE SaveMessage \/ LateWrite \/ GiveUpAsk \/ LateCharge \/ LateInitialize
    <3>1. UNCHANGED <<pending, pc, iteration, todo, written>>
      BY <2>2 DEF SaveMessage, LateWrite, GiveUpAsk, LateCharge, LateInitialize, turnVars, recordVars,
                  userVars
    <3>2. Left' = Left
      BY <3>1 DEF Left, Stage, Step
    <3>3. QED
      BY <2>1, <3>2 DEF RunsDown
  <2>3. QED
    BY <2>1, <2>2 DEF Next, RunsDown
<1>5. QED
  BY <1>1, <1>2, <1>3, <1>4, PTL DEF Spec
=============================================================================
