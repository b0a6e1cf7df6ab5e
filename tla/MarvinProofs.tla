----------------------------- MODULE MarvinProofs -----------------------------
(***************************************************************************)
(* Proofs about the Marvins.  Of MarvinConnection, for any number of       *)
(* connections, commands and crashes: the type invariant, the exactness of *)
(* the server's map of streams, inductive together with it and with        *)
(* Undialled, and how the status of a Marvin settles.  Of                  *)
(* CapabilityCatalog, for any Marvins, handlers, tasks and editors and any *)
(* number of their steps: the type invariant, that what a Marvin reported  *)
(* last is kept, that the vector search compares with embeddings of        *)
(* present descriptions, and that no change of one is missed.  The two     *)
(* share nothing but this module.                                          *)
(***************************************************************************)
EXTENDS MarvinConnection, CapabilityCatalog, TLAPS

-----------------------------------------------------------------------------
(* MarvinConnection. *)

\* A connection that was never dialled has no handler, so dialling replaces none.
Undialled == \A c \in Connections : wire[c] = "none" => handler[c] = "none"

USE DEF Goto, WriteStatus, commandVars, rowVars

LEMMA InitInv == Init => TypeOK /\ Undialled /\ MapExact
<1> SUFFICES ASSUME Init
             PROVE  TypeOK /\ Undialled /\ MapExact
  OBVIOUS
<1>1. queue \in [Connections -> Seq(Commands)]
  BY DEF Init
<1>2. TypeOK
  <2>1. replies \in [Connections -> SUBSET Commands]
    BY DEF Init
  <2>2. /\ wire \in [Connections -> {"none", "up", "down"}]
        /\ handler \in [Connections -> Places]
    BY DEF Init, Places
  <2>3. /\ command \in [Commands -> {"idle", "waiting", "answered", "timed_out", "refused", "lost"}]
        /\ via \in [Commands -> Connections \cup {NoStream}]
        /\ \A k \in Commands : command[k] \notin {"idle", "refused"} => via[k] \in Connections
    BY DEF Init
  <2>4. /\ server \in {"up", "down"} /\ current \in Connections \cup {NoStream}
        /\ status \in {"online", "offline"} /\ stale \in BOOLEAN
        /\ received \subseteq Commands /\ unread \subseteq Connections /\ installed \in Connections \cup {NoStream}
    BY DEF Init
  <2>5. crashes \in 0 .. MaxCrashes
    BY ConnectionAssumption DEF Init
  <2>6. QED
    BY <1>1, <2>1, <2>2, <2>3, <2>4, <2>5 DEF TypeOK
<1>3. MapExact
  BY ConnectionAssumption DEF Init, MapExact, Installed
<1>4. Undialled
  BY DEF Init, Undialled
<1>5. QED
  BY <1>2, <1>3, <1>4

\* Only SendCommand, SendPending and ServerCrash change a queue.
LEMMA TypeStep == TypeOK /\ [Next]_vars => TypeOK'
<1> SUFFICES ASSUME TypeOK, [Next]_vars
             PROVE  TypeOK'
  OBVIOUS
<1> USE ConnectionAssumption DEF TypeOK
<1>1. ASSUME NEW c \in Connections,
             Dial(c) \/ Break(c) \/ Register(c) \/ Heartbeat(c) \/ LateHeartbeat(c) \/ Leave(c)
      PROVE  TypeOK'
  <2>1. CASE Dial(c) \/ Register(c)
    BY <2>1 DEF Dial, Register, Places
  <2>2. CASE Break(c)
    BY <2>2 DEF Break
  <2>3. CASE Heartbeat(c) \/ LateHeartbeat(c)
    BY <2>3 DEF Heartbeat, LateHeartbeat
  <2>4. CASE Leave(c)
    BY <2>4 DEF Leave, Places
  <2>5. QED
    BY <1>1, <2>1, <2>2, <2>3, <2>4
<1>2. ASSUME NEW c \in Connections,
             Install(c) \/ FinishRegistration(c) \/ Pop(c) \/ MarkOffline(c)
      PROVE  TypeOK'
  BY <1>2 DEF Install, FinishRegistration, Pop, MarkOffline, Places
<1>3. ASSUME NEW c \in Connections, SendPending(c)
      PROVE  TypeOK'
  <2>1. queue[c] \in Seq(Commands) /\ queue[c] # <<>>
    BY <1>3 DEF SendPending
  <2>2. Head(queue[c]) \in Commands /\ Tail(queue[c]) \in Seq(Commands)
    BY <2>1
  <2>3. QED
    BY <1>3, <2>2 DEF SendPending
<1>4. ASSUME NEW c \in Connections, NEW k \in Commands, HandleResult(k, c) \/ Reply(k, c)
      PROVE  TypeOK'
  <2>1. replies' \in [Connections -> SUBSET Commands]
    <3>1. PICK R \in SUBSET Commands : replies' = [replies EXCEPT ![c] = R]
      <4>1. replies[c] \cup {k} \in SUBSET Commands /\ replies[c] \ {k} \in SUBSET Commands
        OBVIOUS
      <4>2. QED
        BY <1>4, <4>1 DEF HandleResult, Reply
    <3>2. QED
      BY <3>1
  <2>2. command' \in [Commands -> {"idle", "waiting", "answered", "timed_out", "refused", "lost"}]
    BY <1>4 DEF HandleResult, Reply
  <2>3. \A j \in Commands : command'[j] \notin {"idle", "refused"} => via'[j] \in Connections
    BY <1>4 DEF HandleResult, Reply
  <2>4. QED
    BY <1>4, <2>1, <2>2, <2>3 DEF HandleResult, Reply
<1>5. ASSUME NEW k \in Commands, SendCommand(k)
      PROVE  TypeOK'
  <2>1. CASE current = NoStream
    BY <1>5, <2>1 DEF SendCommand
  <2>2. CASE current # NoStream
    <3>1. current \in Connections /\ Append(queue[current], k) \in Seq(Commands)
      BY <2>2
    <3>2. queue' \in [Connections -> Seq(Commands)]
      BY <1>5, <2>2, <3>1 DEF SendCommand
    <3>3. /\ command' = [command EXCEPT ![k] = "waiting"]
          /\ via' = [via EXCEPT ![k] = current]
      BY <1>5, <2>2 DEF SendCommand
    <3>4. /\ command' \in [Commands -> {"idle", "waiting", "answered", "timed_out", "refused", "lost"}]
          /\ via' \in [Commands -> Connections \cup {NoStream}]
          /\ \A j \in Commands : command'[j] \notin {"idle", "refused"} => via'[j] \in Connections
      BY <3>1, <3>3
    <3>5. QED
      BY <1>5, <3>2, <3>3, <3>4 DEF SendCommand
  <2>3. QED
    BY <2>1, <2>2
<1>6. ASSUME NEW k \in Commands, CommandTimesOut(k)
      PROVE  TypeOK'
  BY <1>6 DEF CommandTimesOut
<1>7. CASE Age \/ MarkStaleOffline \/ ServerStart
  BY <1>7 DEF Age, MarkStaleOffline, ServerStart
<1>8. CASE ServerCrash
  BY <1>8 DEF ServerCrash, Places
<1>9. CASE UNCHANGED vars
  BY <1>9 DEF vars
<1>10. QED
  BY <1>1, <1>2, <1>3, <1>4, <1>5, <1>6, <1>7, <1>8, <1>9 DEF Next, Serve

\* Every reachable state is well typed.
THEOREM TypeCorrect == Spec => []TypeOK
<1>1. Init => TypeOK
  BY InitInv
<1>2. QED
  BY <1>1, TypeStep, PTL DEF Spec

\* A handler that neither enters nor leaves the places where its stream is in the
\* map leaves the map as exact as it was.
LEMMA MapKept ==
  ASSUME MapExact, UNCHANGED <<current, installed>>,
         \A c \in Connections : handler'[c] \in Installed <=> handler[c] \in Installed
  PROVE  MapExact'
BY DEF MapExact

LEMMA UndialledStep == TypeOK /\ Undialled /\ [Next]_vars => Undialled'
<1> SUFFICES ASSUME TypeOK, Undialled, [Next]_vars
             PROVE  Undialled'
  OBVIOUS
<1> USE DEF TypeOK, Undialled
<1>1. ASSUME UNCHANGED <<wire, handler>>
      PROVE  Undialled'
  BY <1>1
<1>2. ASSUME NEW c \in Connections, Dial(c) \/ Break(c)
      PROVE  Undialled'
  BY <1>2 DEF Dial, Break
<1>3. ASSUME NEW c \in Connections, handler[c] # "none", UNCHANGED wire,
             \E p \in Places : handler' = [handler EXCEPT ![c] = p]
      PROVE  Undialled'
  BY <1>3
<1>4. ASSUME NEW c \in Connections,
             \/ Register(c) \/ Install(c) \/ FinishRegistration(c) \/ Leave(c)
             \/ Pop(c) \/ MarkOffline(c)
      PROVE  Undialled'
  <2>1. handler[c] # "none" /\ UNCHANGED wire
    BY <1>4 DEF Register, Install, FinishRegistration, Leave, Pop, MarkOffline
  <2>2. \E p \in Places : handler' = [handler EXCEPT ![c] = p]
    BY <1>4 DEF Register, Install, FinishRegistration, Leave, Pop, MarkOffline, Places
  <2>3. QED
    BY <1>3, <2>1, <2>2
<1>5. CASE ServerCrash
  BY <1>5 DEF ServerCrash
<1>6. QED
  BY <1>1, <1>2, <1>4, <1>5
     DEF Next, Serve, Heartbeat, LateHeartbeat, SendPending, HandleResult, Reply, SendCommand,
         CommandTimesOut, Age, MarkStaleOffline, ServerStart, vars

LEMMA MapStep == TypeOK /\ Undialled /\ MapExact /\ [Next]_vars => MapExact'
<1> SUFFICES ASSUME TypeOK, Undialled, MapExact, [Next]_vars
             PROVE  MapExact'
  OBVIOUS
<1> USE ConnectionAssumption DEF TypeOK
<1>1. ASSUME UNCHANGED <<handler, current, installed>>
      PROVE  MapExact'
  BY <1>1, MapKept
<1>2. ASSUME NEW c \in Connections, Dial(c) \/ Register(c) \/ Leave(c)
      PROVE  MapExact'
  <2>1. UNCHANGED <<current, installed>>
    BY <1>2 DEF Dial, Register, Leave
  <2>2. PICK p \in Places : handler' = [handler EXCEPT ![c] = p]
    BY <1>2 DEF Dial, Register, Leave, Places
  <2>3. p \in Installed <=> handler[c] \in Installed
    <3>1. handler'[c] = p
      BY <2>2
    <3>2. CASE Dial(c) \/ Register(c)
      <4>1. handler[c] \in {"none", "open"} /\ handler'[c] \in {"open", "validating"}
        BY <3>2 DEF Dial, Register, Undialled
      <4>2. QED
        BY <3>1, <4>1 DEF Installed
    <3>3. CASE Leave(c)
      BY <3>1, <3>3 DEF Leave, Installed
    <3>4. QED
      BY <1>2, <3>2, <3>3
  <2>4. QED
    BY <2>1, <2>2, <2>3, MapKept
<1>3. ASSUME NEW c \in Connections, FinishRegistration(c) \/ MarkOffline(c)
      PROVE  MapExact'
  BY <1>3, MapKept DEF FinishRegistration, MarkOffline, Installed
<1>4. ASSUME NEW c \in Connections, Install(c)
      PROVE  MapExact'
  BY <1>4 DEF Install, MapExact, Installed
<1>5. ASSUME NEW c \in Connections, Pop(c)
      PROVE  MapExact'
  BY <1>5 DEF Pop, MapExact, Installed
<1>6. CASE ServerCrash
  BY <1>6 DEF ServerCrash, MapExact, Installed
<1>7. QED
  BY <1>1, <1>2, <1>3, <1>4, <1>5, <1>6
     DEF Next, Serve, Break, Heartbeat, LateHeartbeat, SendPending, HandleResult, Reply, SendCommand,
         CommandTimesOut, Age, MarkStaleOffline, ServerStart, vars

\* The server's map of streams is exact in every reachable state: a handler that
\* leaves late never removes the stream of the connection that replaced its own.
THEOREM MapCorrect == Spec => []MapExact
<1>1. Init => TypeOK /\ Undialled /\ MapExact
  BY InitInv
<1>2. TypeOK /\ Undialled /\ MapExact /\ [Next]_vars => (TypeOK /\ Undialled /\ MapExact)'
  BY TypeStep, UndialledStep, MapStep
<1>3. QED
  BY <1>1, <1>2, PTL DEF Spec

-----------------------------------------------------------------------------
(* MarvinConnection: the status settles. *)

\* A server that is down has no connection, and a connected Marvin was heard of.
Heard ==
  /\ server = "down" => \A c \in Connections : wire[c] # "up"
  /\ \A c \in Connections : Connected(c) => ~ stale

\* The handlers of the other connections that are still to finish.
Others(c) == {d \in Connections \ {c} : handler[d] \notin {"none", "done"}}

\* The Marvin is away: what OfflineAgain is about.
Away == \A c \in Connections : ~ Connected(c) /\ handler[c] # "registering"

\* What Age and the sweep have left to do for a Marvin that is away.
Sweeps == IF status = "offline" THEN 0 ELSE IF stale THEN 1 ELSE 2

\* A connected Marvin is marked offline only by a handler that ends with it, and as long
\* as it is connected no other handler begins.
StaysOnline(c) ==
  Connected(c) /\ Connected(c)' =>
    /\ Others(c)' \subseteq Others(c)
    /\ status = "online" /\ status' = "offline" => Others(c)' # Others(c)

\* A Marvin that is away is marked online only by a heartbeat left unread, of which none
\* is added; and time or the sweep brings it nearer to offline.
GoesOffline ==
  Away /\ Away' =>
    /\ unread' \subseteq unread
    /\ unread' = unread => Sweeps' <= Sweeps
    /\ status = "online" /\ (Age \/ MarkStaleOffline) => unread' = unread /\ Sweeps' < Sweeps

LEMMA HeardStep == TypeOK /\ Heard /\ [Next]_vars => Heard'
<1> SUFFICES ASSUME TypeOK, Heard, [Next]_vars
             PROVE  Heard'
  OBVIOUS
<1> USE DEF TypeOK
<1>1. ASSUME server' = server, wire' = wire, stale' = stale \/ stale' = FALSE,
             \A c \in Connections : handler'[c] = "serving" => handler[c] = "serving" \/ ~ stale'
      PROVE  Heard'
  BY <1>1 DEF Heard, Connected
<1>2. ASSUME NEW c \in Connections, Dial(c) \/ Break(c)
      PROVE  Heard'
  BY <1>2 DEF Heard, Connected, Dial, Break
<1>3. ASSUME NEW c \in Connections,
             \/ Register(c) \/ Install(c) \/ Leave(c) \/ Pop(c)
             \/ FinishRegistration(c) \/ MarkOffline(c)
      PROVE  Heard'
  BY <1>1, <1>3 DEF Register, Install, Leave, Pop, FinishRegistration, MarkOffline
<1>4. ASSUME \/ \E c \in Connections : Heartbeat(c) \/ LateHeartbeat(c) \/ SendPending(c)
             \/ \E k \in Commands : SendCommand(k) \/ CommandTimesOut(k)
             \/ \E k \in Commands, c \in Connections : HandleResult(k, c) \/ Reply(k, c)
      PROVE  Heard'
  BY <1>1, <1>4
     DEF Heartbeat, LateHeartbeat, SendPending, HandleResult, Reply, SendCommand, CommandTimesOut
<1>5. CASE Age
  BY <1>5 DEF Heard, Connected, Age
<1>6. CASE ServerCrash
  BY <1>6 DEF Heard, Connected, ServerCrash
<1>7. CASE ServerStart
  BY <1>7 DEF Heard, Connected, ServerStart
<1>8. CASE MarkStaleOffline \/ UNCHANGED vars
  BY <1>1, <1>8 DEF MarkStaleOffline, vars
<1>9. QED
  BY <1>2, <1>3, <1>4, <1>5, <1>6, <1>7, <1>8 DEF Next, Serve

LEMMA OnlineStep ==
  ASSUME TypeOK, Heard, Next, NEW c \in Connections
  PROVE  StaysOnline(c)
<1> SUFFICES ASSUME Connected(c), Connected(c)'
             PROVE  /\ Others(c)' \subseteq Others(c)
                    /\ status = "online" /\ status' = "offline" => Others(c)' # Others(c)
  BY DEF StaysOnline
<1> USE DEF TypeOK
<1>1. wire[c] = "up" /\ wire'[c] = "up" /\ ~ stale /\ server = "up"
  BY DEF Connected, Heard
<1>2. ASSUME \A d \in Connections : handler'[d] = handler[d] \/ handler[d] \notin {"none", "done"},
             status' = status \/ status' = "online"
      PROVE  /\ Others(c)' \subseteq Others(c)
             /\ status = "online" /\ status' = "offline" => Others(c)' # Others(c)
  BY <1>2 DEF Others
<1>3. ASSUME NEW d \in Connections,
             \/ Register(d) \/ Install(d) \/ Leave(d) \/ Pop(d) \/ FinishRegistration(d)
             \/ Break(d) \/ Heartbeat(d) \/ LateHeartbeat(d) \/ SendPending(d)
      PROVE  /\ \A e \in Connections : handler'[e] = handler[e] \/ handler[e] \notin {"none", "done"}
             /\ status' = status \/ status' = "online"
  BY <1>3
     DEF Register, Install, Leave, Pop, FinishRegistration, Break, Heartbeat, LateHeartbeat, SendPending
<1>4. ASSUME NEW d \in Connections, NEW k \in Commands,
             HandleResult(k, d) \/ Reply(k, d) \/ SendCommand(k) \/ CommandTimesOut(k)
      PROVE  handler' = handler /\ status' = status
  BY <1>4 DEF HandleResult, Reply, SendCommand, CommandTimesOut
<1>5. ASSUME NEW d \in Connections, MarkOffline(d)
      PROVE  Others(c)' \subseteq Others(c) /\ Others(c)' # Others(c)
  <2>1. d # c /\ handler[d] = "popped" /\ handler'[d] = "done"
    BY <1>5 DEF MarkOffline, Connected
  <2>2. \A e \in Connections : e # d => handler'[e] = handler[e]
    BY <1>5 DEF MarkOffline
  <2>3. d \in Others(c) /\ d \notin Others(c)'
    BY <2>1 DEF Others
  <2>4. QED
    BY <2>1, <2>2, <2>3 DEF Others
<1>6. ~ (\E d \in Connections : Dial(d)) /\ ~ ServerCrash /\ ~ ServerStart /\ ~ MarkStaleOffline
  BY <1>1 DEF Dial, ServerCrash, ServerStart, MarkStaleOffline
<1>7. Age => handler' = handler /\ status' = status
  BY DEF Age
<1>8. QED
  BY <1>2, <1>3, <1>4, <1>5, <1>6, <1>7 DEF Next, Serve

LEMMA OfflineStep ==
  ASSUME TypeOK, Next
  PROVE  GoesOffline
<1> SUFFICES ASSUME Away, Away'
             PROVE  /\ unread' \subseteq unread
                    /\ unread' = unread => Sweeps' <= Sweeps
                    /\ status = "online" /\ (Age \/ MarkStaleOffline)
                         => unread' = unread /\ Sweeps' < Sweeps
  BY DEF GoesOffline
<1> USE DEF TypeOK
<1>1. ASSUME NEW c \in Connections, Heartbeat(c) \/ FinishRegistration(c)
      PROVE  FALSE
  BY <1>1 DEF Away, Heartbeat, FinishRegistration
<1>2. ASSUME NEW c \in Connections, Break(c)
      PROVE  UNCHANGED <<unread, status, stale>>
  BY <1>2 DEF Away, Connected, Break
<1>3. ASSUME NEW c \in Connections, LateHeartbeat(c)
      PROVE  unread' \subseteq unread /\ unread' # unread
  BY <1>3 DEF LateHeartbeat
<1>4. ASSUME \/ \E c \in Connections : \/ Dial(c) \/ Register(c) \/ Leave(c)
                                          \/ Install(c) \/ SendPending(c) \/ Pop(c)
             \/ \E k \in Commands : SendCommand(k) \/ CommandTimesOut(k)
             \/ \E k \in Commands, c \in Connections : HandleResult(k, c) \/ Reply(k, c)
      PROVE  unread' \subseteq unread /\ UNCHANGED <<status, stale>>
  BY <1>4
     DEF Dial, Register, Leave, Install, SendPending, Pop, HandleResult, Reply, SendCommand,
         CommandTimesOut
<1>5. ASSUME (\E c \in Connections : MarkOffline(c)) \/ ServerStart
      PROVE  unread' = unread /\ status' = "offline"
  BY <1>5 DEF MarkOffline, ServerStart
<1>6. ServerCrash => unread' \subseteq unread /\ UNCHANGED <<status, stale>>
  BY DEF ServerCrash
<1>7. Age => unread' = unread /\ status' = status /\ ~ stale /\ stale'
  BY DEF Age
<1>8. MarkStaleOffline => unread' = unread /\ status = "online" /\ status' = "offline"
  BY DEF MarkStaleOffline
<1>9. QED
  <2>1. Age \/ MarkStaleOffline =>
          unread' = unread /\ Sweeps' <= Sweeps /\ (status = "online" => Sweeps' < Sweeps)
    BY <1>7, <1>8 DEF Sweeps
  <2>2. (Sweeps' <= Sweeps /\ unread' \subseteq unread) \/ (unread' \subseteq unread /\ unread' # unread)
    <3>1. UNCHANGED <<status, stale>> \/ status' = "offline" => Sweeps' <= Sweeps
      BY DEF Sweeps
    <3>2. (\E c \in Connections : Break(c)) => unread' \subseteq unread /\ UNCHANGED <<status, stale>>
      BY <1>2
    <3>3. QED
      BY <1>1, <1>3, <1>4, <1>5, <1>6, <2>1, <3>1, <3>2 DEF Next, Serve
  <2>3. QED
    BY <2>1, <2>2

\* Connect, _mark_stale_offline: a Marvin that is connected is never stale, so the sweep does
\* not touch it, and each handler of an earlier connection can mark it offline once at
\* most; one that is away can come back online only by the heartbeats it left unread, each
\* once, and time and the sweep bring it nearer to offline.
THEOREM StatusSettles ==
  Spec => /\ [](\A c \in Connections : Connected(c) => server = "up" /\ ~ stale)
          /\ [][(\A c \in Connections : StaysOnline(c)) /\ GoesOffline]_vars
<1>1. Init => TypeOK /\ Heard
  BY InitInv DEF Init, Heard, Connected
<1>2. TypeOK /\ Heard /\ [Next]_vars => TypeOK' /\ Heard'
  BY TypeStep, HeardStep
<1>3. TypeOK /\ Heard => \A c \in Connections : Connected(c) => server = "up" /\ ~ stale
  BY DEF TypeOK, Heard, Connected
<1>4. TypeOK /\ Heard /\ [Next]_vars =>
        [(\A c \in Connections : StaysOnline(c)) /\ GoesOffline]_vars
  BY OnlineStep, OfflineStep
<1>5. QED
  BY <1>1, <1>2, <1>3, <1>4, PTL DEF Spec

-----------------------------------------------------------------------------
(* CapabilityCatalog: the types. *)

\* Where a process holds a copy of the capability it is yet to save.
Holds == {"describing", "enabling", "embedding", "editing"}

HandlersTyped ==
  /\ \A h \in Handlers :
       /\ pc[h] \in {"reading", "describing", "enabling"} => manifest[h] \in Descriptions
       /\ pc[h] \in {"reading", "describing", "enabling", "saving", "linking"} =>
            agent[h] \in Marvins
  /\ \A p \in Writers :
       pc[p] = "writing" => agent[p] \in Marvins /\ copy[p] \in Descriptions \cup {Nothing}

\* The histories, which properties read.
HistoriesTyped ==
  /\ stated \in [Marvins -> Descriptions \cup {Nothing}] /\ offered \subseteq Marvins
  /\ overtaken \subseteq Marvins /\ crossed \subseteq Marvins

HoldersTyped ==
  \A p \in Processes : pc[p] \in Holds => copy[p] \in Capability /\ capability \in Capability

CatalogTyped ==
  /\ capability \in Capability \cup {Nothing}
  /\ configs \in [Marvins -> Descriptions \cup {Nothing}] /\ serves \subseteq Marvins
  /\ agent \in [Writers -> Marvins \cup {Nothing}]
  /\ manifest \in [Handlers -> Descriptions \cup {Nothing}]
  /\ pc \in [Processes -> Holds \cup {"idle", "reading", "saving", "linking", "writing"}]
  /\ copy \in [Processes -> Capability \cup Descriptions \cup {Nothing}]
  /\ due \in BOOLEAN /\ registrations \in Nat /\ edits \in Nat /\ faults \in Nat
  /\ reverted \in BOOLEAN
  /\ HistoriesTyped
  /\ HandlersTyped /\ HoldersTyped

\* A row whose document may not have been built yet.
Draft ==
  [description : Descriptions, document : Descriptions \cup {Nothing}, version : Nat,
   embedding : Descriptions \cup {Nothing}, embedded : Nat,
   needs : BOOLEAN, enabled : BOOLEAN]

LEMMA Columns ==
  ASSUME NEW c \in Draft
  PROVE  /\ Rebuilt(c) \in Capability
         /\ Rebuilt(c).description = c.description /\ Rebuilt(c).document = c.description
         /\ Rebuilt(c).version = IF c.document = c.description THEN c.version ELSE c.version + 1
         /\ Rebuilt(c).embedding = c.embedding /\ Rebuilt(c).embedded = c.embedded
         /\ Rebuilt(c).needs <=> Rebuilt(c).version > c.embedded
<1> DEFINE v == IF c.document = c.description THEN c.version ELSE c.version + 1
           n == v > c.embedded
           r == [c EXCEPT !.document = c.description, !.version = v, !.needs = n]
<1>1. Rebuilt(c) = r
  BY Zenon DEF Rebuilt
<1>2. v \in Nat /\ n \in BOOLEAN
  BY DEF Draft
<1>3. /\ r \in Capability
      /\ r.description = c.description /\ r.document = c.description /\ r.version = v
      /\ r.embedding = c.embedding /\ r.embedded = c.embedded /\ r.needs = n
  <2> HIDE DEF v, n
  <2>1. QED
    BY <1>2 DEF Capability, Draft
<1>4. QED
  BY <1>1, <1>3, Zenon

LEMMA Whole == Capability \subseteq Draft
BY DEF Capability, Draft

LEMMA Saved ==
  ASSUME capability \in Capability, NEW c \in Capability, NEW columns, SaveColumns(columns, c)
  PROVE  /\ capability' \in Capability
         /\ capability'.document = c.document /\ capability'.version = c.version
         /\ capability'.needs = c.needs
         /\ capability'.description =
              IF "description" \in columns THEN c.description ELSE capability.description
         /\ capability'.embedding =
              IF "embedding" \in columns THEN c.embedding ELSE capability.embedding
         /\ capability'.embedded =
              IF "embedded" \in columns THEN c.embedded ELSE capability.embedded
BY DEF Capability, SaveColumns

\* The first row of the capability.
LEMMA Created ==
  ASSUME NEW d \in Descriptions
  PROVE  /\ NewCapability(d) \in Capability
         /\ NewCapability(d).description = d /\ NewCapability(d).document = d
         /\ NewCapability(d).version = 1 /\ NewCapability(d).embedded = 0
         /\ NewCapability(d).embedding = Nothing /\ NewCapability(d).needs
<1> DEFINE c == [description |-> d, document |-> Nothing, version |-> 0, embedding |-> Nothing,
                 embedded |-> 0, needs |-> FALSE, enabled |-> TRUE]
<1>1. Nothing # d
  BY NothingAssumption
<1>2. NewCapability(d) = Rebuilt(c)
  BY DEF NewCapability
<1>3. /\ c \in Draft /\ c.description = d /\ c.document = Nothing /\ c.version = 0
      /\ c.embedding = Nothing /\ c.embedded = 0
  BY DEF Draft
<1> HIDE DEF c
<1>4. QED
  BY <1>1, <1>2, <1>3, Columns

LEMMA CatalogTypeInit == CatalogInit => CatalogTyped
<1> SUFFICES ASSUME CatalogInit PROVE CatalogTyped
  OBVIOUS
<1>1. /\ capability \in Capability \cup {Nothing} /\ serves \subseteq Marvins
      /\ due \in BOOLEAN /\ registrations \in Nat /\ edits \in Nat /\ faults \in Nat
      /\ reverted \in BOOLEAN
  BY DEF CatalogInit
<1>2. /\ configs \in [Marvins -> Descriptions \cup {Nothing}]
      /\ HistoriesTyped
      /\ agent \in [Writers -> Marvins \cup {Nothing}]
      /\ manifest \in [Handlers -> Descriptions \cup {Nothing}]
      /\ copy \in [Processes -> Capability \cup Descriptions \cup {Nothing}]
  BY DEF CatalogInit, HistoriesTyped
<1>3. /\ pc \in [Processes -> Holds \cup {"idle", "reading", "saving", "linking", "writing"}]
      /\ \A p \in Processes : pc[p] = "idle"
  BY DEF CatalogInit
<1>4. QED
  BY <1>1, <1>2, <1>3 DEF CatalogTyped, HandlersTyped, HoldersTyped, Holds, Processes, Writers

Labels == Holds \cup {"idle", "reading", "saving", "linking", "writing"}
Copies == Capability \cup Descriptions \cup {Nothing}

\* One process goes on with a copy of its own; all others stay as they are.
LEMMA Moved ==
  ASSUME CatalogTyped, NEW p \in Processes, NEW l \in Labels, NEW c \in Copies,
         Proceed(p, l), Hold(p, c)
  PROVE  /\ pc' \in [Processes -> Labels] /\ copy' \in [Processes -> Copies]
         /\ pc'[p] = l /\ copy'[p] = c
         /\ \A q \in Processes \ {p} : pc'[q] = pc[q] /\ copy'[q] = copy[q]
BY DEF CatalogTyped, Labels, Copies, Proceed, Hold

LEMMA Stepped ==
  ASSUME CatalogTyped, NEW p \in Processes, NEW l \in Labels, Proceed(p, l), UNCHANGED copy
  PROVE  /\ pc' \in [Processes -> Labels] /\ copy' \in [Processes -> Copies]
         /\ pc'[p] = l /\ \A q \in Processes \ {p} : pc'[q] = pc[q]
BY DEF CatalogTyped, Labels, Copies, Proceed

\* What a handler's step before it writes to its Marvin's row leaves typed.
LEMMA RegisterTyped ==
  ASSUME CatalogTyped, reverted' \in BOOLEAN, NEW h \in Handlers, NEW m \in Marvins,
         NEW d \in Descriptions \cup {Nothing}, RegisterMarvin(h, m, d)
  PROVE  CatalogTyped'
<1> DEFINE l == IF d = Nothing THEN "saving" ELSE "reading"
<1>1. h \in Processes /\ h \in Writers /\ l \in Labels /\ Proceed(h, l) /\ UNCHANGED copy
  BY DEF RegisterMarvin, Processes, Writers, Labels
<1>2. /\ pc' \in [Processes -> Labels] /\ copy' \in [Processes -> Copies]
      /\ pc'[h] = l /\ \A q \in Processes \ {h} : pc'[q] = pc[q]
  BY <1>1, Stepped
<1>3. /\ agent' \in [Writers -> Marvins \cup {Nothing}]
      /\ manifest' \in [Handlers -> Descriptions \cup {Nothing}]
      /\ agent'[h] = m /\ manifest'[h] = d
      /\ \A g \in Handlers \ {h} : manifest'[g] = manifest[g]
      /\ \A p \in Writers \ {h} : agent'[p] = agent[p]
  BY <1>1 DEF RegisterMarvin, CatalogTyped
<1>4. /\ registrations' \in Nat
      /\ UNCHANGED <<capability, configs, serves, historyVars, copy, due, edits, faults>>
  BY DEF RegisterMarvin, CatalogTyped
<1>5. HandlersTyped'
  BY <1>2, <1>3, <1>4 DEF CatalogTyped, HandlersTyped, Processes, Writers
<1>6. HoldersTyped'
  BY <1>2, <1>4 DEF CatalogTyped, HoldersTyped, Holds
<1>7. HistoriesTyped'
  BY <1>4 DEF CatalogTyped, HistoriesTyped, historyVars
<1>8. QED
  BY <1>2, <1>3, <1>4, <1>5, <1>6, <1>7 DEF CatalogTyped, Labels, Copies

LEMMA IgnoreTyped ==
  ASSUME CatalogTyped, reverted' \in BOOLEAN, NEW h \in Handlers, NEW m \in Marvins,
         IgnoreMarvin(h, m)
  PROVE  CatalogTyped'
<1>1. /\ UNCHANGED <<capability, configs, serves, manifest, historyVars, pc, copy, due, edits, faults>>
      /\ registrations' \in Nat
  BY DEF IgnoreMarvin, CatalogTyped
<1>2. /\ agent' \in [Writers -> Marvins \cup {Nothing}]
      /\ \A p \in Writers : agent[p] \in Marvins => agent'[p] \in Marvins
  BY DEF IgnoreMarvin, CatalogTyped
<1>3. HandlersTyped' /\ HoldersTyped' /\ HistoriesTyped'
  BY <1>1, <1>2 DEF CatalogTyped, HandlersTyped, HoldersTyped, HistoriesTyped, historyVars, Writers
<1>4. QED
  BY <1>1, <1>2, <1>3 DEF CatalogTyped

\* A handler brings the capability in line with its manifest.
LEMMA UpdateTyped ==
  ASSUME CatalogTyped, reverted' \in BOOLEAN, NEW h \in Handlers,
         pc[h] \in {"reading", "describing", "enabling"}, NEW c \in Capability,
         capability' \in Capability, Hold(h, c), Proceed(h, Update(h, c)),
         UNCHANGED <<marvinVars, due, counters>>
  PROVE  CatalogTyped'
<1>1. h \in Processes /\ c \in Copies /\ Update(h, c) \in {"describing", "enabling", "saving"}
  BY DEF Processes, Copies, Update
<1>2. Update(h, c) \in Labels
  BY <1>1 DEF Labels, Holds
<1>3. /\ pc' \in [Processes -> Labels] /\ copy' \in [Processes -> Copies]
      /\ pc'[h] = Update(h, c) /\ copy'[h] = c
      /\ \A q \in Processes \ {h} : pc'[q] = pc[q] /\ copy'[q] = copy[q]
  BY <1>1, <1>2, Moved
<1>4. /\ UNCHANGED <<configs, serves, agent, manifest, due, registrations, edits, faults>>
      /\ UNCHANGED <<stated, offered, overtaken, crossed>>
  BY DEF marvinVars, historyVars, counters
<1>5. HandlersTyped'
  BY <1>1, <1>3, <1>4 DEF CatalogTyped, HandlersTyped, Processes, Writers
<1>6. HoldersTyped' /\ HistoriesTyped'
  BY <1>3, <1>4 DEF CatalogTyped, HoldersTyped, HistoriesTyped
<1>7. QED
  BY <1>3, <1>4, <1>5, <1>6 DEF CatalogTyped, Labels, Copies

\* A process goes on with what it has read of a Marvin, or has nothing left to write.
LEMMA WriterTyped ==
  ASSUME CatalogTyped, reverted' \in BOOLEAN, NEW p \in Writers, NEW l \in {"idle", "writing"},
         NEW c \in Descriptions \cup {Nothing}, Proceed(p, l), Hold(p, c),
         agent' \in [Writers -> Marvins \cup {Nothing}],
         \A q \in Writers \ {p} : agent'[q] = agent[q],
         l = "writing" => agent'[p] \in Marvins,
         configs' \in [Marvins -> Descriptions \cup {Nothing}], HistoriesTyped',
         edits' \in Nat, UNCHANGED <<capability, serves, manifest, due, registrations, faults>>
  PROVE  CatalogTyped'
<1>1. p \in Processes /\ c \in Copies /\ l \in Labels
  BY DEF Processes, Writers, Copies, Labels
<1>2. /\ pc' \in [Processes -> Labels] /\ copy' \in [Processes -> Copies]
      /\ pc'[p] = l /\ copy'[p] = c
      /\ \A q \in Processes \ {p} : pc'[q] = pc[q] /\ copy'[q] = copy[q]
  BY <1>1, Moved
<1>3. HandlersTyped'
  <2>1. ASSUME NEW h \in Handlers
        PROVE  /\ pc'[h] \in {"reading", "describing", "enabling"} => manifest'[h] \in Descriptions
               /\ pc'[h] \in {"reading", "describing", "enabling", "saving", "linking"} =>
                    agent'[h] \in Marvins
    <3>1. CASE h = p
      BY <1>2, <3>1
    <3>2. CASE h # p
      <4>1. pc'[h] = pc[h] /\ agent'[h] = agent[h] /\ manifest'[h] = manifest[h]
        BY <1>2, <3>2 DEF Processes, Writers
      <4>2. QED
        BY <4>1 DEF CatalogTyped, HandlersTyped
    <3>3. QED
      BY <3>1, <3>2
  <2>2. ASSUME NEW q \in Writers, pc'[q] = "writing"
        PROVE  agent'[q] \in Marvins /\ copy'[q] \in Descriptions \cup {Nothing}
    <3>1. CASE q = p
      BY <1>2, <2>2, <3>1
    <3>2. CASE q # p
      <4>1. pc'[q] = pc[q] /\ copy'[q] = copy[q] /\ agent'[q] = agent[q]
        BY <1>2, <3>2 DEF Processes, Writers
      <4>2. QED
        BY <2>2, <4>1 DEF CatalogTyped, HandlersTyped
    <3>3. QED
      BY <3>1, <3>2
  <2>3. QED
    BY <2>1, <2>2 DEF HandlersTyped
<1>4. HoldersTyped'
  BY <1>2 DEF CatalogTyped, HoldersTyped, Holds
<1>5. QED
  BY <1>2, <1>3, <1>4 DEF CatalogTyped, Labels, Copies

LEMMA WithWithin ==
  ASSUME NEW M \in SUBSET Marvins, NEW m \in Marvins, NEW held
  PROVE  With(M, m, held) \in SUBSET Marvins
BY DEF With

\* The steps on whole rows of Marvins.
LEMMA RowTyped ==
  ASSUME CatalogTyped, reverted' \in BOOLEAN, NEW p \in Writers,
         \/ p \in Handlers /\ ReadMarvin(p)
         \/ \E m \in Marvins : BeginPatch(p, m)
         \/ WriteMarvin(p)
         \/ \E d \in Descriptions \cup {Nothing} : SetConfigs(p, d)
  PROVE  CatalogTyped'
<1>1. CASE p \in Handlers /\ ReadMarvin(p)
  <2>1. agent[p] \in Marvins /\ configs[agent[p]] \in Descriptions \cup {Nothing}
    BY <1>1 DEF ReadMarvin, CatalogTyped
  <2>2. /\ Hold(p, configs[agent[p]]) /\ Proceed(p, "writing")
        /\ UNCHANGED <<capability, marvinVars, due, counters>>
    BY <1>1, Zenon DEF ReadMarvin
  <2>3. QED
    BY <2>1, <2>2, WriterTyped DEF CatalogTyped, HistoriesTyped, marvinVars, historyVars, counters
<1>2. ASSUME NEW m \in Marvins, BeginPatch(p, m)
      PROVE  CatalogTyped'
  <2>1. /\ agent' = [agent EXCEPT ![p] = m] /\ edits' = edits + 1
        /\ Hold(p, configs[m]) /\ Proceed(p, "writing")
        /\ UNCHANGED <<capability, configs, serves, manifest, historyVars, due, registrations, faults>>
    BY <1>2, Zenon DEF BeginPatch
  <2>2. /\ configs[m] \in Descriptions \cup {Nothing}
        /\ agent' \in [Writers -> Marvins \cup {Nothing}] /\ agent'[p] = m
        /\ \A q \in Writers \ {p} : agent'[q] = agent[q]
        /\ edits' \in Nat
    BY <2>1 DEF CatalogTyped
  <2>3. QED
    BY <2>1, <2>2, WriterTyped DEF CatalogTyped, HistoriesTyped, historyVars
<1>3. CASE WriteMarvin(p)
  <2>1. /\ pc[p] = "writing" /\ configs' = [configs EXCEPT ![agent[p]] = copy[p]]
        /\ Proceed(p, "idle") /\ Hold(p, Nothing)
        /\ UNCHANGED <<capability, serves, agent, manifest, historyVars, due, counters>>
    BY <1>3, Zenon DEF WriteMarvin
  <2>2. agent[p] \in Marvins /\ copy[p] \in Descriptions \cup {Nothing}
    BY <2>1 DEF CatalogTyped, HandlersTyped
  <2>3. QED
    BY <2>1, <2>2, WriterTyped DEF CatalogTyped, HistoriesTyped, historyVars, counters
<1>4. ASSUME NEW d \in Descriptions \cup {Nothing}, SetConfigs(p, d)
      PROVE  CatalogTyped'
  <2>1. /\ pc[p] = "writing" /\ configs' = [configs EXCEPT ![agent[p]] = d]
        /\ stated' = [stated EXCEPT ![agent[p]] = d]
        /\ overtaken' = overtaken \cup With({}, agent[p], Beside(p, "writing"))
        /\ Proceed(p, "idle") /\ Hold(p, Nothing)
        /\ UNCHANGED <<capability, serves, agent, manifest, offered, crossed, due, counters>>
    BY <1>4, Zenon DEF SetConfigs
  <2>2. agent[p] \in Marvins
    BY <2>1 DEF CatalogTyped, HandlersTyped
  <2>3. With({}, agent[p], Beside(p, "writing")) \in SUBSET Marvins
    BY <2>2, WithWithin
  <2>4. HistoriesTyped'
    BY <2>1, <2>2, <2>3 DEF CatalogTyped, HistoriesTyped
  <2>5. QED
    BY <2>1, <2>2, <2>4, WriterTyped DEF CatalogTyped, counters
<1>5. QED
  BY <1>1, <1>2, <1>3, <1>4

\* The steps of a registration on its Marvin's row and relation.
LEMMA MarvinTyped ==
  ASSUME CatalogTyped, reverted' \in BOOLEAN, NEW h \in Handlers, SaveMarvin(h) \/ Link(h)
  PROVE  CatalogTyped'
<1>1. h \in Processes /\ h \in Writers /\ Nothing \in Copies /\ {"linking", "idle"} \subseteq Labels
  BY DEF Processes, Writers, Copies, Labels
<1>2. /\ pc[h] \in {"saving", "linking"} /\ agent[h] \in Marvins
      /\ manifest[h] \in Descriptions \cup {Nothing}
  BY DEF SaveMarvin, Link, CatalogTyped, HandlersTyped
<1>3. /\ pc' \in [Processes -> Labels] /\ copy' \in [Processes -> Copies]
      /\ pc'[h] \in {"linking", "idle"}
      /\ \A q \in Processes \ {h} : pc'[q] = pc[q] /\ copy'[q] = copy[q]
  <2>1. CASE SaveMarvin(h)
    <3>1. Proceed(h, "linking") /\ Hold(h, Nothing)
      BY <2>1, Zenon DEF SaveMarvin
    <3>2. QED
      BY <1>1, <3>1, Moved
  <2>2. CASE Link(h)
    <3>1. Proceed(h, "idle") /\ UNCHANGED copy
      BY <2>2, Zenon DEF Link
    <3>2. QED
      BY <1>1, <3>1, Stepped
  <2>3. QED
    BY <2>1, <2>2
<1>4. UNCHANGED <<capability, agent, manifest, registrations, edits, faults>>
  BY DEF SaveMarvin, Link, counters
<1>5. /\ due' \in BOOLEAN /\ serves' \subseteq Marvins
      /\ configs' \in [Marvins -> Descriptions \cup {Nothing}] /\ HistoriesTyped'
  <2>1. CASE SaveMarvin(h)
    <3>1. /\ offered' = With(offered, agent[h], manifest[h] # Nothing)
          /\ overtaken' = With(overtaken, agent[h], Beside(h, "writing"))
          /\ crossed' = With(crossed, agent[h], Beside(h, "linking"))
          /\ configs' = [configs EXCEPT ![agent[h]] = manifest[h]]
          /\ stated' = [stated EXCEPT ![agent[h]] = manifest[h]]
          /\ UNCHANGED <<due, serves>>
      BY <2>1, Zenon DEF SaveMarvin
    <3>2. /\ offered' \in SUBSET Marvins /\ overtaken' \in SUBSET Marvins
          /\ crossed' \in SUBSET Marvins
      BY <1>2, <3>1, WithWithin DEF CatalogTyped, HistoriesTyped
    <3>3. QED
      BY <1>2, <3>1, <3>2 DEF CatalogTyped, HistoriesTyped
  <2>2. CASE Link(h)
    <3>1. /\ due' = (due \/ manifest[h] # Nothing)
          /\ serves' = IF manifest[h] = Nothing THEN serves \ {agent[h]}
                                                ELSE serves \cup {agent[h]}
          /\ UNCHANGED <<configs, historyVars>>
      BY <2>2, Zenon DEF Link
    <3>2. (due \/ manifest[h] # Nothing) \in BOOLEAN
      BY Zenon
    <3>3. due' \in BOOLEAN
      BY <3>1, <3>2, Zenon
    <3>4. QED
      BY <1>2, <3>1, <3>3 DEF CatalogTyped, HistoriesTyped, historyVars
  <2>3. QED
    BY <2>1, <2>2
<1>6. HandlersTyped'
  BY <1>2, <1>3, <1>4 DEF CatalogTyped, HandlersTyped, Processes, Writers
<1>7. HoldersTyped'
  BY <1>3, <1>4 DEF CatalogTyped, HoldersTyped, Holds
<1>8. QED
  BY <1>3, <1>4, <1>5, <1>6, <1>7 DEF CatalogTyped, Labels, Copies

\* The steps of the tasks and the operators.
LEMMA OtherTyped ==
  ASSUME CatalogTyped, reverted' \in BOOLEAN, NEW p \in Tasks \cup Editors,
         NEW l \in {"embedding", "editing", "idle"}, NEW c \in Copies,
         capability' \in Capability, l # "idle" => c \in Capability,
         Hold(p, c), Proceed(p, l), UNCHANGED marvinVars,
         due' \in BOOLEAN, registrations' \in Nat, edits' \in Nat, faults' \in Nat
  PROVE  CatalogTyped'
<1>1. p \in Processes /\ p \notin Handlers /\ l \in Labels
  BY ProcessAssumption DEF Processes, Labels, Holds
<1>2. /\ pc' \in [Processes -> Labels] /\ copy' \in [Processes -> Copies]
      /\ pc'[p] = l /\ copy'[p] = c
      /\ \A q \in Processes \ {p} : pc'[q] = pc[q] /\ copy'[q] = copy[q]
  BY <1>1, Moved
<1>3. UNCHANGED <<configs, serves, agent, manifest, stated, offered, overtaken, crossed>>
  BY DEF marvinVars, historyVars
<1>4. HandlersTyped'
  BY <1>1, <1>2, <1>3 DEF CatalogTyped, HandlersTyped, Processes, Writers
<1>5. HoldersTyped' /\ HistoriesTyped'
  BY <1>2, <1>3 DEF CatalogTyped, HoldersTyped, HistoriesTyped, Holds
<1>6. QED
  BY <1>2, <1>3, <1>4, <1>5 DEF CatalogTyped, Labels, Copies

LEMMA CrashTyped ==
  ASSUME CatalogTyped, reverted' \in BOOLEAN, Crash
  PROVE  CatalogTyped'
<1>1. /\ UNCHANGED <<capability, configs, serves, stated, offered, overtaken, registrations, edits>>
      /\ due' = FALSE /\ faults' \in Nat
  BY DEF Crash, Fault, CatalogTyped
<1>2. /\ pc' \in [Processes -> Labels] /\ copy' \in [Processes -> Copies]
      /\ \A h \in Handlers : pc'[h] = "idle"
      /\ \A p \in Processes : pc'[p] = "idle" \/ (pc'[p] = pc[p] /\ copy'[p] = copy[p])
  <2>1. /\ pc' = [p \in Processes |-> IF p \in Editors THEN pc[p] ELSE "idle"]
        /\ copy' = [p \in Processes |-> IF p \in Editors THEN copy[p] ELSE Nothing]
    BY DEF Crash
  <2>2. pc' \in [Processes -> Labels]
    BY <2>1 DEF CatalogTyped, Labels
  <2>3. copy' \in [Processes -> Copies]
    BY <2>1 DEF CatalogTyped, Copies
  <2>4. \A h \in Handlers : h \in Processes /\ h \notin Editors
    BY ProcessAssumption DEF Processes
  <2>5. \A h \in Handlers : pc'[h] = "idle"
    BY <2>1, <2>4
  <2>6. ASSUME NEW p \in Processes
        PROVE  pc'[p] = "idle" \/ (pc'[p] = pc[p] /\ copy'[p] = copy[p])
    BY <2>1
  <2>7. QED
    BY <2>2, <2>3, <2>5, <2>6
<1>3. /\ agent' \in [Writers -> Marvins \cup {Nothing}]
      /\ \A p \in Editors : agent'[p] = agent[p]
      /\ manifest' \in [Handlers -> Descriptions \cup {Nothing}]
  BY DEF Crash, CatalogTyped, Writers
<1>4. HistoriesTyped'
  <2>1. crossed' \subseteq Marvins
    BY DEF Crash, CatalogTyped, HistoriesTyped, HandlersTyped
  <2>2. QED
    BY <1>1, <2>1 DEF CatalogTyped, HistoriesTyped
<1>5. HandlersTyped'
  <2>1. ASSUME NEW p \in Writers, pc'[p] = "writing"
        PROVE  agent'[p] \in Marvins /\ copy'[p] \in Descriptions \cup {Nothing}
    <3>1. p \in Processes /\ p \in Editors
      BY <1>2, <2>1 DEF Writers, Processes
    <3>2. pc[p] = "writing" /\ copy'[p] = copy[p] /\ agent'[p] = agent[p]
      BY <1>2, <1>3, <2>1, <3>1
    <3>3. QED
      BY <3>2 DEF CatalogTyped, HandlersTyped
  <2>2. QED
    BY <1>2, <2>1 DEF HandlersTyped
<1>6. HoldersTyped'
  BY <1>1, <1>2 DEF CatalogTyped, HoldersTyped, Holds
<1>7. QED
  BY <1>1, <1>2, <1>3, <1>4, <1>5, <1>6 DEF CatalogTyped, Labels, Copies

LEMMA CatalogTypeStep == CatalogTyped /\ [CatalogNext]_catalogVars => CatalogTyped'
<1> SUFFICES ASSUME CatalogTyped, [CatalogNext]_catalogVars PROVE CatalogTyped'
  OBVIOUS
<1>1. CASE UNCHANGED catalogVars
  BY <1>1 DEF catalogVars, marvinVars, historyVars, counters, CatalogTyped, HandlersTyped,
             HoldersTyped, HistoriesTyped
<1>2. CASE CatalogNext
  <2>1. reverted' \in BOOLEAN
    <3>1. (reverted \/ Reverts) \in BOOLEAN
      BY Zenon
    <3>2. QED
      BY <1>2, <3>1, Zenon DEF CatalogNext
  <2>2. ASSUME NEW h \in Handlers, NEW m \in Marvins, NEW d \in Descriptions \cup {Nothing},
               RegisterMarvin(h, m, d)
        PROVE  CatalogTyped'
    BY <2>1, <2>2, RegisterTyped
  <2>3. ASSUME NEW h \in Handlers, ReadCapability(h)
        PROVE  CatalogTyped'
    <3>1. pc[h] = "reading" /\ manifest[h] \in Descriptions
      BY <2>3 DEF ReadCapability, CatalogTyped, HandlersTyped
    <3>2. capability' \in Capability
      BY <2>3, <3>1, Created DEF ReadCapability, CatalogTyped
    <3>3. QED
      BY <2>1, <2>3, <3>1, <3>2, UpdateTyped DEF ReadCapability
  <2>4. ASSUME NEW h \in Handlers, Describe(h) \/ Enable(h)
        PROVE  CatalogTyped'
    <3>1. /\ pc[h] \in {"describing", "enabling"} /\ manifest[h] \in Descriptions
          /\ copy[h] \in Capability /\ capability \in Capability
      BY <2>4 DEF Describe, Enable, CatalogTyped, HandlersTyped, HoldersTyped, Holds, Processes
    <3>2. PICK columns, e :
            /\ e \in Capability /\ SaveColumns(columns, Rebuilt(e)) /\ Hold(h, Rebuilt(e))
            /\ Proceed(h, Update(h, Rebuilt(e))) /\ UNCHANGED <<marvinVars, due, counters>>
      <4> DEFINE a == [copy[h] EXCEPT !.description = manifest[h]]
                 b == [copy[h] EXCEPT !.enabled = TRUE]
      <4>1. a \in Capability /\ b \in Capability
        BY <3>1 DEF Capability
      <4>2. CASE Describe(h)
        <5>1. /\ SaveColumns({"description"}, Rebuilt(a)) /\ Hold(h, Rebuilt(a))
              /\ Proceed(h, Update(h, Rebuilt(a))) /\ UNCHANGED <<marvinVars, due, counters>>
          BY <4>2, Zenon DEF Describe
        <5> HIDE DEF a
        <5>2. QED
          BY <4>1, <5>1, Zenon
      <4>3. CASE Enable(h)
        <5>1. /\ SaveColumns({"enabled"}, Rebuilt(b)) /\ Hold(h, Rebuilt(b))
              /\ Proceed(h, Update(h, Rebuilt(b))) /\ UNCHANGED <<marvinVars, due, counters>>
          BY <4>3, Zenon DEF Enable
        <5> HIDE DEF b
        <5>2. QED
          BY <4>1, <5>1, Zenon
      <4>4. QED
        BY <2>4, <4>2, <4>3
    <3>3. Rebuilt(e) \in Capability
      BY <3>2, Columns, Whole
    <3>4. capability' \in Capability
      BY <3>1, <3>2, <3>3, Saved
    <3>5. QED
      BY <2>1, <3>1, <3>2, <3>3, <3>4, UpdateTyped
  <2>5. ASSUME NEW h \in Handlers, SaveMarvin(h) \/ Link(h)
        PROVE  CatalogTyped'
    BY <2>1, <2>5, MarvinTyped
  <2>14. ASSUME NEW h \in Handlers, NEW m \in Marvins, IgnoreMarvin(h, m)
         PROVE  CatalogTyped'
    BY <2>1, <2>14, IgnoreTyped
  <2>15. ASSUME NEW h \in Handlers, ReadMarvin(h)
         PROVE  CatalogTyped'
    BY <2>1, <2>15, RowTyped DEF Writers
  <2>16. ASSUME NEW p \in Writers, WriteMarvin(p)
         PROVE  CatalogTyped'
    BY <2>1, <2>16, RowTyped
  <2>17. ASSUME NEW o \in Editors,
                \/ \E m \in Marvins : BeginPatch(o, m)
                \/ \E d \in Descriptions \cup {Nothing} : SetConfigs(o, d)
         PROVE  CatalogTyped'
    BY <2>1, <2>17, RowTyped DEF Writers
  <2>6. ASSUME NEW t \in Tasks, RunTriggered(t) \/ Poll(t) \/ Regenerate(t)
        PROVE  CatalogTyped'
    <3>1. /\ capability \in Capability /\ due' \in BOOLEAN
          /\ Hold(t, capability) /\ Proceed(t, "embedding")
          /\ UNCHANGED <<capability, marvinVars, counters>>
      BY <2>6 DEF RunTriggered, Poll, Regenerate, Load, CatalogTyped
    <3>2. QED
      BY <2>1, <3>1, OtherTyped DEF CatalogTyped, Copies, counters
  <2>7. ASSUME NEW t \in Tasks, SaveEmbedding(t)
        PROVE  CatalogTyped'
    <3>1. copy[t] \in Capability /\ capability \in Capability
      BY <2>7 DEF SaveEmbedding, CatalogTyped, HoldersTyped, Holds, Processes
    <3> DEFINE e == [copy[t] EXCEPT !.embedding = copy[t].document, !.embedded = copy[t].version]
    <3>2. e \in Capability
      BY <3>1 DEF Capability
    <3>3. Rebuilt(e) \in Capability
      BY <3>2, Columns, Whole
    <3>4. /\ SaveColumns({"embedding", "embedded"}, Rebuilt(e))
          /\ Hold(t, Nothing) /\ Proceed(t, "idle") /\ UNCHANGED <<marvinVars, due, counters>>
      BY <2>7, Zenon DEF SaveEmbedding
    <3> HIDE DEF e
    <3>5. capability' \in Capability
      BY <3>1, <3>3, <3>4, Saved
    <3>6. QED
      BY <2>1, <3>4, <3>5, OtherTyped DEF CatalogTyped, Copies, counters
  <2>8. ASSUME NEW t \in Tasks, EmbeddingFails(t)
        PROVE  CatalogTyped'
    <3>1. capability \in Capability
      BY <2>8 DEF EmbeddingFails, CatalogTyped, HoldersTyped, Holds, Processes
    <3>2. QED
      BY <2>1, <2>8, <3>1, OtherTyped DEF EmbeddingFails, Fault, CatalogTyped, Copies
  <2>9. ASSUME NEW o \in Editors, BeginEdit(o)
        PROVE  CatalogTyped'
    BY <2>1, <2>9, OtherTyped DEF BeginEdit, CatalogTyped, Copies
  <2>10. ASSUME NEW o \in Editors, NEW d \in Descriptions, NEW on \in BOOLEAN, EndEdit(o, d, on)
         PROVE  CatalogTyped'
    <3>1. copy[o] \in Capability
      BY <2>10 DEF EndEdit, CatalogTyped, HoldersTyped, Holds, Processes
    <3> DEFINE e == [copy[o] EXCEPT !.description = d, !.enabled = on]
    <3>2. e \in Capability
      BY <3>1 DEF Capability
    <3>3. /\ capability' = Rebuilt(e) /\ Hold(o, Nothing) /\ Proceed(o, "idle")
          /\ UNCHANGED <<marvinVars, due, counters>>
      BY <2>10, Zenon DEF EndEdit
    <3> HIDE DEF e
    <3>4. capability' \in Capability
      BY <3>2, <3>3, Columns, Whole
    <3>5. QED
      BY <2>1, <3>3, <3>4, OtherTyped DEF CatalogTyped, Copies, counters
  <2>11. CASE BumpVersion
    <3>1. capability \in Capability
      BY <2>11 DEF BumpVersion, CatalogTyped
    <3>2. capability' \in Capability
      BY <2>11, <3>1 DEF BumpVersion, Capability
    <3>3. HandlersTyped' /\ HoldersTyped' /\ HistoriesTyped'
      BY <2>11, <3>2 DEF BumpVersion, CatalogTyped, HandlersTyped, HoldersTyped, HistoriesTyped,
                         marvinVars, historyVars
    <3>4. QED
      BY <2>1, <2>11, <3>2, <3>3 DEF BumpVersion, CatalogTyped, marvinVars
  <2>12. CASE Crash
    BY <2>1, <2>12, CrashTyped
  <2>13. QED
    BY <1>2, <2>2, <2>3, <2>4, <2>5, <2>6, <2>7, <2>8, <2>9, <2>10, <2>11, <2>12, <2>14, <2>15,
       <2>16, <2>17 DEF CatalogNext, Registering
<1>3. QED
  BY <1>1, <1>2

\* Every reachable state of a capability, its Marvins and their handlers is well typed.
THEOREM CatalogTypeCorrect == CatalogSpec => []CatalogTyped
BY CatalogTypeInit, CatalogTypeStep, PTL DEF CatalogSpec

-----------------------------------------------------------------------------
(* CapabilityCatalog: what Marvins reported. *)

\* Nothing but what m's row was last told to say is on its way to it.
RowKept(m) ==
  /\ configs[m] = stated[m]
  /\ \A p \in Writers : agent[p] = m /\ pc[p] = "writing" => copy[p] = stated[m]

\* The relation is as m's last registration had it, or a handler is to make it so.
RelationKept(m) ==
  /\ \A h \in Handlers :
       agent[h] = m /\ pc[h] = "linking" => (manifest[h] # Nothing <=> m \in offered)
  /\ (\A h \in Handlers : ~(agent[h] = m /\ pc[h] = "linking")) =>
       (m \in serves <=> m \in offered)

Kept == \A m \in Marvins : /\ m \notin overtaken => RowKept(m)
                           /\ m \notin crossed => RelationKept(m)

LEMMA KeptInit == CatalogInit => Kept
<1> SUFFICES ASSUME CatalogInit, NEW m \in Marvins PROVE RowKept(m) /\ RelationKept(m)
  BY DEF Kept
<1>1. configs[m] = Nothing /\ stated[m] = Nothing /\ m \notin serves /\ m \notin offered
  BY DEF CatalogInit
<1>2. \A p \in Writers : pc[p] = "idle"
  BY DEF CatalogInit, Processes, Writers
<1>3. \A h \in Handlers : pc[h] = "idle"
  BY <1>2 DEF Writers
<1>4. QED
  BY <1>1, <1>2, <1>3 DEF RowKept, RelationKept

\* A step that neither begins nor ends a write to a Marvin.
LEMMA KeptAside ==
  ASSUME Kept, UNCHANGED marvinVars,
         \A p \in Writers :
           \/ pc'[p] = pc[p] /\ copy'[p] = copy[p]
           \/ pc[p] \notin {"linking", "writing"} /\ pc'[p] \notin {"linking", "writing"}
  PROVE  Kept'
<1>1. UNCHANGED <<configs, serves, agent, manifest, stated, offered, overtaken, crossed>>
  BY DEF marvinVars, historyVars
<1>2. \A m : RowKept(m) => RowKept(m)'
  BY <1>1 DEF RowKept
<1>3. \A m : RelationKept(m) => RelationKept(m)'
  BY <1>1 DEF RelationKept, Writers
<1>4. QED
  BY <1>1, <1>2, <1>3 DEF Kept

LEMMA KeptRegister ==
  ASSUME CatalogTyped, Kept, NEW h \in Handlers, NEW n \in Marvins,
         \/ \E d \in Descriptions \cup {Nothing} : RegisterMarvin(h, n, d)
         \/ IgnoreMarvin(h, n)
  PROVE  Kept'
<1>1. /\ pc[h] = "idle" /\ pc'[h] \in {"saving", "reading", "idle"}
      /\ \A p \in Writers \ {h} : pc'[p] = pc[p] /\ agent'[p] = agent[p]
      /\ \A g \in Handlers \ {h} : manifest'[g] = manifest[g]
  BY DEF RegisterMarvin, IgnoreMarvin, Proceed, CatalogTyped, Processes, Writers
<1>2. UNCHANGED <<configs, serves, stated, offered, overtaken, crossed, copy>>
  BY DEF RegisterMarvin, IgnoreMarvin, historyVars
<1>3. \A m : RowKept(m) => RowKept(m)'
  BY <1>1, <1>2 DEF RowKept
<1>4. \A m : RelationKept(m) => RelationKept(m)'
  BY <1>1, <1>2 DEF RelationKept, Writers
<1>5. QED
  BY <1>2, <1>3, <1>4 DEF Kept

LEMMA KeptSaveMarvin ==
  ASSUME CatalogTyped, Kept, NEW h \in Handlers, SaveMarvin(h)
  PROVE  Kept'
<1>1. /\ pc[h] = "saving" /\ pc'[h] = "linking" /\ agent[h] \in Marvins /\ h \in Writers
      /\ \A p \in Writers \ {h} : pc'[p] = pc[p] /\ copy'[p] = copy[p]
      /\ UNCHANGED <<serves, agent, manifest>>
  BY DEF SaveMarvin, Proceed, Hold, CatalogTyped, HandlersTyped, Processes, Writers
<1>2. /\ configs' = [configs EXCEPT ![agent[h]] = manifest[h]]
      /\ stated' = [stated EXCEPT ![agent[h]] = manifest[h]]
      /\ offered' = With(offered, agent[h], manifest[h] # Nothing)
      /\ overtaken' = With(overtaken, agent[h], Beside(h, "writing"))
      /\ crossed' = With(crossed, agent[h], Beside(h, "linking"))
  BY Zenon DEF SaveMarvin
<1>3. /\ configs'[agent[h]] = manifest[h] /\ stated'[agent[h]] = manifest[h]
      /\ \A n \in Marvins \ {agent[h]} : configs'[n] = configs[n] /\ stated'[n] = stated[n]
  BY <1>1, <1>2 DEF CatalogTyped, HistoriesTyped
<1>4. /\ agent[h] \in offered' <=> manifest[h] # Nothing
      /\ agent[h] \in overtaken' <=> Beside(h, "writing")
      /\ agent[h] \in crossed' <=> Beside(h, "linking")
      /\ \A n \in Marvins \ {agent[h]} :
           /\ n \in offered' <=> n \in offered
           /\ n \in overtaken' <=> n \in overtaken
           /\ n \in crossed' <=> n \in crossed
  BY <1>2 DEF With
<1>5. ASSUME NEW m \in Marvins, m \notin overtaken'
      PROVE  RowKept(m)'
  <2>1. CASE m = agent[h]
    <3>1. \A p \in Writers \ {h} : agent[p] = m => pc[p] # "writing"
      BY <1>4, <1>5, <2>1 DEF Beside
    <3>2. QED
      BY <1>1, <1>3, <2>1, <3>1 DEF RowKept
  <2>2. CASE m # agent[h]
    <3>1. RowKept(m)
      BY <1>4, <1>5, <2>2 DEF Kept
    <3>2. QED
      BY <1>1, <1>3, <2>2, <3>1 DEF RowKept
  <2>3. QED
    BY <2>1, <2>2
<1>6. ASSUME NEW m \in Marvins, m \notin crossed'
      PROVE  RelationKept(m)'
  <2>1. CASE m = agent[h]
    <3>1. \A g \in Handlers \ {h} : agent[g] = m => pc[g] # "linking"
      BY <1>4, <1>6, <2>1 DEF Beside, Writers
    <3>2. QED
      BY <1>1, <1>4, <2>1, <3>1 DEF RelationKept, Writers
  <2>2. CASE m # agent[h]
    <3>1. RelationKept(m)
      BY <1>4, <1>6, <2>2 DEF Kept
    <3>2. QED
      BY <1>1, <1>4, <2>2, <3>1 DEF RelationKept, Writers
  <2>3. QED
    BY <2>1, <2>2
<1>7. QED
  BY <1>5, <1>6 DEF Kept

LEMMA KeptLink ==
  ASSUME CatalogTyped, Kept, NEW h \in Handlers, Link(h)
  PROVE  Kept'
<1>1. /\ pc[h] = "linking" /\ pc'[h] = "idle"
      /\ UNCHANGED <<configs, agent, manifest, stated, offered, overtaken, crossed, copy>>
      /\ serves' = IF manifest[h] = Nothing THEN serves \ {agent[h]} ELSE serves \cup {agent[h]}
      /\ \A p \in Writers \ {h} : pc'[p] = pc[p]
  BY DEF Link, Proceed, CatalogTyped, Processes, Writers, historyVars
<1>2. \A m : RowKept(m) => RowKept(m)'
  BY <1>1 DEF RowKept
<1>3. ASSUME NEW m \in Marvins, RelationKept(m)
      PROVE  RelationKept(m)'
  <2>1. CASE agent[h] = m
    BY <1>1, <1>3, <2>1 DEF RelationKept, Writers
  <2>2. CASE agent[h] # m
    BY <1>1, <1>3, <2>2 DEF RelationKept, Writers
  <2>3. QED
    BY <2>1, <2>2
<1>4. QED
  BY <1>1, <1>2, <1>3 DEF Kept

\* A process reads a row, or begins to.
LEMMA KeptRead ==
  ASSUME CatalogTyped, Kept, NEW p \in Writers,
         (p \in Handlers /\ ReadMarvin(p)) \/ \E m \in Marvins : BeginPatch(p, m)
  PROVE  Kept'
<1>1. /\ pc[p] = "idle" /\ pc'[p] = "writing" /\ copy'[p] = configs[agent'[p]]
      /\ UNCHANGED <<configs, serves, manifest, stated, offered, overtaken, crossed>>
      /\ \A q \in Writers \ {p} : pc'[q] = pc[q] /\ copy'[q] = copy[q] /\ agent'[q] = agent[q]
  <2>1. p \in Processes
    BY DEF Processes, Writers
  <2>2. CASE p \in Handlers /\ ReadMarvin(p)
    BY <2>1, <2>2 DEF ReadMarvin, Proceed, Hold, CatalogTyped, Processes, Writers, marvinVars,
                      historyVars
  <2>3. ASSUME NEW m \in Marvins, BeginPatch(p, m)
        PROVE  /\ pc[p] = "idle" /\ pc'[p] = "writing" /\ copy'[p] = configs[agent'[p]]
               /\ UNCHANGED <<configs, serves, manifest, stated, offered, overtaken, crossed>>
               /\ \A q \in Writers \ {p} :
                    pc'[q] = pc[q] /\ copy'[q] = copy[q] /\ agent'[q] = agent[q]
    BY <2>1, <2>3 DEF BeginPatch, Proceed, Hold, CatalogTyped, Processes, Writers, historyVars
  <2>4. QED
    BY <2>2, <2>3
<1>2. \A m : RowKept(m) => RowKept(m)'
  BY <1>1 DEF RowKept
<1>3. \A m : RelationKept(m) => RelationKept(m)'
  BY <1>1 DEF RelationKept, Writers
<1>4. QED
  BY <1>1, <1>2, <1>3 DEF Kept

LEMMA KeptWrite ==
  ASSUME CatalogTyped, Kept, NEW p \in Writers,
         WriteMarvin(p) \/ \E d \in Descriptions \cup {Nothing} : SetConfigs(p, d)
  PROVE  Kept'
<1>1. /\ pc[p] = "writing" /\ pc'[p] = "idle" /\ agent[p] \in Marvins
      /\ UNCHANGED <<serves, agent, manifest, offered, crossed>>
      /\ \A q \in Writers \ {p} : pc'[q] = pc[q] /\ copy'[q] = copy[q]
  BY DEF WriteMarvin, SetConfigs, Proceed, Hold, CatalogTyped, HandlersTyped, Processes, Writers,
         historyVars
<1>2. \A m : RelationKept(m) => RelationKept(m)'
  BY <1>1 DEF RelationKept, Writers
<1>3. ASSUME NEW m \in Marvins, m \notin overtaken'
      PROVE  RowKept(m)'
  <2>1. CASE WriteMarvin(p)
    <3>1. /\ UNCHANGED <<stated, overtaken>>
          /\ configs'[m] = IF agent[p] = m THEN copy[p] ELSE configs[m]
      BY <2>1 DEF WriteMarvin, CatalogTyped, historyVars
    <3>2. RowKept(m)
      BY <1>3, <3>1 DEF Kept
    <3>3. QED
      BY <1>1, <3>1, <3>2 DEF RowKept
  <2>2. ASSUME NEW d \in Descriptions \cup {Nothing}, SetConfigs(p, d)
        PROVE  RowKept(m)'
    <3>1. /\ configs'[m] = IF agent[p] = m THEN d ELSE configs[m]
          /\ stated'[m] = IF agent[p] = m THEN d ELSE stated[m]
      BY <2>2 DEF SetConfigs, CatalogTyped, HistoriesTyped
    <3>2. overtaken' = overtaken \cup With({}, agent[p], Beside(p, "writing"))
      BY <2>2, Zenon DEF SetConfigs
    <3>3. RowKept(m)
      BY <1>3, <3>2 DEF Kept
    <3>4. CASE agent[p] = m
      <4>1. \A q \in Writers \ {p} : agent[q] = m => pc[q] # "writing"
        BY <1>3, <3>2, <3>4 DEF Beside, With
      <4>2. QED
        BY <1>1, <3>1, <3>4, <4>1 DEF RowKept
    <3>5. CASE agent[p] # m
      BY <1>1, <3>1, <3>3, <3>5 DEF RowKept
    <3>6. QED
      BY <3>4, <3>5
  <2>3. QED
    BY <2>1, <2>2
<1>4. QED
  BY <1>1, <1>2, <1>3 DEF Kept

LEMMA KeptCrash ==
  ASSUME CatalogTyped, Kept, Crash
  PROVE  Kept'
<1>1. /\ UNCHANGED <<configs, serves, stated, offered, overtaken>>
      /\ crossed' = crossed \cup {agent[h] : h \in {g \in Handlers : pc[g] = "linking"}}
  BY DEF Crash
<1>2. \A h \in Handlers : pc'[h] = "idle"
  BY ProcessAssumption DEF Crash, Processes
<1>3. \A p \in Writers : \/ pc'[p] = "idle"
                         \/ pc'[p] = pc[p] /\ copy'[p] = copy[p] /\ agent'[p] = agent[p]
  BY DEF Crash, Processes, Writers
<1>4. \A m : RowKept(m) => RowKept(m)'
  BY <1>1, <1>3 DEF RowKept
<1>5. ASSUME NEW m \in Marvins, m \notin crossed'
      PROVE  RelationKept(m)'
  <2>1. m \notin crossed /\ \A h \in Handlers : ~(agent[h] = m /\ pc[h] = "linking")
    BY <1>1, <1>5
  <2>2. RelationKept(m)
    BY <2>1 DEF Kept
  <2>3. QED
    BY <1>1, <1>2, <2>1, <2>2 DEF RelationKept
<1>6. QED
  BY <1>1, <1>4, <1>5 DEF Kept

LEMMA KeptStep == CatalogTyped /\ Kept /\ [CatalogNext]_catalogVars => Kept'
<1> SUFFICES ASSUME CatalogTyped, Kept, [CatalogNext]_catalogVars PROVE Kept'
  OBVIOUS
<1>1. CASE UNCHANGED catalogVars
  BY <1>1, KeptAside DEF catalogVars
<1>2. CASE CatalogNext
  <2>1. ASSUME NEW h \in Handlers, NEW m \in Marvins,
               \/ \E d \in Descriptions \cup {Nothing} : RegisterMarvin(h, m, d)
               \/ IgnoreMarvin(h, m)
        PROVE  Kept'
    BY <2>1, KeptRegister
  <2>2. ASSUME NEW h \in Handlers, ReadCapability(h) \/ Describe(h) \/ Enable(h)
        PROVE  Kept'
    <3>1. /\ pc[h] \in {"reading", "describing", "enabling"} /\ UNCHANGED marvinVars
          /\ \E c : Proceed(h, Update(h, c)) /\ Hold(h, c)
      BY <2>2, Zenon DEF ReadCapability, Describe, Enable
    <3>2. QED
      BY <3>1, KeptAside DEF Proceed, Hold, Update, CatalogTyped, Processes, Writers
  <2>3. ASSUME NEW h \in Handlers, SaveMarvin(h) \/ Link(h)
        PROVE  Kept'
    BY <2>3, KeptSaveMarvin, KeptLink
  <2>4. ASSUME NEW p \in Writers,
               \/ p \in Handlers /\ ReadMarvin(p)
               \/ \E m \in Marvins : BeginPatch(p, m)
               \/ WriteMarvin(p)
               \/ \E d \in Descriptions \cup {Nothing} : SetConfigs(p, d)
        PROVE  Kept'
    BY <2>4, KeptRead, KeptWrite
  <2>5. ASSUME NEW p \in Tasks \cup Editors, pc[p] # "writing", pc[p] # "linking",
               UNCHANGED marvinVars, NEW l \in {"idle", "embedding", "editing"},
               NEW c, Proceed(p, l), Hold(p, c)
        PROVE  Kept'
    <3>1. \A q \in Writers : \/ pc'[q] = pc[q] /\ copy'[q] = copy[q]
                             \/ q = p /\ pc'[q] = l
      BY <2>5 DEF Proceed, Hold, CatalogTyped, Processes, Writers
    <3>2. QED
      BY <2>5, <3>1, KeptAside
  <2>6. ASSUME NEW t \in Tasks, RunTriggered(t) \/ Poll(t) \/ Regenerate(t)
        PROVE  Kept'
    <3>1. /\ pc[t] = "idle" /\ UNCHANGED marvinVars
          /\ Hold(t, capability) /\ Proceed(t, "embedding")
      BY <2>6, Zenon DEF RunTriggered, Poll, Regenerate, Load
    <3>2. QED
      BY <2>5, <3>1
  <2>7. ASSUME NEW t \in Tasks, SaveEmbedding(t) \/ EmbeddingFails(t)
        PROVE  Kept'
    <3>1. /\ pc[t] = "embedding" /\ UNCHANGED marvinVars
          /\ Hold(t, Nothing) /\ Proceed(t, "idle")
      BY <2>7, Zenon DEF SaveEmbedding, EmbeddingFails
    <3>2. QED
      BY <2>5, <3>1
  <2>8. ASSUME NEW o \in Editors,
               \/ BeginEdit(o)
               \/ \E d \in Descriptions, on \in BOOLEAN : EndEdit(o, d, on)
        PROVE  Kept'
    <3>1. /\ pc[o] \in {"idle", "editing"} /\ UNCHANGED marvinVars
          /\ \E l \in {"idle", "editing"} : \E c : Hold(o, c) /\ Proceed(o, l)
      BY <2>8, Zenon DEF BeginEdit, EndEdit
    <3>2. QED
      BY <2>5, <3>1
  <2>9. CASE BumpVersion
    BY <2>9, KeptAside DEF BumpVersion
  <2>10. CASE Crash
    BY <2>10, KeptCrash
  <2>11. QED
    BY <1>2, <2>1, <2>2, <2>3, <2>4, <2>6, <2>7, <2>8, <2>9, <2>10
       DEF CatalogNext, Registering, Writers
<1>3. QED
  BY <1>1, <1>2

\* What a Marvin reported last, or an operator set since, is what its row says, and it
\* serves what it offered last, except for the named races with the handlers' and the
\* operators' saves of whole rows, for any number of them, of registrations and faults.
THEOREM RegistrationsKept == CatalogSpec => []RegistrationKept
<1>1. CatalogInit => CatalogTyped /\ Kept
  BY CatalogTypeInit, KeptInit
<1>2. CatalogTyped /\ Kept /\ [CatalogNext]_catalogVars => (CatalogTyped /\ Kept)'
  BY CatalogTypeStep, KeptStep
<1>3. Kept => RegistrationKept
  BY DEF Kept, RowKept, RelationKept, RegistrationKept
<1>4. QED
  BY <1>1, <1>2, <1>3, PTL DEF CatalogSpec

-----------------------------------------------------------------------------
(* CapabilityCatalog: the embedding and the search document. *)

\* What every save keeps: the document is that of the description, and an embedding
\* that counts as fresh, or as that of the version, is the document's.
Consistent(c) ==
  /\ c.document = c.description /\ c.embedded <= c.version
  /\ c.embedding # Nothing /\ (~c.needs \/ c.embedded = c.version) => c.embedding = c.document
  /\ c.version > 0
  /\ c.embedded > 0 => c.embedding # Nothing
  /\ ~c.needs => c.embedded > 0

\* c is an earlier state of the row d.
NoLater(c, d) ==
  /\ c.version <= d.version /\ c.embedded <= d.embedded
  /\ c.version = d.version => c.document = d.document

RowSound == capability # Nothing => Consistent(capability)

CopiesSound ==
  \A p \in Processes : pc[p] \in Holds => Consistent(copy[p]) /\ NoLater(copy[p], capability)

Sound == ~reverted => RowSound /\ CopiesSound

\* Rebuilding the document of a copy that had its own, with the embedding kept.
LEMMA RebuiltConsistent ==
  ASSUME NEW c \in Capability, NEW e \in Capability, Consistent(c), e.document = c.document,
         e.version = c.version, e.embedding = c.embedding, e.embedded = c.embedded
  PROVE  Consistent(Rebuilt(e))
<1>1. /\ Rebuilt(e).document = e.description /\ Rebuilt(e).description = e.description
      /\ Rebuilt(e).version = IF e.document = e.description THEN e.version ELSE e.version + 1
      /\ Rebuilt(e).embedding = e.embedding /\ Rebuilt(e).embedded = e.embedded
      /\ Rebuilt(e).needs <=> Rebuilt(e).version > e.embedded
  BY Columns, Whole
<1>2. e.version \in Nat /\ e.embedded \in Nat
  BY DEF Capability
<1>3. QED
  BY <1>1, <1>2 DEF Consistent

\* A save that does not revert the row leaves every copy an earlier state of it.
LEMMA StillEarlier ==
  ASSUME capability \in Capability, capability' \in Capability, ~Reverts,
         NEW c \in Capability, NoLater(c, capability)
  PROVE  NoLater(c, capability')
<1>1. capability # Nothing
  BY NothingAssumption
<1>2. /\ capability.version \in Nat /\ capability'.version \in Nat /\ c.version \in Nat
      /\ capability.embedded \in Nat /\ capability'.embedded \in Nat /\ c.embedded \in Nat
  BY DEF Capability
<1>3. QED
  BY <1>1, <1>2 DEF Reverts, NoLater

\* The other copies, when one process moves on and the row is not reverted.
LEMMA CopiesStep ==
  ASSUME CatalogTyped, CopiesSound, capability \in Capability, capability' \in Capability,
         ~Reverts, NEW p \in Processes,
         \A q \in Processes \ {p} : pc'[q] = pc[q] /\ copy'[q] = copy[q],
         pc'[p] \in Holds => Consistent(copy'[p]) /\ NoLater(copy'[p], capability')
  PROVE  CopiesSound'
<1> SUFFICES ASSUME NEW q \in Processes, pc'[q] \in Holds
             PROVE  Consistent(copy'[q]) /\ NoLater(copy'[q], capability')
  BY DEF CopiesSound
<1>1. CASE q = p
  BY <1>1
<1>2. CASE q # p
  <2>1. /\ pc[q] \in Holds /\ copy'[q] = copy[q] /\ copy[q] \in Capability
        /\ Consistent(copy[q]) /\ NoLater(copy[q], capability)
    BY <1>2 DEF CopiesSound, CatalogTyped, HoldersTyped
  <2>2. NoLater(copy[q], capability')
    BY <2>1, StillEarlier
  <2>3. QED
    BY <2>1, <2>2
<1>3. QED
  BY <1>1, <1>2

\* A handler saves its copy c, rebuilt as r; the row keeps its embedding.
LEMMA SavedByHandler ==
  ASSUME CatalogTyped, RowSound, capability \in Capability, capability' \in Capability, ~Reverts,
         NEW c \in Capability, NoLater(c, capability), Consistent(c),
         NEW r \in Capability, Consistent(r),
         r.version = c.version => r.document = c.document,
         r.embedded = c.embedded, r.needs <=> r.version > r.embedded,
         capability'.document = r.document, capability'.version = r.version,
         capability'.needs = r.needs, capability'.description = r.document,
         capability'.embedding = capability.embedding,
         capability'.embedded = capability.embedded
  PROVE  Consistent(capability') /\ NoLater(r, capability')
<1>1. capability # Nothing /\ Consistent(capability)
  BY NothingAssumption DEF RowSound
<1>2. /\ capability.version \in Nat /\ capability.embedded \in Nat
      /\ r.version \in Nat /\ c.version \in Nat /\ c.embedded \in Nat
  BY DEF Capability
<1>3. NoLater(r, capability')
  BY <1>2 DEF NoLater
<1>4. capability.embedded <= r.version
  BY <1>1, <1>2 DEF Consistent, Reverts
<1>5. r.version = capability.version => r.document = capability.document
  BY <1>1 DEF Reverts
<1>6. ~r.needs \/ capability.embedded = r.version =>
        r.version = capability.version /\ capability.embedded = capability.version
  BY <1>1, <1>2 DEF Consistent, NoLater, Reverts
<1>7. QED
  BY <1>1, <1>3, <1>4, <1>5, <1>6 DEF Consistent

LEMMA SoundRead ==
  ASSUME CatalogTyped, CatalogTyped', RowSound, CopiesSound, ~Reverts,
         NEW h \in Handlers, ReadCapability(h)
  PROVE  RowSound' /\ CopiesSound'
<1>1. /\ pc[h] = "reading" /\ manifest[h] \in Descriptions /\ h \in Processes
      /\ copy'[h] = capability'
      /\ \A q \in Processes \ {h} : pc'[q] = pc[q] /\ copy'[q] = copy[q]
  BY DEF ReadCapability, Proceed, Hold, CatalogTyped, HandlersTyped, Processes
<1>2. CASE capability = Nothing
  <2>1. capability' = NewCapability(manifest[h])
    BY <1>2 DEF ReadCapability
  <2>2. capability' \in Capability /\ Consistent(capability')
    BY <1>1, <2>1, Created DEF Consistent
  <2>3. NoLater(capability', capability')
    BY <2>2 DEF NoLater, Capability
  <2>4. \A q \in Processes : pc[q] \notin Holds
    BY <1>2, NothingAssumption DEF CatalogTyped, HoldersTyped
  <2>5. CopiesSound'
    BY <1>1, <2>2, <2>3, <2>4 DEF CopiesSound
  <2>6. QED
    BY <2>2, <2>5 DEF RowSound
<1>3. CASE capability # Nothing
  <2>1. /\ capability \in Capability /\ capability' = capability
        /\ Consistent(capability) /\ NoLater(capability, capability)
    BY <1>3 DEF ReadCapability, CatalogTyped, RowSound, NoLater, Capability
  <2>2. CopiesSound'
    BY <1>1, <2>1, CopiesStep
  <2>3. QED
    BY <2>1, <2>2 DEF RowSound
<1>4. QED
  BY <1>2, <1>3

LEMMA SoundDescribe ==
  ASSUME CatalogTyped, CatalogTyped', RowSound, CopiesSound, ~Reverts,
         NEW h \in Handlers, Describe(h)
  PROVE  RowSound' /\ CopiesSound'
<1> DEFINE c == copy[h]
           e == [c EXCEPT !.description = manifest[h]]
           r == Rebuilt(e)
<1>1. /\ h \in Processes /\ pc[h] \in Holds /\ c \in Capability /\ capability \in Capability
      /\ Consistent(c) /\ NoLater(c, capability) /\ manifest[h] \in Descriptions
  BY DEF Describe, Holds, CatalogTyped, HandlersTyped, HoldersTyped, CopiesSound, Processes
<1>2. SaveColumns({"description"}, r) /\ Hold(h, r) /\ Proceed(h, Update(h, r))
  BY Zenon DEF Describe
<1>3. /\ e \in Capability /\ e.document = c.document /\ e.version = c.version
      /\ e.embedding = c.embedding /\ e.embedded = c.embedded
  BY <1>1 DEF Capability
<1> HIDE DEF e
<1>4. Consistent(r)
  BY <1>1, <1>3, RebuiltConsistent
<1>5. /\ r \in Capability /\ r.description = e.description /\ r.document = e.description
      /\ r.version = IF e.document = e.description THEN e.version ELSE e.version + 1
      /\ r.embedded = e.embedded
      /\ r.needs <=> r.version > e.embedded
  BY <1>3, Columns, Whole
<1> HIDE DEF r
<1>6. /\ capability' \in Capability /\ capability'.document = r.document
      /\ capability'.version = r.version /\ capability'.needs = r.needs
      /\ capability'.description = r.description
      /\ capability'.embedding = capability.embedding /\ capability'.embedded = capability.embedded
  BY <1>1, <1>2, <1>5, Saved
<1>7. r.version = c.version => r.document = c.document
  BY <1>1, <1>3, <1>5 DEF Capability
<1> HIDE DEF c
<1>8. Consistent(capability') /\ NoLater(r, capability')
  BY <1>1, <1>3, <1>4, <1>5, <1>6, <1>7, SavedByHandler
<1>9. /\ copy'[h] = r
      /\ \A q \in Processes \ {h} : pc'[q] = pc[q] /\ copy'[q] = copy[q]
  BY <1>1, <1>2 DEF Proceed, Hold, CatalogTyped
<1>10. CopiesSound'
  BY <1>1, <1>4, <1>6, <1>8, <1>9, CopiesStep
<1>11. QED
  BY <1>8, <1>10 DEF RowSound

LEMMA SoundEnable ==
  ASSUME CatalogTyped, CatalogTyped', RowSound, CopiesSound, ~Reverts,
         NEW h \in Handlers, Enable(h)
  PROVE  RowSound' /\ CopiesSound'
<1> DEFINE c == copy[h]
           e == [c EXCEPT !.enabled = TRUE]
           r == Rebuilt(e)
<1>1. /\ h \in Processes /\ pc[h] \in Holds /\ c \in Capability /\ capability \in Capability
      /\ Consistent(c) /\ NoLater(c, capability) /\ Consistent(capability)
  BY NothingAssumption
     DEF Enable, Holds, CatalogTyped, HoldersTyped, CopiesSound, RowSound, Processes
<1>2. SaveColumns({"enabled"}, r) /\ Hold(h, r) /\ Proceed(h, Update(h, r))
  BY Zenon DEF Enable
<1>3. /\ e \in Capability /\ e.document = c.document /\ e.version = c.version
      /\ e.embedding = c.embedding /\ e.embedded = c.embedded /\ e.description = c.description
  BY <1>1 DEF Capability
<1> HIDE DEF e
<1>4. Consistent(r)
  BY <1>1, <1>3, RebuiltConsistent
<1>5. /\ r \in Capability /\ r.description = e.description /\ r.document = e.description
      /\ r.version = e.version
      /\ r.embedded = e.embedded
      /\ r.needs <=> r.version > e.embedded
  BY <1>1, <1>3, Columns, Whole DEF Consistent
<1> HIDE DEF r
<1>6. /\ capability' \in Capability /\ capability'.document = r.document
      /\ capability'.version = r.version /\ capability'.needs = r.needs
      /\ capability'.description = capability.description
      /\ capability'.embedding = capability.embedding /\ capability'.embedded = capability.embedded
  BY <1>1, <1>2, <1>5, Saved
<1>7. capability'.description = r.document
  <2>1. r.version = capability.version
    BY <1>1, <1>3, <1>5, <1>6, NothingAssumption DEF Reverts, NoLater, Capability
  <2>2. QED
    BY <1>1, <1>6, <2>1, NothingAssumption DEF Reverts, Consistent
<1>8. r.version = c.version => r.document = c.document
  BY <1>1, <1>3, <1>5 DEF Consistent
<1> HIDE DEF c
<1>9. Consistent(capability') /\ NoLater(r, capability')
  BY <1>1, <1>3, <1>4, <1>5, <1>6, <1>7, <1>8, SavedByHandler
<1>10. /\ copy'[h] = r
       /\ \A q \in Processes \ {h} : pc'[q] = pc[q] /\ copy'[q] = copy[q]
  BY <1>1, <1>2 DEF Proceed, Hold, CatalogTyped
<1>11. CopiesSound'
  BY <1>1, <1>4, <1>6, <1>9, <1>10, CopiesStep
<1>12. QED
  BY <1>9, <1>11 DEF RowSound

LEMMA SoundEmbedding ==
  ASSUME CatalogTyped, CatalogTyped', RowSound, CopiesSound, ~Reverts,
         NEW t \in Tasks, SaveEmbedding(t)
  PROVE  RowSound' /\ CopiesSound'
<1> DEFINE c == copy[t]
           e == [c EXCEPT !.embedding = c.document, !.embedded = c.version]
           r == Rebuilt(e)
<1>1. /\ t \in Processes /\ pc[t] \in Holds /\ c \in Capability /\ capability \in Capability
      /\ Consistent(c) /\ NoLater(c, capability) /\ Consistent(capability)
  BY NothingAssumption
     DEF SaveEmbedding, Holds, CatalogTyped, HoldersTyped, CopiesSound, RowSound, Processes
<1>2. SaveColumns({"embedding", "embedded"}, r) /\ Hold(t, Nothing) /\ Proceed(t, "idle")
  BY Zenon DEF SaveEmbedding
<1>3. /\ e \in Capability /\ e.document = c.document /\ e.version = c.version
      /\ e.embedding = c.document /\ e.embedded = c.version /\ e.description = c.description
  BY <1>1 DEF Capability
<1> HIDE DEF e
<1>4. /\ r \in Capability /\ r.document = c.document /\ r.version = c.version
      /\ r.embedding = c.document /\ r.embedded = c.version
  BY <1>1, <1>3, Columns, Whole DEF Consistent
<1> HIDE DEF r
<1>5. /\ capability' \in Capability /\ capability'.document = r.document
      /\ capability'.version = r.version /\ capability'.description = capability.description
      /\ capability'.embedding = r.embedding /\ capability'.embedded = r.embedded
  BY <1>1, <1>2, <1>4, Saved
<1>6. capability'.description = c.document
  <2>1. c.version = capability.version
    BY <1>1, <1>4, <1>5, NothingAssumption DEF Reverts, NoLater, Capability
  <2>2. QED
    BY <1>1, <1>5, <2>1 DEF Consistent, NoLater
<1>7. Consistent(capability')
  <2>1. c.document # Nothing /\ c.version > 0 /\ c.version \in Nat
    BY <1>1, NothingAssumption DEF Consistent, Capability
  <2>2. QED
    BY <1>1, <1>4, <1>5, <1>6, <2>1 DEF Consistent, Capability
<1>8. /\ pc'[t] = "idle"
      /\ \A q \in Processes \ {t} : pc'[q] = pc[q] /\ copy'[q] = copy[q]
  BY <1>1, <1>2 DEF Proceed, Hold, CatalogTyped
<1>9. CopiesSound'
  BY <1>1, <1>5, <1>8, CopiesStep DEF Holds
<1>10. QED
  BY <1>7, <1>9 DEF RowSound

LEMMA SoundEdit ==
  ASSUME CatalogTyped, CatalogTyped', RowSound, CopiesSound, ~Reverts,
         NEW o \in Editors, NEW d \in Descriptions, NEW on \in BOOLEAN, EndEdit(o, d, on)
  PROVE  RowSound' /\ CopiesSound'
<1> DEFINE c == copy[o]
           e == [c EXCEPT !.description = d, !.enabled = on]
<1>1. /\ o \in Processes /\ pc[o] \in Holds /\ c \in Capability /\ capability \in Capability
      /\ Consistent(c)
  BY DEF EndEdit, Holds, CatalogTyped, HoldersTyped, CopiesSound, Processes
<1>2. capability' = Rebuilt(e) /\ Hold(o, Nothing) /\ Proceed(o, "idle")
  BY Zenon DEF EndEdit
<1>3. /\ e \in Capability /\ e.document = c.document /\ e.version = c.version
      /\ e.embedding = c.embedding /\ e.embedded = c.embedded
  BY <1>1 DEF Capability
<1> HIDE DEF e, c
<1>4. Consistent(capability') /\ capability' \in Capability
  BY <1>1, <1>2, <1>3, RebuiltConsistent, Columns, Whole
<1>5. /\ pc'[o] = "idle"
      /\ \A q \in Processes \ {o} : pc'[q] = pc[q] /\ copy'[q] = copy[q]
  BY <1>1, <1>2 DEF Proceed, Hold, CatalogTyped
<1>6. CopiesSound'
  BY <1>1, <1>4, <1>5, CopiesStep DEF Holds
<1>7. QED
  BY <1>4, <1>6 DEF RowSound

\* A step that leaves the row alone, and copies it or drops a copy at most.
LEMMA SoundAside ==
  ASSUME CatalogTyped, RowSound, CopiesSound, UNCHANGED capability,
         \A p \in Processes : pc'[p] \in Holds =>
           \/ pc[p] \in Holds /\ copy'[p] = copy[p]
           \/ capability \in Capability /\ copy'[p] = capability
  PROVE  RowSound' /\ CopiesSound'
<1>1. capability \in Capability => Consistent(capability) /\ NoLater(capability, capability)
  BY NothingAssumption DEF RowSound, NoLater, Capability
<1>2. QED
  BY <1>1 DEF RowSound, CopiesSound

LEMMA SoundBump ==
  ASSUME CatalogTyped, CatalogTyped', RowSound, CopiesSound, ~Reverts, BumpVersion
  PROVE  RowSound' /\ CopiesSound'
<1>1. /\ capability \in Capability /\ Consistent(capability)
      /\ \A p \in Processes : pc'[p] = pc[p] /\ copy'[p] = copy[p]
  BY DEF BumpVersion, CatalogTyped, RowSound
<1>2. /\ capability' \in Capability /\ capability'.version = capability.version + 1
      /\ capability'.document = capability.document /\ capability'.description = capability.description
      /\ capability'.embedding = capability.embedding /\ capability'.embedded = capability.embedded
      /\ capability'.needs = capability.needs
  BY <1>1 DEF BumpVersion, Capability
<1>3. RowSound'
  BY <1>1, <1>2 DEF RowSound, Consistent, Capability
<1>4. ASSUME NEW p \in Processes, pc'[p] \in Holds
      PROVE  Consistent(copy'[p]) /\ NoLater(copy'[p], capability')
  <2>1. /\ copy'[p] = copy[p] /\ copy[p] \in Capability
        /\ Consistent(copy[p]) /\ NoLater(copy[p], capability)
    BY <1>1, <1>4 DEF CopiesSound, CatalogTyped, HoldersTyped
  <2>2. NoLater(copy[p], capability')
    BY <1>1, <1>2, <2>1, StillEarlier
  <2>3. QED
    BY <2>1, <2>2
<1>5. QED
  BY <1>3, <1>4 DEF CopiesSound

LEMMA SoundInit == CatalogInit => Sound
BY DEF CatalogInit, Sound, RowSound, CopiesSound, Holds, Processes

LEMMA SoundStep == CatalogTyped /\ CatalogTyped' /\ Sound /\ [CatalogNext]_catalogVars => Sound'
<1> SUFFICES ASSUME CatalogTyped, CatalogTyped', Sound, [CatalogNext]_catalogVars, ~reverted'
             PROVE  RowSound' /\ CopiesSound'
  BY DEF Sound
<1>1. CASE UNCHANGED catalogVars
  BY <1>1, Zenon DEF catalogVars, Sound, RowSound, CopiesSound
<1>2. CASE CatalogNext
  <2>1. ~Reverts /\ RowSound /\ CopiesSound
    <3>1. reverted' = (reverted \/ Reverts)
      BY <1>2, Zenon DEF CatalogNext
    <3>2. QED
      BY <3>1, Zenon DEF Sound
  <2>2. ASSUME NEW h \in Handlers, NEW m \in Marvins, NEW d \in Descriptions \cup {Nothing},
               RegisterMarvin(h, m, d)
        PROVE  RowSound' /\ CopiesSound'
    <3>1. UNCHANGED <<capability, copy>> /\ \A p \in Processes : pc'[p] \in Holds => pc'[p] = pc[p]
      BY <2>2 DEF RegisterMarvin, Proceed, CatalogTyped, Holds
    <3>2. QED
      BY <2>1, <3>1, SoundAside
  <2>3. ASSUME NEW h \in Handlers, ReadCapability(h)
        PROVE  RowSound' /\ CopiesSound'
    BY <2>1, <2>3, SoundRead
  <2>4. ASSUME NEW h \in Handlers, Describe(h)
        PROVE  RowSound' /\ CopiesSound'
    BY <2>1, <2>4, SoundDescribe
  <2>5. ASSUME NEW h \in Handlers, Enable(h)
        PROVE  RowSound' /\ CopiesSound'
    BY <2>1, <2>5, SoundEnable
  <2>6. ASSUME NEW p, NEW l, l \notin Holds, NEW c, Proceed(p, l),
               Hold(p, c) \/ UNCHANGED copy, UNCHANGED capability
        PROVE  RowSound' /\ CopiesSound'
    <3>1. \A q \in Processes : pc'[q] \in Holds => pc'[q] = pc[q] /\ copy'[q] = copy[q]
      BY <2>6 DEF Proceed, Hold, CatalogTyped
    <3>2. QED
      BY <2>1, <2>6, <3>1, SoundAside
  <2>7. "linking" \notin Holds /\ "idle" \notin Holds /\ "writing" \notin Holds
    BY DEF Holds
  <2>8. ASSUME NEW h \in Handlers, SaveMarvin(h) \/ Link(h) \/ ReadMarvin(h)
        PROVE  RowSound' /\ CopiesSound'
    <3>1. CASE SaveMarvin(h)
      BY <2>6, <2>7, <3>1, Zenon DEF SaveMarvin
    <3>2. CASE Link(h)
      BY <2>6, <2>7, <3>2, Zenon DEF Link
    <3>3. CASE ReadMarvin(h)
      BY <2>6, <2>7, <3>3, Zenon DEF ReadMarvin
    <3>4. QED
      BY <2>8, <3>1, <3>2, <3>3
  <2>18. ASSUME NEW p,
                \/ WriteMarvin(p)
                \/ \E m \in Marvins : BeginPatch(p, m)
                \/ \E d \in Descriptions \cup {Nothing} : SetConfigs(p, d)
         PROVE  RowSound' /\ CopiesSound'
    <3>1. CASE WriteMarvin(p)
      BY <2>6, <2>7, <3>1, Zenon DEF WriteMarvin
    <3>2. ASSUME NEW m \in Marvins, BeginPatch(p, m) PROVE RowSound' /\ CopiesSound'
      BY <2>6, <2>7, <3>2, Zenon DEF BeginPatch
    <3>3. ASSUME NEW d \in Descriptions \cup {Nothing}, SetConfigs(p, d)
          PROVE  RowSound' /\ CopiesSound'
      BY <2>6, <2>7, <3>3, Zenon DEF SetConfigs
    <3>4. QED
      BY <2>18, <3>1, <3>2, <3>3
  <2>19. ASSUME NEW h \in Handlers, NEW m \in Marvins, IgnoreMarvin(h, m)
         PROVE  RowSound' /\ CopiesSound'
    BY <2>1, <2>19, SoundAside DEF IgnoreMarvin
  <2>9. ASSUME NEW p \in Processes, NEW l, capability # Nothing, UNCHANGED capability,
               Hold(p, capability), Proceed(p, l)
        PROVE  RowSound' /\ CopiesSound'
    <3>1. capability \in Capability
      BY <2>9 DEF CatalogTyped
    <3>2. \A q \in Processes :
            \/ pc'[q] = pc[q] /\ copy'[q] = copy[q]
            \/ copy'[q] = capability
      BY <2>9 DEF Proceed, Hold, CatalogTyped
    <3>3. QED
      BY <2>1, <2>9, <3>1, <3>2, SoundAside
  <2>10. ASSUME NEW t \in Tasks, RunTriggered(t) \/ Poll(t) \/ Regenerate(t)
         PROVE  RowSound' /\ CopiesSound'
    BY <2>9, <2>10 DEF RunTriggered, Poll, Regenerate, Load, Processes
  <2>11. ASSUME NEW t \in Tasks, SaveEmbedding(t)
         PROVE  RowSound' /\ CopiesSound'
    BY <2>1, <2>11, SoundEmbedding
  <2>12. ASSUME NEW t \in Tasks, EmbeddingFails(t)
         PROVE  RowSound' /\ CopiesSound'
    BY <2>6, <2>7, <2>12, Zenon DEF EmbeddingFails
  <2>13. ASSUME NEW o \in Editors, BeginEdit(o)
         PROVE  RowSound' /\ CopiesSound'
    BY <2>9, <2>13 DEF BeginEdit, Processes
  <2>14. ASSUME NEW o \in Editors, NEW d \in Descriptions, NEW on \in BOOLEAN, EndEdit(o, d, on)
         PROVE  RowSound' /\ CopiesSound'
    BY <2>1, <2>14, SoundEdit
  <2>15. CASE BumpVersion
    BY <2>1, <2>15, SoundBump
  <2>16. CASE Crash
    <3>1. /\ UNCHANGED capability
          /\ \A p \in Processes : pc'[p] \in Holds => pc'[p] = pc[p] /\ copy'[p] = copy[p]
      BY <2>7, <2>16 DEF Crash
    <3>2. QED
      BY <2>1, <3>1, SoundAside
  <2>17. QED
    BY <1>2, <2>2, <2>3, <2>4, <2>5, <2>8, <2>10, <2>11, <2>12, <2>13, <2>14, <2>15, <2>16,
       <2>18, <2>19 DEF CatalogNext, Registering
<1>3. QED
  BY <1>1, <1>2

LEMMA SoundInvariant == CatalogSpec => [](CatalogTyped /\ Sound)
<1>1. CatalogInit => CatalogTyped /\ Sound
  BY CatalogTypeInit, SoundInit
<1>2. CatalogTyped /\ Sound /\ [CatalogNext]_catalogVars => (CatalogTyped /\ Sound)'
  BY CatalogTypeStep, SoundStep
<1>3. QED
  BY <1>1, <1>2, PTL DEF CatalogSpec

\* As long as no save takes the row back, the vector search compares with an embedding
\* of the capability's present description, whatever copies of the row are saved late.
THEOREM SearchCurrent == CatalogSpec => []SearchedIsCurrent
<1>1. Sound => SearchedIsCurrent
  BY DEF Sound, RowSound, Consistent, SearchedIsCurrent, Searched
<1>2. QED
  BY <1>1, SoundInvariant, PTL

-----------------------------------------------------------------------------
(* CapabilityCatalog: no change is missed. *)

\* The row is searched with an embedding of its description.
Embedded == Searched /\ capability.embedding = capability.description

\* The save of an embedding that takes no version back has embedded the row as it is.
LEMMA EmbeddingSettles ==
  ASSUME CatalogTyped, RowSound, CopiesSound, ~Reverts, NEW t \in Tasks, SaveEmbedding(t)
  PROVE  Embedded'
<1> DEFINE c == copy[t]
           e == [c EXCEPT !.embedding = c.document, !.embedded = c.version]
           r == Rebuilt(e)
<1>1. /\ c \in Capability /\ capability \in Capability
      /\ Consistent(c) /\ NoLater(c, capability) /\ Consistent(capability)
  BY NothingAssumption
     DEF SaveEmbedding, Holds, CatalogTyped, HoldersTyped, CopiesSound, RowSound, Processes
<1>2. SaveColumns({"embedding", "embedded"}, r)
  BY Zenon DEF SaveEmbedding
<1>3. /\ e \in Capability /\ e.document = c.document /\ e.version = c.version
      /\ e.embedding = c.document /\ e.embedded = c.version /\ e.description = c.description
  BY <1>1 DEF Capability
<1> HIDE DEF e
<1>4. /\ r \in Capability /\ r.document = c.document /\ r.version = c.version
      /\ r.embedding = c.document /\ r.embedded = c.version
      /\ r.needs <=> r.version > e.embedded
  BY <1>1, <1>3, Columns, Whole DEF Consistent
<1> HIDE DEF r
<1>5. /\ capability' \in Capability /\ capability'.version = r.version
      /\ capability'.needs = r.needs /\ capability'.description = capability.description
      /\ capability'.embedding = r.embedding
  BY <1>1, <1>2, <1>4, Saved
<1>6. c.version = capability.version
  BY <1>1, <1>4, <1>5, NothingAssumption DEF Reverts, NoLater, Capability
<1>7. capability'.embedding = capability'.description
  BY <1>1, <1>4, <1>5, <1>6 DEF Consistent, NoLater
<1>8. ~capability'.needs
  BY <1>1, <1>3, <1>4, <1>5 DEF Capability
<1>9. capability' # Nothing /\ capability'.description # Nothing
  BY <1>5, NothingAssumption DEF Capability
<1>10. QED
  BY <1>7, <1>8, <1>9 DEF Embedded, Searched

\* _find_re_embedding_ids, _save_embedding: as long as no save takes the row back, a
\* capability that is not searched with an embedding of its present description is one
\* the poll finds, whatever changed it, crashed or failed; and one embedding that is
\* saved without taking it back is enough, as it is of the row as it is then.
THEOREM ChangesFound ==
  CatalogSpec => /\ [](~reverted => capability = Nothing \/ Stale \/ Embedded)
                 /\ [][\A t \in Tasks : SaveEmbedding(t) /\ ~reverted' => Embedded']_catalogVars
<1>1. Sound => (~reverted => capability = Nothing \/ Stale \/ Embedded)
  BY DEF Sound, RowSound, Consistent, Stale, Embedded, Searched
<1>2. CatalogTyped /\ Sound /\ [CatalogNext]_catalogVars =>
        [\A t \in Tasks : SaveEmbedding(t) /\ ~reverted' => Embedded']_catalogVars
  <2> SUFFICES ASSUME CatalogTyped, Sound, CatalogNext, NEW t \in Tasks, SaveEmbedding(t), ~reverted'
               PROVE  Embedded'
    OBVIOUS
  <2>1. reverted' = (reverted \/ Reverts)
    BY Zenon DEF CatalogNext
  <2>2. ~Reverts /\ RowSound /\ CopiesSound
    BY <2>1, Zenon DEF Sound
  <2>3. QED
    BY <2>2, EmbeddingSettles
<1>3. QED
  BY <1>1, <1>2, SoundInvariant, PTL DEF CatalogSpec

=============================================================================
