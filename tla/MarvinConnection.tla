-------------------------- MODULE MarvinConnection --------------------------
(***************************************************************************)
(* One Marvin and the gRPC server: the Connect handlers of its successive  *)
(* connections, the stream the server keeps for it (self.marvins), the     *)
(* commands activities send over that stream, and Marvin.status, which the *)
(* handlers, the sweep of silent Marvins and the start of the server write.*)
(*                                                                         *)
(* The Marvin dials again when its connection breaks, and the handler of   *)
(* the broken one may not have noticed: two handlers serve the same Marvin *)
(* for a while.  A handler is sequential and can be overtaken at any await.*)
(***************************************************************************)
EXTENDS Integers, Sequences

CONSTANTS
  Connections,  \* the connections the Marvin makes
  Commands,     \* the commands activities send to it
  NoStream,     \* no entry in self.marvins
  MaxCrashes    \* bound on crashes of the server process

ASSUME ConnectionAssumption == NoStream \notin Connections /\ MaxCrashes \in Nat

VARIABLES
  server,     \* "up" or "down"
  wire,       \* the transport of each connection: "none", "up", "down"
  handler,    \* where the Connect handler of each connection stands
  current,    \* self.marvins[agent_id]
  status,     \* Marvin.status
  stale,      \* Marvin.last_seen is more than STALE_THRESHOLD_SECONDS ago
  queue,      \* command_queue of each connection's stream
  command,    \* what the caller of send_command has: "idle", "waiting", ...
  via,        \* the stream a command was sent over; its future is there
  received,   \* the commands that reached the Marvin
  replies,    \* the results on their way, per connection
  unread,     \* the connections that broke with a heartbeat in their message_queue
  crashes,    \* crashes so far
  installed   \* history: the last connection whose stream was put in self.marvins

commandVars == <<queue, command, via, received, replies>>
rowVars == <<status, stale>>
vars == <<server, wire, handler, current, status, stale, queue, command, via, received,
          replies, unread, crashes, installed>>

-----------------------------------------------------------------------------

\* Connect, from the awaits of a registration to those of its finally clause.
Places ==
  {"none", "open", "validating", "registering", "serving", "leaving", "popped", "done"}

\* The places of a handler that has put its stream in the map and not looked at
\* the map again.
Installed == {"registering", "serving", "leaving"}

\* The Marvin has a working connection, and sends a heartbeat every 10 s over it.
Connected(c) == wire[c] = "up" /\ handler[c] = "serving"

Goto(c, p) == handler' = [handler EXCEPT ![c] = p]
WriteStatus(s) == status' = s /\ stale' = FALSE

Init ==
  /\ server = "up"
  /\ wire = [c \in Connections |-> "none"]
  /\ handler = [c \in Connections |-> "none"]
  /\ current = NoStream
  /\ status = "offline"
  /\ stale = FALSE
  /\ queue = [c \in Connections |-> <<>>]
  /\ command = [k \in Commands |-> "idle"]
  /\ via = [k \in Commands |-> NoStream]
  /\ received = {}
  /\ replies = [c \in Connections |-> {}]
  /\ unread = {}
  /\ crashes = 0
  /\ installed = NoStream

-----------------------------------------------------------------------------
(* The Marvin and the network. *)

\* It keeps one connection at a time.
Dial(c) ==
  /\ server = "up"
  /\ wire[c] = "none" /\ \A d \in Connections : wire[d] # "up"
  /\ wire' = [wire EXCEPT ![c] = "up"]
  /\ Goto(c, "open")
  /\ UNCHANGED <<server, current, rowVars, commandVars, unread, crashes, installed>>

\* The handler may not have read its last heartbeat yet.
Break(c) ==
  /\ wire[c] = "up"
  /\ wire' = [wire EXCEPT ![c] = "down"]
  /\ unread' \in IF handler[c] = "serving" THEN {unread, unread \cup {c}} ELSE {unread}
  /\ UNCHANGED <<server, handler, current, rowVars, commandVars, crashes, installed>>

\* The Marvin answers a command over the connection it has now.
Reply(k, c) ==
  /\ wire[c] = "up"
  /\ k \in received
  /\ received' = received \ {k}
  /\ replies' = [replies EXCEPT ![c] = @ \cup {k}]
  /\ UNCHANGED <<server, wire, handler, current, rowVars, queue, command, via, unread, crashes,
                 installed>>

-----------------------------------------------------------------------------
(* MarvinServicer.Connect *)

\* A register message; the key is validated against the database, and a Marvin
\* with a bad key is turned away.
Register(c) ==
  /\ handler[c] = "open" /\ wire[c] = "up"
  /\ Goto(c, "validating")
  /\ UNCHANGED <<server, wire, current, rowVars, commandVars, unread, crashes, installed>>

\* A new MarvinStream takes the place of any other, with an empty queue.
Install(c) ==
  /\ handler[c] = "validating"
  /\ \/ Goto(c, "registering") /\ current' = c /\ installed' = c
     \/ Goto(c, "done") /\ UNCHANGED <<current, installed>>
  /\ UNCHANGED <<server, wire, rowVars, commandVars, unread, crashes>>

\* _update_marvin_registration
FinishRegistration(c) ==
  /\ handler[c] = "registering"
  /\ WriteStatus("online")
  /\ Goto(c, "serving")
  /\ UNCHANGED <<server, wire, current, commandVars, unread, crashes, installed>>

\* Mutant: a heartbeat is only acknowledged.
Heartbeat_AckOnly(c) ==
  /\ Connected(c)
  /\ stale' = FALSE
  /\ UNCHANGED <<server, wire, handler, current, status, commandVars, unread, crashes, installed>>

Heartbeat(c) ==
  /\ Connected(c)
  /\ WriteStatus("online")
  /\ UNCHANGED <<server, wire, handler, current, commandVars, unread, crashes, installed>>

LateHeartbeat(c) ==
  /\ handler[c] = "serving" /\ c \in unread
  /\ WriteStatus("online")
  /\ unread' = unread \ {c}
  /\ UNCHANGED <<server, wire, handler, current, commandVars, crashes, installed>>

\* A command is taken off the queue and yielded; a broken wire swallows it.
SendPending(c) ==
  /\ handler[c] = "serving" /\ queue[c] # <<>>
  /\ queue' = [queue EXCEPT ![c] = Tail(@)]
  /\ received' = IF wire[c] = "up" THEN received \cup {Head(queue[c])} ELSE received
  /\ UNCHANGED <<server, wire, handler, current, rowVars, command, via, replies, unread, crashes,
                 installed>>

\* handle_response: a result resolves a future of the handler's own stream only.
HandleResult(k, c) ==
  /\ handler[c] = "serving" /\ k \in replies[c]
  /\ replies' = [replies EXCEPT ![c] = @ \ {k}]
  /\ command' = [command EXCEPT ![k] =
                   IF @ = "waiting" /\ via[k] = c THEN "answered" ELSE @]
  /\ UNCHANGED <<server, wire, handler, current, rowVars, queue, via, received, unread, crashes,
                 installed>>

\* The request iterator ends or raises, at once or once keepalive notices,
\* with messages unread or not.
Leave(c) ==
  /\ wire[c] = "down"
  /\ handler[c] \in {"open", "validating", "registering", "serving"}
  /\ Goto(c, IF handler[c] \in Installed THEN "leaving" ELSE "done")
  /\ unread' = unread \ {c}
  /\ UNCHANGED <<server, wire, current, rowVars, commandVars, crashes, installed>>

\* Mutant: whatever stream is current is removed.
Pop_Always(c) ==
  /\ handler[c] = "leaving"
  /\ current' = NoStream
  /\ Goto(c, "popped")
  /\ UNCHANGED <<server, wire, rowVars, commandVars, unread, crashes, installed>>

\* The finally clause: only the handler's own stream is removed ...
Pop(c) ==
  /\ handler[c] = "leaving"
  /\ current' = IF current = c THEN NoStream ELSE current
  /\ Goto(c, "popped")
  /\ UNCHANGED <<server, wire, rowVars, commandVars, unread, crashes, installed>>

\* ... and the Marvin is marked offline, reconnected or not.
MarkOffline(c) ==
  /\ handler[c] = "popped"
  /\ WriteStatus("offline")
  /\ Goto(c, "done")
  /\ UNCHANGED <<server, wire, current, commandVars, unread, crashes, installed>>

-----------------------------------------------------------------------------
(* execute_capability and MarvinStream.send_command *)

SendCommand(k) ==
  /\ server = "up" /\ command[k] = "idle"
  /\ IF current = NoStream
     THEN command' = [command EXCEPT ![k] = "refused"] /\ UNCHANGED <<queue, via>>
     ELSE /\ command' = [command EXCEPT ![k] = "waiting"]
          /\ via' = [via EXCEPT ![k] = current]
          /\ queue' = [queue EXCEPT ![current] = Append(@, k)]
  /\ UNCHANGED <<server, wire, handler, current, rowVars, received, replies, unread, crashes,
                 installed>>

\* Mutant: a command waits for its stream for ever.
CommandTimesOut_WhileServed(k) ==
  /\ command[k] = "waiting" /\ handler[via[k]] = "serving"
  /\ command' = [command EXCEPT ![k] = "timed_out"]
  /\ UNCHANGED <<server, wire, handler, current, rowVars, queue, via, received, replies,
                 unread, crashes, installed>>

\* 300 s; the future is dropped, and the command stays in its queue.
CommandTimesOut(k) ==
  /\ command[k] = "waiting"
  /\ command' = [command EXCEPT ![k] = "timed_out"]
  /\ UNCHANGED <<server, wire, handler, current, rowVars, queue, via, received, replies,
                 unread, crashes, installed>>

-----------------------------------------------------------------------------
(* The sweep, and the life of the server process. *)

\* Time passes and nobody writes last_seen.
Age ==
  /\ ~ stale
  /\ \A c \in Connections : ~ Connected(c)
  /\ stale' = TRUE
  /\ UNCHANGED <<server, wire, handler, current, status, commandVars, unread, crashes, installed>>

\* Mutant: the sweep looks only at Marvins that have no stream.
MarkStaleOffline_NoStream ==
  /\ server = "up" /\ status = "online" /\ stale /\ current = NoStream
  /\ status' = "offline"
  /\ UNCHANGED <<server, wire, handler, current, stale, commandVars, unread, crashes, installed>>

\* _mark_stale_offline, every 30 s.
MarkStaleOffline ==
  /\ server = "up" /\ status = "online" /\ stale
  /\ status' = "offline"
  /\ UNCHANGED <<server, wire, handler, current, stale, commandVars, unread, crashes, installed>>

\* Handlers, streams, queues and waiting callers die; no finally clause runs.
ServerCrash ==
  /\ server = "up" /\ crashes < MaxCrashes
  /\ crashes' = crashes + 1
  /\ server' = "down"
  /\ wire' = [c \in Connections |-> IF wire[c] = "up" THEN "down" ELSE wire[c]]
  /\ handler' = [c \in Connections |-> IF handler[c] = "none" THEN "none" ELSE "done"]
  /\ current' = NoStream
  /\ queue' = [c \in Connections |-> <<>>]
  /\ command' = [k \in Commands |-> IF command[k] = "waiting" THEN "lost" ELSE command[k]]
  /\ replies' = [c \in Connections |-> {}]
  /\ unread' = {}
  /\ UNCHANGED <<rowVars, via, received, installed>>

\* _mark_all_online_offline, before anything is served.
ServerStart ==
  /\ server = "down"
  /\ server' = "up"
  /\ status' = "offline"
  /\ UNCHANGED <<wire, handler, current, stale, commandVars, unread, crashes, installed>>

-----------------------------------------------------------------------------

\* What the handler of c does by itself once a message or a broken wire is there.
Serve(c) ==
  \/ Install(c) \/ FinishRegistration(c) \/ SendPending(c)
  \/ \E k \in Commands : HandleResult(k, c)
  \/ Pop(c) \/ MarkOffline(c)

Next ==
  \/ \E c \in Connections : Dial(c) \/ Break(c) \/ Register(c) \/ Heartbeat(c)
                            \/ LateHeartbeat(c) \/ Leave(c) \/ Serve(c)
  \/ \E k \in Commands, c \in Connections : Reply(k, c)
  \/ \E k \in Commands : SendCommand(k) \/ CommandTimesOut(k)
  \/ Age \/ MarkStaleOffline
  \/ ServerCrash \/ ServerStart

Spec == Init /\ [][Next]_vars

\* Handlers run, timers expire, a connected Marvin sends its heartbeats, and the
\* server is started again.  Nothing makes the Marvin dial, register or answer, and
\* no handler is bound to notice that its wire broke.
Fairness ==
  /\ \A c \in Connections : WF_vars(Serve(c)) /\ WF_vars(Heartbeat(c))
  /\ \A k \in Commands : WF_vars(CommandTimesOut(k))
  /\ WF_vars(Age) /\ WF_vars(MarkStaleOffline) /\ WF_vars(ServerStart)

FairSpec == Spec /\ Fairness

-----------------------------------------------------------------------------
(* Properties. *)

TypeOK ==
  /\ server \in {"up", "down"}
  /\ wire \in [Connections -> {"none", "up", "down"}]
  /\ handler \in [Connections -> Places]
  /\ current \in Connections \cup {NoStream}
  /\ status \in {"online", "offline"}
  /\ stale \in BOOLEAN
  /\ queue \in [Connections -> Seq(Commands)]
  /\ command \in [Commands -> {"idle", "waiting", "answered", "timed_out", "refused", "lost"}]
  /\ via \in [Commands -> Connections \cup {NoStream}]
  /\ \A k \in Commands : command[k] \notin {"idle", "refused"} => via[k] \in Connections
  /\ received \subseteq Commands
  /\ replies \in [Connections -> SUBSET Commands]
  /\ unread \subseteq Connections
  /\ crashes \in 0 .. MaxCrashes
  /\ installed \in Connections \cup {NoStream}

\* The server's map is exact: it holds the stream installed last for as long as
\* its handler has not left, and never one whose handler is gone.  (An old handler's
\* finally clause can run at any moment of a reconnection.)
MapExact ==
  \A c \in Connections : current = c <=> (installed = c /\ handler[c] \in Installed)

\* Every command ends, with an answer or a timeout, even one that was queued on
\* the stream of a connection that is gone.
CommandsSettle == \A k \in Commands : command[k] = "waiting" ~> command[k] # "waiting"

\* A Marvin that stays connected is online in the end, although the handler of its
\* last connection marks it offline after it has registered again.
OnlineAgain ==
  \A c \in Connections : <>[]Connected(c) => <>[](status = "online")

\* A Marvin that stays away is offline in the end, although no handler may notice
\* that its wire broke and a crash skips the finally clauses.
OfflineAgain ==
  <>[](\A c \in Connections : ~ Connected(c) /\ handler[c] # "registering")
    => <>[](status = "offline")

=============================================================================
