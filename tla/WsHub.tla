------------------------------- MODULE WsHub -------------------------------
(***************************************************************************)
(* The WebSocket hub of web/websocket/hub.go and the two pumps that        *)
(* web/service/websocket.go runs for each connection.                      *)
(*                                                                         *)
(* One goroutine, the hub, owns the registry; everything else reaches it   *)
(* through two bounded channels.  A message is one of Messages; what it    *)
(* says, its size and the 250 ms throttle of some types (a broadcast that  *)
(* the throttle drops does nothing) are left out.                          *)
(***************************************************************************)
EXTENDS Naturals, Sequences

CONSTANTS Conns,           (* WebSocket connections                        *)
          Messages,
          OpsCap,          (* hubOpsQueue                                  *)
          QueueCap,        (* hubBroadcastQueue                            *)
          SendCap,         (* clientSendQueue                              *)
          RestartAttempts, (* hubRestartAttempts                           *)
          MaxPanics        (* bound: panics in the hub's event loop        *)

ASSUME CapacityAssumption ==
  /\ OpsCap \in Nat \ {0} /\ QueueCap \in Nat \ {0} /\ SendCap \in Nat \ {0}
  /\ RestartAttempts \in Nat \ {0} /\ MaxPanics \in Nat

VARIABLES
  hub,       (* the goroutine of Run: in the loop, in the backoff, or over *)
  attempt,   (* its loop variable                                          *)
  cancelled, (* h.ctx is done                                              *)
  clients,   (* the registry                                               *)
  ops,       (* the channel of registrations and unregistrations           *)
  broadcast, (* the channel of messages                                    *)
  send,      (* send[c]: what is in c's Send channel                       *)
  closed,    (* closed[c]: that channel has been closed                    *)
  reader,    (* HandleConnection up to Register, then readPump             *)
  writer,    (* writePump                                                  *)
  open,      (* open[c]: the connection itself                             *)
  due        (* history: fanned out since c is registered and not taken    *)

hubVars == <<hub, attempt, cancelled>>
feedVars == <<send, closed, due>>
connVars == <<reader, writer, open>>
vars == <<hubVars, clients, ops, broadcast, feedVars, connVars>>

Op(kind, c) == [kind |-> kind, conn |-> c]

Init ==
  /\ hub = "loop" /\ attempt = 0 /\ cancelled = FALSE
  /\ clients = {} /\ ops = <<>> /\ broadcast = <<>>
  /\ send = [c \in Conns |-> <<>>]
  /\ closed = [c \in Conns |-> FALSE]
  /\ due = [c \in Conns |-> <<>>]
  /\ reader = [c \in Conns |-> "none"]
  /\ writer = [c \in Conns |-> "none"]
  /\ open = [c \in Conns |-> TRUE]

----------------------------------------------------------------------------
(* A connection: HandleConnection, readPump, writePump *)

(* The controller hands over an upgraded connection. *)
HandleConnection(c) ==
  /\ reader[c] = "none"
  /\ reader' = [reader EXCEPT ![c] = "register"]
  /\ UNCHANGED <<hubVars, clients, ops, broadcast, feedVars, writer, open>>

StartPumps(c) ==
  /\ reader' = [reader EXCEPT ![c] = "reading"]
  /\ writer' = [writer EXCEPT ![c] = "writing"]
  /\ UNCHANGED open

(* Register waits for room in ops or for the end of the hub's context, and *)
(* cannot tell the caller which of them it was.                            *)
Register(c) ==
  /\ reader[c] = "register"
  /\ \/ Len(ops) < OpsCap /\ ops' = Append(ops, Op("register", c))
     \/ cancelled /\ UNCHANGED ops
  /\ StartPumps(c)
  /\ UNCHANGED <<hubVars, clients, broadcast, feedVars>>

(* ReadMessage fails: the browser went away, the pong deadline passed, or  *)
(* writePump closed the connection.                                        *)
ReadError(c) ==
  /\ reader[c] = "reading"
  /\ reader' = [reader EXCEPT ![c] = "unregister"]
  /\ UNCHANGED <<hubVars, clients, ops, broadcast, feedVars, writer, open>>

(* Unregister gives up after 100 ms on a full ops channel. *)
Unregister(c) ==
  /\ reader[c] = "unregister"
  /\ \/ Len(ops) < OpsCap /\ ops' = Append(ops, Op("unregister", c))
     \/ Len(ops) = OpsCap /\ UNCHANGED ops
     \/ cancelled /\ UNCHANGED ops
  /\ reader' = [reader EXCEPT ![c] = "done"]
  /\ open' = [open EXCEPT ![c] = FALSE]
  /\ UNCHANGED <<hubVars, clients, broadcast, feedVars, writer>>

EndWriter(c) ==
  /\ writer' = [writer EXCEPT ![c] = "done"]
  /\ open' = [open EXCEPT ![c] = FALSE]

(* writePump takes a message and writes it, or fails to. *)
WriteMessage(c) ==
  /\ writer[c] = "writing"
  /\ send[c] # <<>>
  /\ send' = [send EXCEPT ![c] = Tail(@)]
  /\ due' = [due EXCEPT ![c] = IF @ = <<>> THEN @ ELSE Tail(@)]
  /\ \/ open[c] /\ UNCHANGED <<writer, open>>
     \/ EndWriter(c)
  /\ UNCHANGED <<hubVars, clients, ops, broadcast, closed, reader>>

(* Faulty variant: the pump goes round again on a closed channel. *)
WriteCloseIgnored(c) ==
  /\ writer[c] = "writing"
  /\ closed[c] /\ send[c] = <<>>
  /\ UNCHANGED vars

(* Send was closed and is empty: the close frame, and the end. *)
WriteClose(c) ==
  /\ writer[c] = "writing"
  /\ closed[c] /\ send[c] = <<>>
  /\ EndWriter(c)
  /\ UNCHANGED <<hubVars, clients, ops, broadcast, feedVars, reader>>

(* The keepalive ping fails, as it must on a closed connection. *)
PingError(c) ==
  /\ writer[c] = "writing"
  /\ EndWriter(c)
  /\ UNCHANGED <<hubVars, clients, ops, broadcast, feedVars, reader>>

----------------------------------------------------------------------------
(* The hub *)

(* Registering: fan-outs from here on are c's. *)
AddClient(c) ==
  /\ clients' = clients \cup {c}
  /\ due' = [due EXCEPT ![c] = send[c]]
  /\ UNCHANGED <<send, closed>>

(* Faulty variant: the channel is closed and the entry stays. *)
RemoveCloses(c) ==
  /\ closed' = [closed EXCEPT ![c] = TRUE]
  /\ UNCHANGED <<clients, send, due>>

(* removeClient *)
RemoveClient(c) ==
  /\ clients' = clients \ {c}
  /\ closed' = [closed EXCEPT ![c] = @ \/ c \in clients]
  /\ UNCHANGED <<send, due>>

HubOp ==
  /\ hub = "loop"
  /\ ops # <<>>
  /\ ops' = Tail(ops)
  /\ IF Head(ops).kind = "register" THEN AddClient(Head(ops).conn)
                                    ELSE RemoveClient(Head(ops).conn)
  /\ UNCHANGED <<hubVars, broadcast, connVars>>

Slow == {c \in clients : Len(send[c]) = SendCap}

(* Faulty variant: a slow client just misses the message. *)
FanoutSkipsSlow ==
  /\ hub = "loop"
  /\ broadcast # <<>>
  /\ broadcast' = Tail(broadcast)
  /\ send' = [c \in Conns |-> IF c \in clients \ Slow THEN Append(send[c], Head(broadcast)) ELSE send[c]]
  /\ due' = [c \in Conns |-> IF c \in clients THEN Append(due[c], Head(broadcast)) ELSE due[c]]
  /\ UNCHANGED <<hubVars, clients, closed, ops, connVars>>

(* Faulty variant: a slow client is left alone, and what it missed is     *)
(* forgotten.                                                              *)
FanoutKeepsSlow ==
  /\ hub = "loop"
  /\ broadcast # <<>>
  /\ broadcast' = Tail(broadcast)
  /\ send' = [c \in Conns |-> IF c \in clients \ Slow THEN Append(send[c], Head(broadcast)) ELSE send[c]]
  /\ due' = send'
  /\ UNCHANGED <<hubVars, clients, closed, ops, connVars>>

(* Faulty variant: slow clients are unregistered through ops, by the only  *)
(* goroutine that ever takes anything out of ops.                          *)
FanoutThroughOps ==
  /\ hub = "loop"
  /\ broadcast # <<>>
  /\ broadcast' = Tail(broadcast)
  /\ send' = [c \in Conns |-> IF c \in clients \ Slow THEN Append(send[c], Head(broadcast)) ELSE send[c]]
  /\ due' = send'
  /\ IF Slow # {} /\ Len(ops) = OpsCap
     THEN hub' = "blocked" /\ UNCHANGED ops
     ELSE hub' = hub /\ ops' = IF Slow = {} THEN ops ELSE Append(ops, Op("unregister", CHOOSE c \in Slow : TRUE))
  /\ UNCHANGED <<attempt, cancelled, clients, closed, connVars>>

(* fanout: every client with room gets the message, the others are removed *)
(* and their channels closed.                                              *)
HubFanout ==
  /\ hub = "loop"
  /\ broadcast # <<>>
  /\ broadcast' = Tail(broadcast)
  /\ send' = [c \in Conns |-> IF c \in clients \ Slow THEN Append(send[c], Head(broadcast)) ELSE send[c]]
  /\ due' = [c \in Conns |-> IF c \in clients THEN Append(due[c], Head(broadcast)) ELSE due[c]]
  /\ clients' = clients \ Slow
  /\ closed' = [c \in Conns |-> closed[c] \/ c \in Slow]
  /\ UNCHANGED <<hubVars, ops, connVars>>

(* shutdown *)
HubShutdown ==
  /\ hub = "loop"
  /\ cancelled
  /\ hub' = "over"
  /\ closed' = [c \in Conns |-> closed[c] \/ c \in clients]
  /\ clients' = {}
  /\ UNCHANGED <<attempt, cancelled, ops, broadcast, send, due, connVars>>

(* The loop panics over the operation or message it has just taken. *)
HubPanic ==
  /\ hub = "loop"
  /\ attempt < MaxPanics
  /\ \/ ops # <<>> /\ ops' = Tail(ops) /\ UNCHANGED broadcast
     \/ broadcast # <<>> /\ broadcast' = Tail(broadcast) /\ UNCHANGED ops
  /\ attempt' = attempt + 1
  /\ hub' = IF attempt < RestartAttempts - 1 THEN "backoff" ELSE "over"
  /\ UNCHANGED <<cancelled, clients, feedVars, connVars>>

HubRestart ==
  /\ hub = "backoff"
  /\ hub' = "loop"
  /\ UNCHANGED <<attempt, cancelled, clients, ops, broadcast, feedVars, connVars>>

HubBackoffCancelled ==
  /\ hub = "backoff"
  /\ cancelled
  /\ hub' = "over"
  /\ UNCHANGED <<attempt, cancelled, clients, ops, broadcast, feedVars, connVars>>

Stop ==
  /\ ~cancelled
  /\ cancelled' = TRUE
  /\ UNCHANGED <<hub, attempt, clients, ops, broadcast, feedVars, connVars>>

(* enqueue, from Broadcast and broadcastInvalidate; a message that waited  *)
(* 100 ms for room, or met the end of the context, is dropped.             *)
Enqueue(m) ==
  /\ Len(broadcast) < QueueCap
  /\ broadcast' = Append(broadcast, m)
  /\ UNCHANGED <<hubVars, clients, ops, feedVars, connVars>>

----------------------------------------------------------------------------
Hub == HubOp \/ HubFanout \/ HubShutdown \/ HubRestart \/ HubBackoffCancelled

Next == \/ \E c \in Conns : \/ HandleConnection(c) \/ Register(c) \/ ReadError(c) \/ Unregister(c)
                            \/ WriteMessage(c) \/ WriteClose(c) \/ PingError(c)
        \/ HubOp \/ HubFanout \/ HubShutdown \/ HubPanic \/ HubRestart \/ HubBackoffCancelled
        \/ Stop
        \/ \E m \in Messages : Enqueue(m)

Spec == Init /\ [][Next]_vars

(* The hub's select chooses among ready cases at random, so an operation   *)
(* that waits is served however many messages come; pumps run; a closed    *)
(* connection fails its next read and ping; jobs broadcast every few       *)
(* seconds as long as somebody is registered.                              *)
Fairness ==
  /\ SF_vars(HubOp) /\ SF_vars(HubFanout) /\ SF_vars(HubShutdown) /\ WF_vars(HubRestart)
  /\ \A c \in Conns : /\ SF_vars(Register(c))
                      /\ WF_vars(Unregister(c))
                      /\ WF_vars(~open[c] /\ ReadError(c))
                      /\ WF_vars(~open[c] /\ PingError(c))
                      /\ WF_vars(WriteMessage(c))
                      /\ WF_vars(WriteClose(c))
  /\ WF_vars(clients # {} /\ \E m \in Messages : Enqueue(m))

FairSpec == Spec /\ Fairness

----------------------------------------------------------------------------
TypeOK ==
  /\ hub \in {"loop", "backoff", "over"} /\ attempt \in 0 .. MaxPanics /\ cancelled \in BOOLEAN
  /\ clients \subseteq Conns
  /\ ops \in Seq([kind : {"register", "unregister"}, conn : Conns]) /\ Len(ops) <= OpsCap
  /\ broadcast \in Seq(Messages) /\ Len(broadcast) <= QueueCap
  /\ send \in [Conns -> Seq(Messages)] /\ \A c \in Conns : Len(send[c]) <= SendCap
  /\ closed \in [Conns -> BOOLEAN]
  /\ due \in [Conns -> Seq(Messages)]
  /\ reader \in [Conns -> {"none", "register", "reading", "unregister", "done"}]
  /\ writer \in [Conns -> {"none", "writing", "done"}]
  /\ open \in [Conns -> BOOLEAN]

RegisterAt(i, c) == i \in DOMAIN ops /\ ops[i] = Op("register", c)

(* The life of one connection: it registers once, its Send is closed only  *)
(* while it is registered, and nothing registers it again.                 *)
ConnInv(c) ==
  /\ reader[c] \in {"none", "register"} => /\ writer[c] = "none"
                                           /\ c \notin clients /\ ~closed[c]
                                           /\ \A i \in DOMAIN ops : ops[i].conn # c
  /\ \A i, j \in DOMAIN ops : RegisterAt(i, c) /\ RegisterAt(j, c) => i = j
  /\ (\E i \in DOMAIN ops : RegisterAt(i, c)) => c \notin clients /\ ~closed[c]
  /\ c \in clients => ~closed[c] /\ send[c] = due[c]

IInv == TypeOK /\ \A c \in Conns : ConnInv(c)

(* A registered client's Send channel is open: a fan-out never sends on a  *)
(* channel that an eviction, an unregistration or a shutdown has closed,   *)
(* in whatever order they come (trySend's recover is never needed).        *)
RegisteredIsOpen == \A c \in clients : ~closed[c]

(* A client never misses a message and gets a later one: from its          *)
(* registration on it has every fan-out in order, or is disconnected.      *)
NothingSkipped == \A c \in clients : send[c] = due[c]

(* A connection that has ended does not stay in the registry, though its   *)
(* unregistration may be dropped on a full channel, lost to a panic or     *)
(* find its registration still queued.  (A hub whose Run has returned from *)
(* a backoff keeps its registry.)                                          *)
NoLeakedClient ==
  \A c \in Conns : reader[c] = "done" ~> hub = "over" \/ [](c \notin clients)

(* Register returns, so the handler of the upgrade request does, unless    *)
(* the hub has given up after its panics and nobody has called Stop.       *)
RegisterReturns ==
  \A c \in Conns : reader[c] = "register" ~> reader[c] # "register" \/ (hub = "over" /\ ~cancelled)

(* When the hub evicts a client or shuts down, its connection is closed.   *)
ClosedSendEndsConnection == \A c \in Conns : closed[c] ~> writer[c] = "done" /\ ~open[c]
============================================================================
