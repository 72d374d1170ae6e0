---------------------------- MODULE WsHubProofs ----------------------------
(***************************************************************************)
(* What holds of WsHub for any number of connections, any messages and any *)
(* channel capacities.  The invariant IInv follows one connection through  *)
(* the ops channel (ConnInv): until its one registration has left the      *)
(* channel it is unknown to the hub, so its Send has never been closed,    *)
(* and from then on the registry entry and the open channel go together.   *)
(***************************************************************************)
EXTENDS WsHub, TLAPS

OpType == [kind : {"register", "unregister"}, conn : Conns]

(* What a send on the ops channel adds. *)
LEMMA OpAppended ==
  ASSUME IInv, NEW kind \in {"register", "unregister"}, NEW d \in Conns,
         Len(ops) < OpsCap, ops' = Append(ops, Op(kind, d))
  PROVE  /\ ops' \in Seq(OpType) /\ Len(ops') <= OpsCap
         /\ \A i \in DOMAIN ops' : \/ i \in DOMAIN ops /\ ops'[i] = ops[i]
                                   \/ i = Len(ops) + 1 /\ ops'[i] = Op(kind, d)
         /\ Len(ops) + 1 \notin DOMAIN ops
<1>1. ops \in Seq(OpType) /\ OpsCap \in Nat
  BY CapacityAssumption DEF IInv, TypeOK, OpType
<1>2. Op(kind, d) \in OpType
  BY DEF Op, OpType
<1> QED BY <1>1, <1>2

(* What a receive from the ops channel leaves: every operation one place on. *)
LEMMA OpTaken ==
  ASSUME IInv, ops # <<>>, ops' = Tail(ops)
  PROVE  /\ ops' \in Seq(OpType) /\ Len(ops') <= OpsCap
         /\ \A i \in DOMAIN ops' : i + 1 \in DOMAIN ops /\ ops'[i] = ops[i + 1] /\ i \in Nat \ {0}
         /\ 1 \in DOMAIN ops /\ Head(ops) = ops[1] /\ Head(ops) \in OpType
<1>1. ops \in Seq(OpType) /\ OpsCap \in Nat /\ Len(ops) <= OpsCap
  BY CapacityAssumption DEF IInv, TypeOK, OpType
<1> QED BY <1>1

(* A receive from a channel of messages. *)
LEMMA MessageTaken ==
  ASSUME NEW S, NEW s \in Seq(S)
  PROVE  s # <<>> => Tail(s) \in Seq(S) /\ Len(Tail(s)) < Len(s)
  OBVIOUS

(* A new connection waits to register. *)
LEMMA HandleConnectionPreserves ==
  ASSUME IInv, NEW d \in Conns, HandleConnection(d)
  PROVE  IInv'
<1>1. TypeOK'
  BY DEF IInv, TypeOK, HandleConnection, hubVars, feedVars
<1>2. ASSUME NEW c \in Conns PROVE ConnInv(c)'
  <2>1. ConnInv(c)
    BY DEF IInv
  <2> QED BY <2>1 DEF IInv, TypeOK, ConnInv, RegisterAt, HandleConnection, feedVars
<1> QED BY <1>1, <1>2 DEF IInv

(* The first operation of a connection enters the channel; it had none before. *)
LEMMA RegisterTyped ==
  ASSUME IInv, NEW d \in Conns, Register(d)
  PROVE  TypeOK'
<1>1. ops' \in Seq(OpType) /\ Len(ops') <= OpsCap
  <2>1. CASE UNCHANGED ops
    BY <2>1 DEF IInv, TypeOK, OpType
  <2>2. CASE Len(ops) < OpsCap /\ ops' = Append(ops, Op("register", d))
    BY <2>2, OpAppended
  <2> QED BY <2>1, <2>2 DEF Register
<1> QED BY <1>1 DEF IInv, TypeOK, Register, StartPumps, OpType, hubVars, feedVars

LEMMA RegisterConn ==
  ASSUME IInv, NEW d \in Conns, Register(d), NEW c \in Conns
  PROVE  ConnInv(c)'
<1>0. ConnInv(c) /\ ConnInv(d) /\ reader[d] = "register" /\ reader \in [Conns -> {"none", "register", "reading", "unregister", "done"}]
  BY DEF IInv, Register, TypeOK
<1>2. CASE Len(ops) < OpsCap /\ ops' = Append(ops, Op("register", d))
  <2>1. /\ \A i \in DOMAIN ops' : \/ i \in DOMAIN ops /\ ops'[i] = ops[i]
                                  \/ i = Len(ops) + 1 /\ ops'[i] = Op("register", d)
        /\ Len(ops) + 1 \notin DOMAIN ops
    BY <1>2, OpAppended
  <2>2. UNCHANGED <<clients, closed, send, due>> 
    BY DEF Register, feedVars
  <2>3. CASE c = d
    <3>1. reader'[c] = "reading" 
      BY <2>3, <1>0 DEF Register, StartPumps
    <3> QED BY <1>0, <2>1, <2>2, <2>3, <3>1 DEF ConnInv, RegisterAt, Op
  <2>4. CASE c # d
    <3>1. reader'[c] = reader[c] /\ writer'[c] = writer[c]
      BY <2>4 DEF Register, StartPumps, IInv, TypeOK
    <3> QED BY <1>0, <2>1, <2>2, <2>4, <3>1 DEF ConnInv, RegisterAt, Op
  <2> QED BY <2>3, <2>4
<1>1. CASE UNCHANGED ops
  BY <1>0, <1>1 DEF ConnInv, RegisterAt, Register, StartPumps, feedVars, IInv, TypeOK
<1> QED BY <1>1, <1>2 DEF Register

LEMMA RegisterPreserves ==
  ASSUME IInv, NEW d \in Conns, Register(d)
  PROVE  IInv'
BY RegisterTyped, RegisterConn DEF IInv

(* The reader ends; nothing the hub knows changes. *)
LEMMA ReadErrorPreserves ==
  ASSUME IInv, NEW d \in Conns, ReadError(d)
  PROVE  IInv'
<1>1. TypeOK'
  BY DEF IInv, TypeOK, ReadError, hubVars, feedVars
<1>2. ASSUME NEW c \in Conns PROVE ConnInv(c)'
  <2>1. ConnInv(c)
    BY DEF IInv
  <2> QED BY <2>1 DEF IInv, TypeOK, ConnInv, RegisterAt, ReadError, feedVars
<1> QED BY <1>1, <1>2 DEF IInv

(* An unregistration is no registration. *)
LEMMA UnregisterTyped ==
  ASSUME IInv, NEW d \in Conns, Unregister(d)
  PROVE  TypeOK'
<1>1. ops' \in Seq(OpType) /\ Len(ops') <= OpsCap
  <2>1. CASE UNCHANGED ops
    BY <2>1 DEF IInv, TypeOK, OpType
  <2>2. CASE Len(ops) < OpsCap /\ ops' = Append(ops, Op("unregister", d))
    BY <2>2, OpAppended
  <2> QED BY <2>1, <2>2 DEF Unregister
<1> QED BY <1>1 DEF IInv, TypeOK, Unregister, OpType, hubVars, feedVars

LEMMA UnregisterConn ==
  ASSUME IInv, NEW d \in Conns, Unregister(d), NEW c \in Conns
  PROVE  ConnInv(c)'
<1>1. UNCHANGED <<clients, closed, send, due, writer>>
  BY DEF Unregister, feedVars
<1>2. /\ reader[d] = "unregister" /\ reader'[d] = "done"
      /\ c # d => reader'[c] = reader[c]
  BY DEF Unregister, IInv, TypeOK
<1>3. ConnInv(c)
  BY DEF IInv
<1>4. CASE UNCHANGED ops
  BY <1>1, <1>2, <1>3, <1>4 DEF ConnInv, RegisterAt
<1>5. CASE Len(ops) < OpsCap /\ ops' = Append(ops, Op("unregister", d))
  <2>1. \A i \in DOMAIN ops' : \/ i \in DOMAIN ops /\ ops'[i] = ops[i]
                               \/ i = Len(ops) + 1 /\ ops'[i] = Op("unregister", d)
    BY <1>5, OpAppended
  <2> QED BY <1>1, <1>2, <1>3, <2>1 DEF ConnInv, RegisterAt, Op
<1> QED BY <1>4, <1>5 DEF Unregister

LEMMA UnregisterPreserves ==
  ASSUME IInv, NEW d \in Conns, Unregister(d)
  PROVE  IInv'
BY UnregisterTyped, UnregisterConn DEF IInv

(* The pump takes the oldest message, which is also the oldest due. *)
LEMMA WriteMessageTyped ==
  ASSUME IInv, NEW d \in Conns, WriteMessage(d)
  PROVE  TypeOK'
<1>1. /\ send' \in [Conns -> Seq(Messages)] /\ due' \in [Conns -> Seq(Messages)]
      /\ \A c \in Conns : Len(send'[c]) <= SendCap
  BY CapacityAssumption, MessageTaken DEF IInv, TypeOK, WriteMessage
<1>2. writer' \in [Conns -> {"none", "writing", "done"}] /\ open' \in [Conns -> BOOLEAN]
  BY DEF IInv, TypeOK, WriteMessage, EndWriter
<1> QED BY <1>1, <1>2 DEF IInv, TypeOK, WriteMessage, hubVars

LEMMA WriteMessagePreserves ==
  ASSUME IInv, NEW d \in Conns, WriteMessage(d)
  PROVE  IInv'
<1>1. ASSUME NEW c \in Conns PROVE ConnInv(c)'
  <2>1. ConnInv(c)
    BY DEF IInv
  <2> QED BY <2>1 DEF IInv, TypeOK, ConnInv, RegisterAt, WriteMessage, EndWriter
<1> QED BY <1>1, WriteMessageTyped DEF IInv

(* The writer ends; nothing the hub knows changes. *)
LEMMA WriteClosePreserves ==
  ASSUME IInv, NEW d \in Conns, WriteClose(d)
  PROVE  IInv'
<1>1. TypeOK'
  BY DEF IInv, TypeOK, WriteClose, EndWriter, hubVars, feedVars
<1>2. ASSUME NEW c \in Conns PROVE ConnInv(c)'
  <2>1. ConnInv(c)
    BY DEF IInv
  <2> QED BY <2>1 DEF IInv, TypeOK, ConnInv, RegisterAt, WriteClose, EndWriter, feedVars
<1> QED BY <1>1, <1>2 DEF IInv

(* The writer ends; nothing the hub knows changes. *)
LEMMA PingErrorPreserves ==
  ASSUME IInv, NEW d \in Conns, PingError(d)
  PROVE  IInv'
<1>1. TypeOK'
  BY DEF IInv, TypeOK, PingError, EndWriter, hubVars, feedVars
<1>2. ASSUME NEW c \in Conns PROVE ConnInv(c)'
  <2>1. ConnInv(c)
    BY DEF IInv
  <2> QED BY <2>1 DEF IInv, TypeOK, ConnInv, RegisterAt, PingError, EndWriter, feedVars
<1> QED BY <1>1, <1>2 DEF IInv

(* A registration leaves the channel for the registry, or the entry goes and Send is closed. *)
LEMMA HubOpTyped ==
  ASSUME IInv, HubOp
  PROVE  TypeOK'
<1>1. ops' \in Seq(OpType) /\ Len(ops') <= OpsCap /\ Head(ops) \in OpType
  BY OpTaken DEF HubOp
<1>2. clients' \subseteq Conns /\ UNCHANGED send
  BY <1>1 DEF IInv, TypeOK, HubOp, AddClient, RemoveClient, OpType
<1>3. closed' \in [Conns -> BOOLEAN]
  BY DEF IInv, TypeOK, HubOp, AddClient, RemoveClient
<1>4. due' \in [Conns -> Seq(Messages)]
  BY DEF IInv, TypeOK, HubOp, AddClient, RemoveClient
<1> QED BY <1>1, <1>2, <1>3, <1>4 DEF IInv, TypeOK, OpType, HubOp, hubVars, connVars

LEMMA HubOpConn ==
  ASSUME IInv, HubOp, NEW c \in Conns
  PROVE  ConnInv(c)'
<1>1. /\ \A i \in DOMAIN ops' : i + 1 \in DOMAIN ops /\ ops'[i] = ops[i + 1] /\ i \in Nat \ {0}
      /\ 1 \in DOMAIN ops /\ Head(ops) = ops[1] /\ Head(ops) \in OpType
  BY OpTaken DEF HubOp
<1>2. ConnInv(c) /\ UNCHANGED <<reader, writer, send>>
  BY DEF IInv, HubOp, AddClient, RemoveClient, connVars
<1> DEFINE d == Head(ops).conn
<1>3. d \in Conns
  BY <1>1 DEF OpType
<1>4. CASE d # c
  <2>1. (c \in clients' <=> c \in clients) /\ closed'[c] = closed[c] /\ due'[c] = due[c]
    BY <1>3, <1>4 DEF IInv, TypeOK, HubOp, AddClient, RemoveClient
  <2> QED BY <1>1, <1>2, <2>1 DEF ConnInv, RegisterAt
<1>5. CASE d = c /\ Head(ops).kind = "register"
  <2>1. Head(ops) = Op("register", c)
    BY <1>1, <1>5 DEF OpType, Op
  <2>2. RegisterAt(1, c)
    BY <1>1, <2>1 DEF RegisterAt
  <2>3. \A i \in DOMAIN ops' : ~RegisterAt(i, c)'
    BY <1>1, <1>2, <2>2 DEF ConnInv, RegisterAt
  <2>4. clients' = clients \cup {c} /\ due'[c] = send[c] /\ closed' = closed
    BY <1>5 DEF IInv, TypeOK, HubOp, AddClient
  <2>5. ~closed[c]
    BY <1>1, <1>2, <2>2 DEF ConnInv
  <2>6. reader[c] \notin {"none", "register"}
    BY <1>1, <1>2, <1>5 DEF ConnInv
  <2> QED BY <1>2, <2>3, <2>4, <2>5, <2>6 DEF ConnInv
<1>6. CASE d = c /\ Head(ops).kind = "unregister"
  <2>1. c \notin clients' /\ (c \in clients \/ closed'[c] = closed[c])
    BY <1>6 DEF IInv, TypeOK, HubOp, RemoveClient
  <2>2. reader[c] \notin {"none", "register"}
    BY <1>1, <1>2, <1>6 DEF ConnInv
  <2> QED BY <1>1, <1>2, <2>1, <2>2 DEF ConnInv, RegisterAt
<1> QED BY <1>1, <1>4, <1>5, <1>6 DEF OpType

LEMMA HubOpPreserves ==
  ASSUME IInv, HubOp
  PROVE  IInv'
BY HubOpTyped, HubOpConn DEF IInv

(* A client with room gets the message it is due, a slow one leaves as its Send is closed. *)
LEMMA HubFanoutPreserves ==
  ASSUME IInv, HubFanout
  PROVE  IInv'
<1>1. TypeOK'
  BY CapacityAssumption DEF IInv, TypeOK, HubFanout, Slow, hubVars, connVars
<1>2. ASSUME NEW c \in Conns PROVE ConnInv(c)'
  <2>1. ConnInv(c)
    BY DEF IInv
  <2> QED BY <2>1, CapacityAssumption DEF IInv, TypeOK, ConnInv, RegisterAt, HubFanout, Slow, connVars
<1> QED BY <1>1, <1>2 DEF IInv

(* Everybody leaves and every Send is closed. *)
LEMMA HubShutdownPreserves ==
  ASSUME IInv, HubShutdown
  PROVE  IInv'
<1>1. TypeOK'
  BY DEF IInv, TypeOK, HubShutdown, connVars
<1>2. ASSUME NEW c \in Conns PROVE ConnInv(c)'
  <2>1. ConnInv(c)
    BY DEF IInv
  <2> QED BY <2>1 DEF IInv, TypeOK, ConnInv, RegisterAt, HubShutdown, connVars
<1> QED BY <1>1, <1>2 DEF IInv

(* The panic loses an operation or a message. *)
LEMMA HubPanicTyped ==
  ASSUME IInv, HubPanic
  PROVE  TypeOK'
<1>1. ops' \in Seq(OpType) /\ Len(ops') <= OpsCap
  BY OpTaken DEF HubPanic, IInv, TypeOK, OpType
<1>2. broadcast' \in Seq(Messages) /\ Len(broadcast') <= QueueCap
  <2>1. CASE UNCHANGED broadcast
    BY <2>1 DEF IInv, TypeOK
  <2>2. CASE broadcast # <<>> /\ broadcast' = Tail(broadcast)
    BY <2>2, CapacityAssumption, MessageTaken DEF IInv, TypeOK
  <2> QED BY <2>1, <2>2 DEF HubPanic
<1> QED BY <1>1, <1>2, CapacityAssumption DEF HubPanic, IInv, TypeOK, OpType, feedVars, connVars

LEMMA HubPanicConn ==
  ASSUME IInv, HubPanic, NEW c \in Conns
  PROVE  ConnInv(c)'
<1>1. ConnInv(c) /\ UNCHANGED <<reader, writer, clients, closed, send, due>>
  BY DEF IInv, HubPanic, feedVars, connVars
<1>2. CASE UNCHANGED ops
  BY <1>1, <1>2 DEF ConnInv, RegisterAt
<1>3. CASE ops # <<>> /\ ops' = Tail(ops)
  <2>1. \A i \in DOMAIN ops' : i + 1 \in DOMAIN ops /\ ops'[i] = ops[i + 1] /\ i \in Nat \ {0}
    BY <1>3, OpTaken
  <2> QED BY <1>1, <2>1 DEF ConnInv, RegisterAt
<1> QED BY <1>2, <1>3 DEF HubPanic

LEMMA HubPanicPreserves ==
  ASSUME IInv, HubPanic
  PROVE  IInv'
BY HubPanicTyped, HubPanicConn DEF IInv

(* Nothing a part speaks of changes. *)
LEMMA HubRestartPreserves ==
  ASSUME IInv, HubRestart
  PROVE  IInv'
<1>1. TypeOK'
  BY DEF IInv, TypeOK, HubRestart, connVars, feedVars
<1>2. ASSUME NEW c \in Conns PROVE ConnInv(c)'
  <2>1. ConnInv(c)
    BY DEF IInv
  <2> QED BY <2>1 DEF IInv, TypeOK, ConnInv, RegisterAt, HubRestart, connVars, feedVars
<1> QED BY <1>1, <1>2 DEF IInv

(* Nothing a part speaks of changes. *)
LEMMA HubBackoffCancelledPreserves ==
  ASSUME IInv, HubBackoffCancelled
  PROVE  IInv'
<1>1. TypeOK'
  BY DEF IInv, TypeOK, HubBackoffCancelled, connVars, feedVars
<1>2. ASSUME NEW c \in Conns PROVE ConnInv(c)'
  <2>1. ConnInv(c)
    BY DEF IInv
  <2> QED BY <2>1 DEF IInv, TypeOK, ConnInv, RegisterAt, HubBackoffCancelled, connVars, feedVars
<1> QED BY <1>1, <1>2 DEF IInv

(* Nothing a part speaks of changes. *)
LEMMA StopPreserves ==
  ASSUME IInv, Stop
  PROVE  IInv'
<1>1. TypeOK'
  BY DEF IInv, TypeOK, Stop, connVars, feedVars
<1>2. ASSUME NEW c \in Conns PROVE ConnInv(c)'
  <2>1. ConnInv(c)
    BY DEF IInv
  <2> QED BY <2>1 DEF IInv, TypeOK, ConnInv, RegisterAt, Stop, connVars, feedVars
<1> QED BY <1>1, <1>2 DEF IInv

(* A message waits for the hub. *)
LEMMA EnqueuePreserves ==
  ASSUME IInv, NEW m \in Messages, Enqueue(m)
  PROVE  IInv'
<1>1. TypeOK'
  BY CapacityAssumption DEF IInv, TypeOK, Enqueue, hubVars, feedVars, connVars
<1>2. ASSUME NEW c \in Conns PROVE ConnInv(c)'
  <2>1. ConnInv(c)
    BY DEF IInv
  <2> QED BY <2>1 DEF IInv, TypeOK, ConnInv, RegisterAt, Enqueue, feedVars, connVars
<1> QED BY <1>1, <1>2 DEF IInv

(* The initial state. *)
LEMMA InitEstablishes == Init => IInv
<1> SUFFICES ASSUME Init PROVE IInv
  OBVIOUS
<1>1. cancelled \in BOOLEAN /\ closed \in [Conns -> BOOLEAN] /\ open \in [Conns -> BOOLEAN]
  BY DEF Init
<1>2. TypeOK
  BY <1>1, CapacityAssumption DEF Init, TypeOK
<1>3. ASSUME NEW c \in Conns PROVE ConnInv(c)
  <2>1. ~closed[c]
    BY Zenon DEF Init
  <2> QED BY <2>1 DEF Init, ConnInv, RegisterAt
<1> QED BY <1>2, <1>3 DEF IInv

(* IInv holds in every state: the lemmas above, action by action. *)
THEOREM Inductive == Spec => []IInv
<1>1. ASSUME IInv, [Next]_vars PROVE IInv'
  <2>1. CASE UNCHANGED vars
    BY <1>1, <2>1 DEF IInv, TypeOK, ConnInv, RegisterAt, vars, hubVars, feedVars, connVars
  <2>2. CASE \E c \in Conns : \/ HandleConnection(c) \/ Register(c) \/ ReadError(c) \/ Unregister(c)
                             \/ WriteMessage(c) \/ WriteClose(c) \/ PingError(c)
    BY <1>1, <2>2, HandleConnectionPreserves, RegisterPreserves, ReadErrorPreserves,
       UnregisterPreserves, WriteMessagePreserves, WriteClosePreserves, PingErrorPreserves
  <2>3. CASE HubOp \/ HubFanout \/ HubShutdown \/ HubPanic \/ HubRestart \/ HubBackoffCancelled
    BY <1>1, <2>3, HubOpPreserves, HubFanoutPreserves, HubShutdownPreserves, HubPanicPreserves,
       HubRestartPreserves, HubBackoffCancelledPreserves
  <2>4. CASE Stop
    BY <1>1, <2>4, StopPreserves
  <2>5. CASE \E m \in Messages : Enqueue(m)
    BY <1>1, <2>5, EnqueuePreserves
  <2> QED BY <1>1, <2>1, <2>2, <2>3, <2>4, <2>5 DEF Next
<1> QED BY <1>1, InitEstablishes, PTL DEF Spec

(* The hub never sends on a channel it has closed. *)
THEOREM NoSendOnClosed == Spec => []RegisteredIsOpen
<1>1. IInv => RegisteredIsOpen
  BY DEF IInv, TypeOK, ConnInv, RegisteredIsOpen
<1> QED BY <1>1, Inductive, PTL

(* A registered client has every message fanned out since it registered,   *)
(* in order.                                                               *)
THEOREM NoGap == Spec => []NothingSkipped
<1>1. IInv => NothingSkipped
  BY DEF IInv, TypeOK, ConnInv, NothingSkipped
<1> QED BY <1>1, Inductive, PTL
============================================================================
