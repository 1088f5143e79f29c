---------------------------- MODULE PubSubProofs ----------------------------
(***************************************************************************)
(* Theorems about PubSub, for any number of topics, connections,           *)
(* redemptions and events on their way, and any faults.                    *)
(***************************************************************************)
EXTENDS PubSub, TLAPS

SvcPlaces == {"check", "connect", "handle", "validate", "token", "pend", "write", "append",
              "await", "idle", "close", "waitreaders", "returned"}
ProcPlaces == {"off", "ping", "select", "lookup", "deliver", "reconnect", "dial", "relisten",
               "rewait", "returned"}

SvcType == svc \in SvcPlaces /\ topic \in TopicIds
ProcType == proc \in ProcPlaces /\ evt \in Events /\ timer \in BOOLEAN
QueueType == messages \in Seq(Events) /\ Len(messages) <= 1
ConnType ==
  /\ tokens \in BOOLEAN
  /\ topics \subseteq TopicIds
  /\ pending \subseteq Nonces
  /\ conns \in 0..MaxConns

(* A reader runs on a connection that was made, and reads from one. *)
ReadType ==
  /\ readCancel \in BOOLEAN
  /\ rpc \in [Conns -> {"off", "call", "read", "push", "gone"}]
  /\ rconn \in [Conns -> 0..conns]
  /\ revt \in [Conns -> Events]
  /\ \A k \in Conns : rpc[k] # "off" => conns # 0
  /\ \A k \in Conns : rpc[k] = "read" => rconn[k] # 0

(* ProcessEvents renews a subscription on a connection that was made. *)
Running == proc # "off" => conns # 0

NetType ==
  /\ up \in [Conns -> {"new", "up", "dropped", "closed"}]
  /\ wire \in [Conns -> Seq(Events)]
  /\ asked \in [Conns -> SUBSET Requests]
  /\ granted \in [Conns -> SUBSET TopicIds]
  /\ emitted \in 0..MaxEvents
HistType == acked \subseteq TopicIds /\ published \subseteq 1..MaxEvents
FlagType == ctxDone \in BOOLEAN /\ brokerStuck \in BOOLEAN /\ crashed \in BOOLEAN

TypeInv ==
  /\ SvcType /\ ProcType /\ QueueType /\ ConnType /\ ReadType /\ Running
  /\ NetType /\ HistType /\ FlagType

LEMMA Constants ==
  /\ Topics \in Nat \ {0} /\ MaxConns \in Nat \ {0} /\ MaxEvents \in Nat
  /\ Conns = 1..MaxConns /\ TopicIds = 1..Topics
BY PubSubAssumption DEF Conns, TopicIds

LEMMA EventKinds ==
  ASSUME NEW e \in Events
  PROVE  /\ e.kind = "MESSAGE" => e.topic \in TopicIds /\ e.id \in 1..MaxEvents
         /\ e.kind = "RESPONSE" => e.nonce \in Nonces /\ e.ok \in BOOLEAN
BY DEF Events, Bare

LEMMA EventsMade ==
  /\ NoEvent \in Events /\ Bare("PONG") \in Events /\ Bare("RECONNECT") \in Events
  /\ \A n \in Nonces, ok \in BOOLEAN : Response(n, ok) \in Events
  /\ \A t \in TopicIds, n \in 1..MaxEvents : Message(t, n) \in Events
  /\ \A n \in Nonces, ts \in SUBSET TopicIds : Listen(n, ts) \in Requests
  /\ Ping \in Requests /\ Bare("RECONNECT") \in Requests
  /\ \A t \in TopicIds : Nonce("sub", t) \in Nonces
  /\ \A k \in Conns : Nonce("conn", k) \in Nonces
<1>1. NoEvent \in Events /\ Bare("PONG") \in Events /\ Bare("RECONNECT") \in Events
      BY DEF Events, NoEvent
<1>2. \A n \in Nonces, ok \in BOOLEAN : Response(n, ok) \in Events
      BY DEF Events, Response
<1>3. \A t \in TopicIds, n \in 1..MaxEvents : Message(t, n) \in Events
      BY DEF Events, Message
<1>4. \A n \in Nonces, ts \in SUBSET TopicIds : Listen(n, ts) \in Requests
      BY DEF Requests, Listen
<1>5. Ping \in Requests /\ Bare("RECONNECT") \in Requests
      BY DEF Requests
<1>6. /\ \A t \in TopicIds : Nonce("sub", t) \in Nonces
      /\ \A k \in Conns : Nonce("conn", k) \in Nonces
      BY DEF Nonces
<1>7. QED BY <1>1, <1>2, <1>3, <1>4, <1>5, <1>6

LEMMA TypeInit == Init => TypeInv
<1> SUFFICES ASSUME Init
             PROVE  TypeInv
    OBVIOUS
<1>1. SvcType /\ HistType
      BY Constants DEF Init, SvcType, SvcPlaces, HistType
<1>2. ProcType /\ FlagType
      BY EventsMade DEF Init, ProcType, ProcPlaces, FlagType
<1>3. QueueType /\ ConnType /\ Running
  <2>1. tokens \in BOOLEAN
        BY DEF Init
  <2>2. QueueType /\ Running /\ topics = {} /\ pending = {} /\ conns \in 0..MaxConns
        BY Constants DEF Init, QueueType, Running
  <2>3. QED BY <2>1, <2>2 DEF ConnType
<1>4. ReadType
  <2>1. readCancel \in BOOLEAN
        BY DEF Init
  <2>2. /\ rpc \in [Conns -> {"off", "call", "read", "push", "gone"}]
        /\ rconn \in [Conns -> 0..conns]
        /\ revt \in [Conns -> Events]
        /\ \A k \in Conns : rpc[k] = "off"
        BY EventsMade DEF Init
  <2>3. QED BY <2>1, <2>2 DEF ReadType
<1>5. NetType
  <2>1. <<>> \in Seq(Events)
        OBVIOUS
  <2>2. wire \in [Conns -> Seq(Events)]
        BY <2>1, Zenon DEF Init
  <2>3. QED BY <2>2, Constants DEF Init, NetType
<1>6. QED BY <1>1, <1>2, <1>3, <1>4, <1>5 DEF TypeInv

(* What a step leaves alone keeps its type. *)
LEMMA TypeKept ==
  ASSUME TypeInv
  PROVE  /\ UNCHANGED svcVars => SvcType'
         /\ UNCHANGED procVars => ProcType'
         /\ UNCHANGED messages => QueueType'
         /\ UNCHANGED connVars => ConnType'
         /\ UNCHANGED <<proc, conns>> => Running'
         /\ UNCHANGED <<readVars, conns>> => ReadType'
         /\ UNCHANGED netVars => NetType'
         /\ UNCHANGED history => HistType'
         /\ UNCHANGED ctxVars /\ UNCHANGED crashed => FlagType'
<1>1. /\ UNCHANGED <<readVars, conns>> => ReadType'
      /\ UNCHANGED netVars => NetType'
      BY DEF TypeInv, ReadType, NetType, readVars, netVars
<1>2. QED BY <1>1 DEF TypeInv, SvcType, ProcType, QueueType, ConnType, Running, HistType, FlagType,
                      svcVars, procVars, connVars, history, ctxVars

(* A dial makes the next connection and starts its reader. *)
LEMMA DialType ==
  ASSUME TypeInv, Connected, UNCHANGED <<tokens, topics, pending, readCancel, rconn, revt>>,
         UNCHANGED <<wire, asked, granted, emitted>>
  PROVE  ConnType' /\ ReadType' /\ NetType' /\ Running' /\ timer' \in BOOLEAN
<1>0. timer' \in BOOLEAN
      BY DEF Connected
<1>1. conns' = conns + 1 /\ conns' \in 1..MaxConns /\ conns \in 0..MaxConns
      BY Constants DEF Connected, TypeInv, ConnType
<1>2. ConnType' /\ Running'
      BY <1>1 DEF TypeInv, ConnType, Running
<1>3. ReadType'
  <2>1. rconn' \in [Conns -> 0..conns']
        BY <1>1, Constants DEF TypeInv, ReadType
  <2>2. rpc' \in [Conns -> {"off", "call", "read", "push", "gone"}]
        BY DEF Connected, TypeInv, ReadType
  <2>3. \A k \in Conns : rpc'[k] = "read" => rpc[k] = "read"
        BY DEF Connected, TypeInv, ReadType
  <2>4. conns' # 0
        BY <1>1
  <2>5. QED BY <2>1, <2>2, <2>3, <2>4 DEF TypeInv, ReadType
<1>4. NetType'
      BY DEF Connected, TypeInv, NetType
<1>5. QED BY <1>0, <1>2, <1>3, <1>4

(* A connection that is closed. *)
LEMMA ShutType ==
  ASSUME NetType, NEW k, Shut(k), emitted' = emitted
  PROVE  NetType'
<1>1. <<>> \in Seq(Events)
      OBVIOUS
<1>2. wire' \in [Conns -> Seq(Events)]
      BY <1>1, Zenon DEF NetType, Shut
<1>3. /\ up' \in [Conns -> {"new", "up", "dropped", "closed"}]
      /\ asked' \in [Conns -> SUBSET Requests]
      /\ granted' \in [Conns -> SUBSET TopicIds]
      /\ emitted' \in 0..MaxEvents
      BY DEF NetType, Shut
<1>4. QED BY <1>2, <1>3 DEF NetType

(* A request written on the current connection. *)
LEMMA WriteType ==
  ASSUME NetType, NEW r \in Requests, Write(r), UNCHANGED <<up, wire, granted, emitted>>
  PROVE  NetType'
<1>1. asked' \in [Conns -> SUBSET Requests]
      BY DEF NetType, Write
<1>2. QED BY <1>1 DEF NetType

LEMMA NextTopicType ==
  ASSUME SvcType, NextTopic
  PROVE  SvcType'
BY Constants DEF SvcType, SvcPlaces, NextTopic

LEMMA TypeService == TypeInv /\ Service => TypeInv'
<1> SUFFICES ASSUME TypeInv, Service
             PROVE  TypeInv'
    OBVIOUS
<1>1. CASE Connect
  <2>1. proc' = "ping" /\ evt' = evt /\ svc' = "handle" /\ topic' = topic
        BY <1>1 DEF Connect, Goto
  <2>2. ConnType' /\ ReadType' /\ NetType' /\ Running' /\ timer' \in BOOLEAN
        BY <1>1, DialType DEF Connect
  <2>3. SvcType' /\ ProcType'
        BY <2>1, <2>2 DEF TypeInv, SvcType, SvcPlaces, ProcType, ProcPlaces
  <2>4. QueueType' /\ HistType' /\ FlagType'
        BY <1>1, TypeKept DEF Connect
  <2>5. QED BY <2>2, <2>3, <2>4 DEF TypeInv
<1>2. CASE SubAnswered
  <2>1. SvcType'
        BY <1>2, NextTopicType DEF SubAnswered, TypeInv
  <2>2. ProcType'
        BY <1>2, EventsMade DEF SubAnswered, Proceed, TypeInv, ProcType, ProcPlaces
  <2>3. HistType'
        BY <1>2 DEF SubAnswered, TypeInv, SvcType, HistType
  <2>4. Running'
        BY <1>2 DEF SubAnswered, Proceed, connVars, TypeInv, Running
  <2>5. QueueType' /\ ConnType' /\ ReadType' /\ NetType' /\ FlagType'
        BY <1>2, TypeKept DEF SubAnswered, connVars
  <2>6. QED BY <2>1, <2>2, <2>3, <2>4, <2>5 DEF TypeInv
<1>3. CASE SetToken \/ TopicUnsupported \/ SetPending \/ AppendTopic
  <2>1. SvcType'
        BY <1>3, NextTopicType DEF SetToken, TopicUnsupported, SetPending, AppendTopic, Goto,
           TypeInv, SvcType, SvcPlaces
  <2>2. ConnType' /\ conns' = conns
        BY <1>3, EventsMade DEF SetToken, TopicUnsupported, SetPending, AppendTopic,
           TypeInv, ConnType, SvcType
  <2>3. UNCHANGED <<procVars, messages, readVars, netVars, history, ctxVars, crashed>>
        BY <1>3 DEF SetToken, TopicUnsupported, SetPending, AppendTopic
  <2>4. proc' = proc
        BY <2>3 DEF procVars
  <2>5. QED BY <2>1, <2>2, <2>3, <2>4, TypeKept DEF TypeInv
<1>4. CASE SubWrite
  <2>1. Listen(Nonce("sub", topic), {topic}) \in Requests
        BY EventsMade DEF TypeInv, SvcType
  <2>2. NetType'
        BY <1>4, <2>1, WriteType DEF SubWrite, TypeInv
  <2>3. SvcType'
        BY <1>4 DEF SubWrite, Goto, TypeInv, SvcType, SvcPlaces
  <2>4. UNCHANGED <<procVars, messages, connVars, readVars, history, ctxVars, crashed>>
        BY <1>4 DEF SubWrite
  <2>5. UNCHANGED <<proc, conns>>
        BY <2>4 DEF procVars, connVars
  <2>6. QED BY <2>2, <2>3, <2>4, <2>5, TypeKept DEF TypeInv
<1>5. CASE CloseCancel
  <2>1. SvcType'
        BY <1>5 DEF CloseCancel, Goto, TypeInv, SvcType, SvcPlaces
  <2>2. UNCHANGED <<procVars, messages, connVars, netVars, history, ctxVars, crashed>>
        BY <1>5 DEF CloseCancel
  <2>3. UNCHANGED <<proc, conns>>
        BY <2>2 DEF procVars, connVars
  <2>4. ReadType'
        BY <1>5, <2>3 DEF CloseCancel, TypeInv, ReadType
  <2>5. QED BY <2>1, <2>2, <2>3, <2>4, TypeKept DEF TypeInv
<1>6. CASE \/ ConnectFails \/ Handle \/ Validate \/ ValidateFails \/ SubWriteFails \/ SubCancelled
           \/ ServiceDone \/ CloseDone
  <2>1. SvcType'
        BY <1>6, NextTopicType DEF ConnectFails, Handle, Validate, ValidateFails, SubWriteFails,
           SubCancelled, ServiceDone, CloseDone, Goto, TypeInv, SvcType, SvcPlaces
  <2>2. UNCHANGED <<procVars, messages, connVars, readVars, netVars, history, ctxVars, crashed>>
        BY <1>6 DEF ConnectFails, Handle, Validate, ValidateFails, SubWriteFails, SubCancelled,
           ServiceDone, CloseDone
  <2>3. UNCHANGED <<proc, conns>>
        BY <2>2 DEF procVars, connVars
  <2>4. QED BY <2>1, <2>2, <2>3, TypeKept DEF TypeInv
<1>7. QED BY <1>1, <1>2, <1>3, <1>4, <1>5, <1>6 DEF Service, Subscribe

LEMMA TypeReader ==
  ASSUME TypeInv, NEW k \in Conns, Reader(k)
  PROVE  TypeInv'
<1>0. conns \in Nat /\ rpc[k] # "off"
      BY Constants DEF TypeInv, ConnType, Reader, ReadCall, ReadEvent, ReadFails, Push
<1>1. conns # 0
      BY <1>0 DEF TypeInv, ReadType
<1>2. UNCHANGED <<svcVars, procVars, connVars, history, ctxVars, crashed>>
      BY DEF Reader, ReadCall, ReadEvent, ReadFails, Push
<1>3. UNCHANGED <<proc, conns>>
      BY <1>2 DEF procVars, connVars
<1>4. SvcType' /\ ProcType' /\ ConnType' /\ Running' /\ HistType' /\ FlagType'
      BY <1>2, <1>3, TypeKept
<1>5. QueueType' /\ NetType'
  <2>1. CASE ReadCall(k)
        BY <2>1, TypeKept DEF ReadCall
  <2>2. CASE ReadEvent(k)
    <3>1. rconn[k] \in Conns
          BY <2>2, Constants, <1>0 DEF ReadEvent, TypeInv, ReadType, ConnType
    <3>2. Tail(wire[rconn[k]]) \in Seq(Events)
          BY <3>1, <2>2 DEF ReadEvent, TypeInv, NetType
    <3>3. wire' \in [Conns -> Seq(Events)]
          BY <3>1, <3>2, <2>2 DEF ReadEvent, TypeInv, NetType
    <3>4. QED BY <3>3, <2>2, TypeKept DEF ReadEvent, TypeInv, NetType
  <2>3. CASE ReadFails(k)
        BY <2>3, TypeKept, ShutType DEF ReadFails, TypeInv
  <2>4. CASE Push(k)
        BY <2>4, TypeKept DEF Push, TypeInv, ReadType, QueueType
  <2>5. QED BY <2>1, <2>2, <2>3, <2>4 DEF Reader
<1>6. ReadType'
  <2>1. CASE ReadCall(k)
    <3>1. conns \in 0..conns /\ conns' = conns
          BY <1>0, <1>3
    <3>2. rconn' \in [Conns -> 0..conns] /\ \A j \in Conns \ {k} : rconn'[j] = rconn[j]
          BY <2>1, <3>1 DEF ReadCall, TypeInv, ReadType
    <3>3. /\ rpc' \in [Conns -> {"off", "call", "read", "push", "gone"}]
          /\ \A j \in Conns \ {k} : rpc'[j] = rpc[j]
          BY <2>1 DEF ReadCall, TypeInv, ReadType
    <3>4. rconn'[k] # 0
          BY <2>1, <1>1 DEF ReadCall, TypeInv, ReadType
    <3>5. QED BY <2>1, <1>1, <3>1, <3>2, <3>3, <3>4 DEF ReadCall, TypeInv, ReadType
  <2>2. CASE ReadEvent(k)
    <3>1. rconn[k] \in Conns
          BY <2>2, Constants, <1>0 DEF ReadEvent, TypeInv, ReadType, ConnType
    <3>2. Head(wire[rconn[k]]) \in Events
          BY <3>1, <2>2 DEF ReadEvent, TypeInv, NetType
    <3>3. revt' \in [Conns -> Events] /\ rconn' \in [Conns -> 0..conns]
          BY <3>2, <2>2, <1>0 DEF ReadEvent, TypeInv, ReadType
    <3>4. \A j \in Conns : rpc'[j] = "read" => rpc[j] = "read" /\ rconn'[j] = rconn[j]
          BY <2>2 DEF ReadEvent, TypeInv, ReadType
    <3>5. QED BY <2>2, <1>1, <1>3, <3>3, <3>4 DEF ReadEvent, TypeInv, ReadType
  <2>3. CASE ReadFails(k)
    <3>1. rconn' \in [Conns -> 0..conns]
          BY <2>3, <1>0 DEF ReadFails, TypeInv, ReadType
    <3>2. \A j \in Conns : rpc'[j] = "read" => rpc[j] = "read" /\ rconn'[j] = rconn[j]
          BY <2>3 DEF ReadFails, TypeInv, ReadType
    <3>3. QED BY <2>3, <1>1, <1>3, <3>1, <3>2 DEF ReadFails, TypeInv, ReadType
  <2>4. CASE Push(k)
    <3>1. revt' \in [Conns -> Events]
          BY <2>4, EventsMade DEF Push, TypeInv, ReadType
    <3>2. \A j \in Conns : rpc'[j] = "read" => rpc[j] = "read"
          BY <2>4 DEF Push, TypeInv, ReadType
    <3>3. QED BY <2>4, <1>1, <1>3, <3>1, <3>2 DEF Push, TypeInv, ReadType
  <2>5. QED BY <2>1, <2>2, <2>3, <2>4 DEF Reader
<1>7. QED BY <1>4, <1>5, <1>6 DEF TypeInv

LEMMA TypeProcess == TypeInv /\ ProcessEvents => TypeInv'
<1> SUFFICES ASSUME TypeInv, ProcessEvents
             PROVE  TypeInv'
    OBVIOUS
<1>1. CASE ReconnectDial
  <2>1. proc' = "relisten" /\ evt' = evt
        BY <1>1 DEF ReconnectDial, Proceed
  <2>2. ConnType' /\ ReadType' /\ NetType' /\ Running' /\ timer' \in BOOLEAN
        BY <1>1, DialType DEF ReconnectDial
  <2>3. ProcType'
        BY <2>1, <2>2 DEF TypeInv, ProcType, ProcPlaces
  <2>4. SvcType' /\ QueueType' /\ HistType' /\ FlagType'
        BY <1>1, TypeKept DEF ReconnectDial
  <2>5. QED BY <2>2, <2>3, <2>4 DEF TypeInv
<1>2. CASE Relisten \/ RelistenFails
  <2>1. conns' = conns /\ conns \in Conns
        BY <1>2, Constants DEF Relisten, RelistenFails, Proceed, TypeInv, Running, ConnType
  <2>2. ConnType'
        BY <1>2, <2>1, EventsMade DEF Relisten, RelistenFails, TypeInv, ConnType
  <2>3. Listen(Nonce("conn", conns), topics) \in Requests
        BY <2>1, EventsMade DEF TypeInv, ConnType
  <2>4. NetType'
    <3>1. CASE Relisten
          BY <3>1, <2>3, WriteType DEF Relisten, TypeInv
    <3>2. CASE RelistenFails
          BY <3>2, TypeKept DEF RelistenFails
    <3>3. QED BY <1>2, <3>1, <3>2
  <2>5. ProcType' /\ Running'
        BY <1>2, <2>1, Constants DEF Relisten, RelistenFails, Proceed, TypeInv, ProcType, ProcPlaces, Running
  <2>6. SvcType' /\ QueueType' /\ HistType' /\ FlagType' /\ ReadType'
        BY <1>2, <2>1, TypeKept DEF Relisten, RelistenFails
  <2>7. QED BY <2>2, <2>4, <2>5, <2>6 DEF TypeInv
<1>3. CASE HandleMessage
  <2>1. HistType'
        BY <1>3, EventKinds DEF HandleMessage, TypeInv, ProcType, HistType
  <2>2. ProcType'
        BY <1>3, EventsMade DEF HandleMessage, TypeInv, ProcType, ProcPlaces
  <2>3. conns' = conns /\ Running'
        BY <1>3 DEF HandleMessage, connVars, TypeInv, Running
  <2>4. SvcType' /\ QueueType' /\ ConnType' /\ ReadType' /\ NetType' /\ FlagType'
        BY <1>3, <2>3, TypeKept DEF HandleMessage
  <2>5. QED BY <2>1, <2>2, <2>3, <2>4 DEF TypeInv
<1>4. CASE SendPing
  <2>1. NetType'
    <3>1. Ping \in Requests
          BY EventsMade
    <3>2. CASE Alive
          BY <1>4, <3>1, <3>2, WriteType DEF SendPing, TypeInv
    <3>3. CASE ~Alive
          BY <1>4, <3>3 DEF SendPing, TypeInv, NetType
    <3>4. QED BY <3>2, <3>3
  <2>2. conns' = conns /\ Running' /\ ProcType'
        BY <1>4 DEF SendPing, Proceed, connVars, TypeInv, Running, ProcType, ProcPlaces
  <2>3. SvcType' /\ QueueType' /\ ConnType' /\ ReadType' /\ HistType' /\ FlagType'
        BY <1>4, <2>2, TypeKept DEF SendPing
  <2>4. QED BY <2>1, <2>2, <2>3 DEF TypeInv
<1>5. CASE TakeEvent
  <2>1. Head(messages) \in Events
        BY <1>5 DEF TakeEvent, TypeInv, QueueType
  <2>2. ProcType'
        BY <1>5, <2>1 DEF TakeEvent, Proceed, TypeInv, ProcType, ProcPlaces
  <2>3. QueueType'
        BY <1>5 DEF TakeEvent, QueueType
  <2>4. conns' = conns /\ Running'
        BY <1>5 DEF TakeEvent, Proceed, connVars, TypeInv, Running
  <2>5. SvcType' /\ ConnType' /\ ReadType' /\ NetType' /\ HistType' /\ FlagType'
        BY <1>5, <2>4, TypeKept DEF TakeEvent
  <2>6. QED BY <2>2, <2>3, <2>4, <2>5 DEF TypeInv
<1>6. CASE ReconnectClose
  <2>1. NetType'
        BY <1>6, ShutType DEF ReconnectClose, TypeInv
  <2>2. conns' = conns /\ Running' /\ ProcType'
        BY <1>6 DEF ReconnectClose, Proceed, connVars, TypeInv, Running, ProcType, ProcPlaces
  <2>3. SvcType' /\ QueueType' /\ ConnType' /\ ReadType' /\ HistType' /\ FlagType'
        BY <1>6, <2>2, TypeKept DEF ReconnectClose
  <2>4. QED BY <2>1, <2>2, <2>3 DEF TypeInv
<1>7. CASE \/ Tick \/ TimerFires \/ ProcessDone \/ AnswerPending \/ HandleReconnect \/ HandlePong
           \/ DropMessage \/ ReconnectFails \/ RelistenNothing \/ RewaitCancelled
  <2>1. UNCHANGED <<svcVars, messages, connVars, readVars, netVars, history, ctxVars, crashed>>
        BY <1>7 DEF Tick, TimerFires, ProcessDone, AnswerPending, HandleReconnect, HandlePong,
           DropMessage, ReconnectFails, RelistenNothing, RewaitCancelled
  <2>2. /\ proc' \in ProcPlaces /\ proc # "off"
        /\ evt' = evt \/ evt' = NoEvent
        /\ timer' = timer \/ timer' = FALSE
        BY <1>7 DEF Tick, TimerFires, ProcessDone, AnswerPending, HandleReconnect, HandlePong,
           DropMessage, ReconnectFails, RelistenNothing, RewaitCancelled, Proceed, ProcPlaces
  <2>3. conns' = conns
        BY <2>1 DEF connVars
  <2>4. ProcType' /\ Running'
        BY <2>2, <2>3, EventsMade DEF TypeInv, ProcType, Running
  <2>5. QED BY <2>1, <2>3, <2>4, TypeKept DEF TypeInv
<1>8. QED BY <1>1, <1>2, <1>3, <1>4, <1>5, <1>6, <1>7 DEF ProcessEvents, ProcessEvent, Reconnect

(* The server puts an event on the wire. *)
LEMMA SendType ==
  ASSUME NetType, NEW k \in Conns, NEW e \in Events, Send(k, e)
  PROVE  wire' \in [Conns -> Seq(Events)]
<1>1. Append(wire[k], e) \in Seq(Events)
      BY DEF NetType
<1>2. QED BY <1>1 DEF NetType, Send

LEMMA TypeServer ==
  ASSUME TypeInv, NEW k \in Conns, Server(k)
  PROVE  TypeInv'
<1>1. UNCHANGED <<svcVars, procVars, messages, connVars, readVars, history, ctxVars, crashed>>
      BY DEF Server, ServerAnswers, ServerPongs, ServerNotifies, ServerReconnects, ServerDrops
<1>2. UNCHANGED <<proc, conns>>
      BY <1>1 DEF procVars, connVars
<1>3. NetType'
  <2>0. NetType
        BY DEF TypeInv
  <2>1. CASE ServerAnswers(k)
    <3>1. PICK r \in asked[k], ok \in {TRUE} \cup {FALSE : f \in Faults \cap {"reject"}} :
            /\ r.kind = "LISTEN"
            /\ Send(k, Response(r.nonce, ok))
            /\ asked' = [asked EXCEPT ![k] = @ \ {r}]
            /\ granted' = [granted EXCEPT ![k] = IF ok THEN @ \cup r.topics ELSE @]
          BY <2>1 DEF ServerAnswers
    <3>2. r \in Requests
          BY <2>0 DEF NetType
    <3>3. r.nonce \in Nonces /\ r.topics \in SUBSET TopicIds
          BY <3>1, <3>2 DEF Requests, Ping, Bare
    <3>4. ok \in BOOLEAN
          OBVIOUS
    <3>5. wire' \in [Conns -> Seq(Events)]
          BY <2>0, <3>1, <3>3, <3>4, EventsMade, SendType
    <3>6. asked' \in [Conns -> SUBSET Requests]
          BY <2>0, <3>1 DEF NetType
    <3>7. granted' \in [Conns -> SUBSET TopicIds]
      <4>1. granted[k] \cup r.topics \in SUBSET TopicIds /\ granted[k] \in SUBSET TopicIds
            BY <2>0, <3>3 DEF NetType
      <4>2. QED BY <2>0, <3>1, <4>1 DEF NetType
    <3>8. QED BY <2>0, <2>1, <3>5, <3>6, <3>7 DEF ServerAnswers, NetType
  <2>2. CASE ServerPongs(k)
    <3>1. wire' \in [Conns -> Seq(Events)]
          BY <2>0, <2>2, EventsMade, SendType DEF ServerPongs
    <3>2. asked' \in [Conns -> SUBSET Requests]
          BY <2>0, <2>2 DEF ServerPongs, NetType
    <3>3. QED BY <2>0, <2>2, <3>1, <3>2 DEF ServerPongs, NetType
  <2>3. CASE ServerNotifies(k)
    <3>1. PICK t \in granted[k] : Send(k, Message(t, emitted + 1))
          BY <2>3 DEF ServerNotifies
    <3>2. t \in TopicIds /\ emitted + 1 \in 1..MaxEvents
          BY <2>0, <2>3, Constants DEF ServerNotifies, NetType
    <3>3. wire' \in [Conns -> Seq(Events)]
          BY <2>0, <3>1, <3>2, EventsMade, SendType
    <3>4. QED BY <2>0, <2>3, <3>2, <3>3, Constants DEF ServerNotifies, NetType
  <2>4. CASE ServerReconnects(k)
    <3>1. wire' \in [Conns -> Seq(Events)]
          BY <2>0, <2>4, EventsMade, SendType DEF ServerReconnects
    <3>2. asked' \in [Conns -> SUBSET Requests]
          BY <2>0, <2>4, EventsMade DEF ServerReconnects, NetType
    <3>3. QED BY <2>0, <2>4, <3>1, <3>2 DEF ServerReconnects, NetType
  <2>5. CASE ServerDrops(k)
        BY <2>0, <2>5 DEF ServerDrops, NetType
  <2>6. QED BY <2>1, <2>2, <2>3, <2>4, <2>5 DEF Server
<1>4. QED BY <1>1, <1>2, <1>3, TypeKept DEF TypeInv

LEMMA TypeStep == TypeInv /\ [Next]_vars => TypeInv'
<1> SUFFICES ASSUME TypeInv, [Next]_vars
             PROVE  TypeInv'
    OBVIOUS
<1>1. CASE UNCHANGED vars
  <2>1. UNCHANGED <<svcVars, procVars, messages, connVars, readVars, netVars, history, ctxVars, crashed>>
        BY <1>1 DEF vars
  <2>2. UNCHANGED <<proc, conns>>
        BY <2>1 DEF procVars, connVars
  <2>3. QED BY <2>1, <2>2, TypeKept DEF TypeInv
<1>2. CASE MapRace \/ BrokerSticks \/ Cancel
  <2>1. UNCHANGED <<svcVars, procVars, messages, connVars, readVars, netVars, history>>
        BY <1>2 DEF MapRace, BrokerSticks, Cancel
  <2>2. UNCHANGED <<proc, conns>>
        BY <2>1 DEF procVars, connVars
  <2>3. FlagType'
        BY <1>2 DEF MapRace, BrokerSticks, Cancel, ctxVars, TypeInv, FlagType
  <2>4. QED BY <2>1, <2>2, <2>3, TypeKept DEF TypeInv
<1>3. CASE Check
  <2>1. SvcType'
        BY <1>3 DEF Check, CheckToken, CheckFails, Goto, TypeInv, SvcType, SvcPlaces
  <2>2. UNCHANGED <<procVars, messages, connVars, readVars, netVars, history, ctxVars, crashed>>
        BY <1>3 DEF Check, CheckToken, CheckFails
  <2>3. UNCHANGED <<proc, conns>>
        BY <2>2 DEF procVars, connVars
  <2>4. QED BY <2>1, <2>2, <2>3, TypeKept DEF TypeInv
<1>4. QED BY <1>1, <1>2, <1>3, TypeService, TypeReader, TypeProcess, TypeServer DEF Next

(* TypeOK: the channel of events holds at most one, its receivers and the  *)
(* readers only ever hold an event, and a redemption is published by its   *)
(* number.                                                                 *)
THEOREM PubSubTypeCorrect == Spec => []TypeOK
<1>1. Spec => []TypeInv
      BY TypeInit, TypeStep, PTL DEF Spec
<1>2. TypeInv => TypeOK
  <2> SUFFICES ASSUME TypeInv
               PROVE  TypeOK
      OBVIOUS
  <2>1. {ctxDone, brokerStuck, timer, tokens, readCancel, crashed} \subseteq BOOLEAN
        BY DEF TypeInv, ProcType, ConnType, ReadType, FlagType
  <2>2. QED BY <2>1 DEF TypeOK, TypeInv, SvcType, SvcPlaces, ProcType, ProcPlaces, QueueType,
                        ConnType, ReadType, NetType, HistType
<1>3. QED BY <1>1, <1>2, PTL

-----------------------------------------------------------------------------
(* ProcessEvents holds a message only while it handles it; a topic is      *)
(* recorded before Sub waits for its answer.                               *)
Recorded ==
  /\ evt.kind = "MESSAGE" => proc = "lookup"
  /\ svc = "await" => topic \in topics
  /\ acked \subseteq topics

(* A renewed request leaves ProcessEvents waiting for itself, or ended. *)
Renewed == \E k \in Conns : Nonce("conn", k) \in pending
RenewalWaits ==
  /\ svc \in {"check", "connect"} => proc = "off"
  /\ Renewed => proc \in {"rewait", "returned"}

FlowInv == Recorded /\ RenewalWaits

LEMMA FlowInit == Init => FlowInv
BY DEF Init, FlowInv, Recorded, RenewalWaits, Renewed, NoEvent, Bare

(* The service goroutine leaves Connect once. *)
LEMMA FlowService == FlowInv /\ Service => FlowInv'
<1> SUFFICES ASSUME FlowInv, Service
             PROVE  FlowInv'
    OBVIOUS
<1> USE DEF FlowInv, Recorded, RenewalWaits, Renewed
<1>1. CASE Connect
      BY <1>1 DEF Connect, Goto, history
<1>2. CASE SetPending
  <2>1. \A k \in Conns : Nonce("conn", k) # Nonce("sub", topic)
        BY DEF Nonce
  <2>2. Renewed' => Renewed
        BY <1>2, <2>1 DEF SetPending
  <2>3. QED BY <1>2, <2>2 DEF SetPending, Goto, procVars, history
<1>3. CASE SubAnswered
  <2>1. topic \in topics /\ topics' = topics /\ pending' = pending /\ acked \subseteq topics
        BY <1>3 DEF SubAnswered, connVars
  <2>2. acked' \subseteq topics /\ evt'.kind # "MESSAGE" /\ proc = "deliver" /\ proc' = "select"
        BY <1>3, <2>1 DEF SubAnswered, Proceed, NoEvent, Bare
  <2>3. svc' \in {"idle", "handle"}
        BY <1>3 DEF SubAnswered, NextTopic
  <2>4. QED BY <2>1, <2>2, <2>3
<1>4. CASE AppendTopic
      BY <1>4 DEF AppendTopic, Goto, procVars, history
<1>5. CASE \/ ConnectFails \/ Handle \/ Validate \/ ServiceDone \/ CloseCancel \/ CloseDone
           \/ SetToken
      BY <1>5 DEF ConnectFails, Handle, Validate, ServiceDone, CloseCancel, CloseDone, SetToken, Goto,
                  procVars, connVars, history
<1>6. CASE ValidateFails \/ SubWriteFails \/ SubCancelled \/ TopicUnsupported
      BY <1>6 DEF ValidateFails, SubWriteFails, SubCancelled, TopicUnsupported, NextTopic,
                  procVars, connVars, history
<1>7. CASE SubWrite
      BY <1>7 DEF SubWrite, Goto, procVars, connVars, history
<1>8. QED BY <1>1, <1>2, <1>3, <1>4, <1>5, <1>6, <1>7 DEF Service, Subscribe

LEMMA FlowProcess == FlowInv /\ ProcessEvents => FlowInv'
<1> SUFFICES ASSUME FlowInv, ProcessEvents
             PROVE  FlowInv'
    OBVIOUS
<1> USE DEF FlowInv, Recorded, RenewalWaits, Renewed
<1>1. CASE SendPing \/ Tick \/ TimerFires \/ ProcessDone
      BY <1>1 DEF SendPing, Tick, TimerFires, ProcessDone, Proceed, svcVars, connVars, history
<1>2. CASE TakeEvent
      BY <1>2 DEF TakeEvent, Proceed, svcVars, connVars, history
<1>3. CASE AnswerPending \/ HandleReconnect \/ HandlePong \/ DropMessage
      BY <1>3 DEF AnswerPending, HandleReconnect, HandlePong, DropMessage, Proceed, NoEvent, Bare,
                  svcVars, connVars, history
<1>4. CASE HandleMessage
      BY <1>4 DEF HandleMessage, NoEvent, Bare, svcVars, connVars
<1>5. CASE ReconnectClose \/ ReconnectFails \/ RelistenNothing \/ RewaitCancelled
      BY <1>5 DEF ReconnectClose, ReconnectFails, RelistenNothing, RewaitCancelled, Proceed,
                  svcVars, connVars, history
<1>6. CASE ReconnectDial
      BY <1>6 DEF ReconnectDial, Proceed, svcVars, history
<1>7. CASE Relisten \/ RelistenFails
      BY <1>7 DEF Relisten, RelistenFails, Proceed, svcVars, history
<1>8. QED BY <1>1, <1>2, <1>3, <1>4, <1>5, <1>6, <1>7 DEF ProcessEvents, ProcessEvent, Reconnect

(* The readers, the server and the rest of the connector touch none of it. *)
LEMMA OthersStep ==
  ASSUME [Next]_vars
  PROVE  \/ Check \/ Service \/ ProcessEvents
         \/ UNCHANGED <<svcVars, proc, evt, connVars, history>>
<1>1. ASSUME NEW k \in Conns, Reader(k) \/ Server(k)
      PROVE  UNCHANGED <<svcVars, proc, evt, connVars, history>>
      BY <1>1 DEF Reader, ReadCall, ReadEvent, ReadFails, Push, Server, ServerAnswers, ServerPongs,
                  ServerNotifies, ServerReconnects, ServerDrops, procVars
<1>2. MapRace \/ BrokerSticks \/ Cancel => UNCHANGED <<svcVars, proc, evt, connVars, history>>
      BY DEF MapRace, BrokerSticks, Cancel, procVars
<1>3. UNCHANGED vars => UNCHANGED <<svcVars, proc, evt, connVars, history>>
      BY DEF vars, procVars
<1>4. QED BY <1>1, <1>2, <1>3 DEF Next

LEMMA FlowStep == FlowInv /\ [Next]_vars => FlowInv'
<1> SUFFICES ASSUME FlowInv, [Next]_vars
             PROVE  FlowInv'
    OBVIOUS
<1>1. CASE UNCHANGED <<svcVars, proc, evt, connVars, history>>
      BY <1>1 DEF FlowInv, Recorded, RenewalWaits, Renewed, svcVars, connVars, history
<1>2. CASE Check
      BY <1>2 DEF Check, CheckToken, CheckFails, Goto, FlowInv, Recorded, RenewalWaits, Renewed,
                  procVars, connVars, history
<1>3. QED BY <1>1, <1>2, FlowService, FlowProcess, OthersStep

LEMMA FlowCorrect == Spec => []FlowInv
BY FlowInit, FlowStep, PTL DEF Spec

(* AckedIsNeverDropped: handlePubSub receives the positive answer to a     *)
(* subscription only after Sub recorded the topic (pubsub.go:241, :244),   *)
(* and ProcessEvents throws away only messages of unrecorded topics.       *)
THEOREM AckedCorrect == Spec => AckedIsNeverDropped
<1>1. ASSUME FlowInv, [Next]_vars, evt.kind = "MESSAGE", evt' = NoEvent
      PROVE  evt.id \in published' \/ evt.topic \notin acked
  <2>1. proc = "lookup" /\ acked \subseteq topics /\ evt' # evt
        BY <1>1 DEF FlowInv, Recorded, NoEvent, Bare
  <2>2. ~Service /\ ~Check
    <3>1. ~SubAnswered
          BY <2>1 DEF SubAnswered, Proceed
    <3>2. QED BY <3>1, <2>1 DEF Service, Subscribe, Check, CheckToken, CheckFails, Connect,
                ConnectFails, Handle, Validate, ValidateFails,
                SetToken, TopicUnsupported, SetPending, SubWrite, SubWriteFails, AppendTopic,
                SubCancelled, ServiceDone, CloseCancel, CloseDone, procVars
  <2>3. ProcessEvents
        BY <1>1, <2>1, <2>2, OthersStep
  <2>4. CASE DropMessage
        BY <2>1, <2>4 DEF DropMessage
  <2>5. CASE HandleMessage
        BY <2>5 DEF HandleMessage
  <2>6. ~(HandleReconnect \/ HandlePong \/ AnswerPending \/ TakeEvent \/ Reconnect \/ SendPing
            \/ Tick \/ TimerFires \/ ProcessDone)
        BY <1>1, <2>1 DEF HandleReconnect, HandlePong, AnswerPending, TakeEvent, Reconnect,
           ReconnectClose, ReconnectDial, ReconnectFails, Relisten, RelistenFails, RelistenNothing,
           RewaitCancelled, SendPing, Tick, TimerFires, ProcessDone, Proceed
  <2>7. QED BY <2>3, <2>4, <2>5, <2>6 DEF ProcessEvents, ProcessEvent
<1>2. FlowInv /\ [Next]_vars =>
        [(evt.kind = "MESSAGE" /\ evt' = NoEvent)
           => (evt.id \in published' \/ evt.topic \notin acked)]_vars
      BY <1>1
<1>3. QED BY <1>2, FlowCorrect, PTL DEF Spec, AckedIsNeverDropped

(* SilentOnceRenewed: after the LISTEN of a reconnect the goroutine of     *)
(* ProcessEvents waits for an answer that only it could deliver            *)
(* (pubsub.go:187-193), so no later message reaches the broker.            *)
THEOREM SilentCorrect == Spec => SilentOnceRenewed
<1>1. ASSUME FlowInv, [Next]_vars, Renewed
      PROVE  published' = published
  <2>1. proc \in {"rewait", "returned"}
        BY <1>1 DEF FlowInv, RenewalWaits
  <2>2. CASE Service \/ Check
        BY <2>2 DEF Check, CheckToken, CheckFails, Service, Subscribe, Connect, ConnectFails, Handle, Validate, ValidateFails,
           SetToken, TopicUnsupported, SetPending, SubWrite, SubWriteFails, AppendTopic,
           SubAnswered, SubCancelled, ServiceDone, CloseCancel, CloseDone, history
  <2>3. CASE ProcessEvents
        BY <2>1, <2>3 DEF ProcessEvents, ProcessEvent, HandleReconnect, HandlePong, AnswerPending,
           TakeEvent, Reconnect, ReconnectClose, ReconnectDial, ReconnectFails, Relisten,
           RelistenFails, RelistenNothing, RewaitCancelled, SendPing, Tick, TimerFires,
           ProcessDone, DropMessage, HandleMessage, history
  <2>4. QED BY <1>1, <2>2, <2>3, OthersStep DEF history
<1>2. FlowInv /\ [Next]_vars =>
        [(\E k \in Conns : Nonce("conn", k) \in pending) => published' = published]_vars
      BY <1>1 DEF Renewed
<1>3. QED BY <1>2, FlowCorrect, PTL DEF Spec, SilentOnceRenewed
=============================================================================
