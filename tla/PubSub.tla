------------------------------- MODULE PubSub -------------------------------
(***************************************************************************)
(* Channel points and bits: handlePubSub in                                *)
(* cmd/twitch-integration-connector/pubsub.go and the connection it        *)
(* drives, twitch/pubsub/pubsub.go.                                        *)
(*                                                                         *)
(* The service goroutine validates its token, connects, registers a        *)
(* handler for one topic after the other, subscribes to it and waits for   *)
(* the answer, and finally closes.  ProcessEvents runs in a goroutine of   *)
(* its own: it takes events from a channel of capacity 1,                  *)
(* hands answers to whoever waits for them, publishes messages to the      *)
(* broker, sends PINGs and reconnects.  Every connection starts a reader   *)
(* that fills the channel.  Connections are numbered in the order they are *)
(* made; a request (nonce) is named by its topic, or by the connection on  *)
(* which it renews all of them.                                            *)
(***************************************************************************)
EXTENDS Naturals, Sequences

CONSTANTS
  Topics,     \* number of topics handlePubSub subscribes to (at most 2)
  MaxConns,   \* bound on the number of successful dials
  MaxEvents,  \* bound on the number of redemptions
  WireCap,    \* bound on the unread events of a connection
  Faults      \* what may go wrong around the service

Conns == 1..MaxConns
TopicIds == 1..Topics

ASSUME PubSubAssumption ==
  /\ {Topics, MaxConns, WireCap} \subseteq Nat \ {0}
  /\ MaxEvents \in Nat
  /\ Faults \subseteq {"drop", "reconnect", "reject", "broker"}

VARIABLES
  ctxDone,     \* the service context is cancelled
  brokerStuck, \* dataBroker.Publish does not return any more
  svc,         \* where the service goroutine is
  topic,       \* the topic it subscribes to
  proc,        \* where the goroutine of ProcessEvents is
  evt,         \* the event it handles
  timer,       \* reconnectTimer is running
  messages,    \* the channel of events, of capacity 1
  tokens,      \* tokensByChannel has its entry
  topics,      \* the topics events are accepted for
  pending,     \* keys of pendingResponses, which are never deleted
  conns,       \* number of connections made; the last is the field conn
  readCancel,  \* readCtx is cancelled
  rpc,         \* where the reader of each connection is
  rconn,       \* the connection it reads: c.conn is evaluated every time
  revt,        \* the event it pushes
  up,          \* state of each connection
  wire,        \* events each connection carries to the client
  asked,       \* requests the server has not answered
  granted,     \* topics each connection is subscribed to, at the server
  emitted,     \* number of redemptions sent so far
  acked,       \* history: topics whose positive answer reached Sub
  published,   \* history: redemptions published
  crashed      \* the Go runtime ended the connector

svcVars  == <<svc, topic>>
procVars == <<proc, evt, timer>>
connVars == <<tokens, topics, pending, conns>>
readVars == <<readCancel, rpc, rconn, revt>>
netVars  == <<up, wire, asked, granted, emitted>>
history  == <<acked, published>>
ctxVars  == <<ctxDone, brokerStuck>>
vars == <<svcVars, procVars, messages, connVars, readVars, netVars, history, ctxVars, crashed>>

(* Requests and events. *)
Nonce(kind, i) == [kind |-> kind, id |-> i]
Listen(nonce, ts) == [kind |-> "LISTEN", nonce |-> nonce, topics |-> ts]
Ping == [kind |-> "PING"]
Response(nonce, ok) == [kind |-> "RESPONSE", nonce |-> nonce, ok |-> ok]
Message(t, n) == [kind |-> "MESSAGE", topic |-> t, id |-> n]
Bare(kind) == [kind |-> kind]
NoEvent == Bare("none")

Goto(from, to) == svc = from /\ svc' = to
Proceed(from, to) == proc = from /\ proc' = to

(* c.conn.Write on the current connection. *)
Alive == up[conns] = "up"
Write(r) == asked' = [asked EXCEPT ![conns] = @ \cup {r}]

(* A connection is closed: nothing on it is read or answered any more. *)
Shut(k) ==
  /\ up' = [up EXCEPT ![k] = "closed"]
  /\ wire' = [wire EXCEPT ![k] = <<>>]
  /\ asked' = [asked EXCEPT ![k] = {}]
  /\ granted' = [granted EXCEPT ![k] = {}]

(* Sub returns: handlePubSub goes on to the next topic, or waits. *)
NextTopic ==
  IF topic = Topics
  THEN svc' = "idle" /\ topic' = topic
  ELSE svc' = "handle" /\ topic' = topic + 1

(* The part of connect after a successful dial. *)
Connected ==
  /\ conns < MaxConns
  /\ conns' = conns + 1
  /\ up' = [up EXCEPT ![conns + 1] = "up"]
  /\ rpc' = [rpc EXCEPT ![conns + 1] = "call"]
  /\ timer' = FALSE

-----------------------------------------------------------------------------
(* Broken variants, never part of Next. *)

(* Sub does not record the topic. *)
SubWriteOnly ==
  /\ ~crashed
  /\ Goto("write", "await")
  /\ Alive
  /\ Write(Listen(Nonce("sub", topic), {topic}))
  /\ UNCHANGED <<topic, procVars, messages, connVars, readVars, up, wire, granted, emitted,
                 history, ctxVars, crashed>>

(* ping does not arm the timer. *)
PingWithoutReset ==
  /\ ~crashed
  /\ Proceed("ping", "select")
  /\ IF Alive THEN Write(Ping) ELSE asked' = asked
  /\ UNCHANGED <<evt, timer, svcVars, messages, connVars, readVars, up, wire, granted, emitted,
                 history, ctxVars, crashed>>

(* reconnect does not wait for the answers. *)
RelistenNoWait ==
  /\ ~crashed
  /\ Proceed("relisten", "select")
  /\ Alive
  /\ tokens
  /\ Write(Listen(Nonce("conn", conns), topics))
  /\ pending' = pending \cup {Nonce("conn", conns)}
  /\ UNCHANGED <<evt, timer, svcVars, messages, tokens, topics, conns, readVars, up, wire,
                 granted, emitted, history, ctxVars, crashed>>

(* Close does not cancel readCtx. *)
CloseWithoutCancel ==
  /\ ~crashed
  /\ Goto("close", "waitreaders")
  /\ UNCHANGED <<topic, procVars, messages, connVars, readVars, netVars, history, ctxVars, crashed>>

-----------------------------------------------------------------------------
(* handlePubSub: the first validation, Connect, one Handle and Sub after   *)
(* the other, Close.                                                       *)

(* OAuth2Validate on a context that is never cancelled, by a client        *)
(* without a timeout: only an answer ends it.                              *)
CheckToken ==
  /\ ~crashed
  /\ Goto("check", "connect")
  /\ UNCHANGED <<topic, procVars, messages, connVars, readVars, netVars, history, ctxVars, crashed>>

(* It fails, a scope is missing, or nothing is configured. *)
CheckFails ==
  /\ ~crashed
  /\ Goto("check", "returned")
  /\ UNCHANGED <<topic, procVars, messages, connVars, readVars, netVars, history, ctxVars, crashed>>

Connect ==
  /\ ~crashed
  /\ Goto("connect", "handle")
  /\ ~ctxDone
  /\ Connected
  /\ proc' = "ping"
  /\ UNCHANGED <<topic, evt, messages, tokens, topics, pending, readCancel, rconn, revt, wire,
                 asked, granted, emitted, history, ctxVars, crashed>>

ConnectFails ==
  /\ ~crashed
  /\ Goto("connect", "returned")
  /\ UNCHANGED <<topic, procVars, messages, connVars, readVars, netVars, history, ctxVars, crashed>>

(* conn.Handle: a write to the map of handlers. *)
Handle ==
  /\ ~crashed
  /\ Goto("handle", "validate")
  /\ UNCHANGED <<topic, procVars, messages, connVars, readVars, netVars, history, ctxVars, crashed>>

(* The OAuth2Validate of Sub. *)
Validate ==
  /\ ~crashed
  /\ Goto("validate", "token")
  /\ ~ctxDone
  /\ UNCHANGED <<topic, procVars, messages, connVars, readVars, netVars, history, ctxVars, crashed>>

ValidateFails ==
  /\ ~crashed
  /\ svc = "validate"
  /\ NextTopic
  /\ UNCHANGED <<procVars, messages, connVars, readVars, netVars, history, ctxVars, crashed>>

SetToken ==
  /\ ~crashed
  /\ Goto("token", "pend")
  /\ tokens' = TRUE
  /\ UNCHANGED <<topic, procVars, messages, topics, pending, conns, readVars, netVars, history,
                 ctxVars, crashed>>

(* The token lost its scope since handlePubSub looked at it. *)
TopicUnsupported ==
  /\ ~crashed
  /\ svc = "token"
  /\ tokens' = TRUE
  /\ NextTopic
  /\ UNCHANGED <<procVars, messages, topics, pending, conns, readVars, netVars, history,
                 ctxVars, crashed>>

SetPending ==
  /\ ~crashed
  /\ Goto("pend", "write")
  /\ pending' = pending \cup {Nonce("sub", topic)}
  /\ UNCHANGED <<topic, procVars, messages, tokens, topics, conns, readVars, netVars, history,
                 ctxVars, crashed>>

SubWrite ==
  /\ ~crashed
  /\ Goto("write", "append")
  /\ Alive
  /\ Write(Listen(Nonce("sub", topic), {topic}))
  /\ UNCHANGED <<topic, procVars, messages, connVars, readVars, up, wire, granted, emitted,
                 history, ctxVars, crashed>>

SubWriteFails ==
  /\ ~crashed
  /\ svc = "write"
  /\ ~Alive \/ ctxDone
  /\ NextTopic
  /\ UNCHANGED <<procVars, messages, connVars, readVars, netVars, history, ctxVars, crashed>>

AppendTopic ==
  /\ ~crashed
  /\ Goto("append", "await")
  /\ topics' = topics \cup {topic}
  /\ UNCHANGED <<topic, procVars, messages, tokens, pending, conns, readVars, netVars, history,
                 ctxVars, crashed>>

(* e := <-responseCh meets responseCh <- e of ProcessEvents. *)
SubAnswered ==
  /\ ~crashed
  /\ svc = "await"
  /\ Proceed("deliver", "select")
  /\ evt.nonce = Nonce("sub", topic)
  /\ evt' = NoEvent
  /\ acked' = acked \cup {t \in {topic} : evt.ok}
  /\ NextTopic
  /\ UNCHANGED <<timer, messages, connVars, readVars, netVars, published, ctxVars, crashed>>

SubCancelled ==
  /\ ~crashed
  /\ svc = "await"
  /\ ctxDone
  /\ NextTopic
  /\ UNCHANGED <<procVars, messages, connVars, readVars, netVars, history, ctxVars, crashed>>

ServiceDone ==
  /\ ~crashed
  /\ Goto("idle", "close")
  /\ ctxDone
  /\ UNCHANGED <<topic, procVars, messages, connVars, readVars, netVars, history, ctxVars, crashed>>

(* Close: cancelReadFn, and wg.Wait for every reader. *)
CloseCancel ==
  /\ ~crashed
  /\ Goto("close", "waitreaders")
  /\ readCancel' = TRUE
  /\ UNCHANGED <<topic, procVars, messages, connVars, rpc, rconn, revt, netVars, history,
                 ctxVars, crashed>>

CloseDone ==
  /\ ~crashed
  /\ Goto("waitreaders", "returned")
  /\ \A k \in Conns : rpc[k] \in {"off", "gone"}
  /\ UNCHANGED <<topic, procVars, messages, connVars, readVars, netVars, history, ctxVars, crashed>>

-----------------------------------------------------------------------------
(* The reader of one connection. *)

ReadCall(k) ==
  /\ ~crashed
  /\ rpc[k] = "call"
  /\ rconn' = [rconn EXCEPT ![k] = conns]
  /\ rpc' = [rpc EXCEPT ![k] = "read"]
  /\ UNCHANGED <<svcVars, procVars, messages, connVars, readCancel, revt, netVars, history,
                 ctxVars, crashed>>

ReadEvent(k) ==
  /\ ~crashed
  /\ rpc[k] = "read"
  /\ up[rconn[k]] # "closed"
  /\ wire[rconn[k]] # <<>>
  /\ revt' = [revt EXCEPT ![k] = Head(wire[rconn[k]])]
  /\ wire' = [wire EXCEPT ![rconn[k]] = Tail(@)]
  /\ rpc' = [rpc EXCEPT ![k] = "push"]
  /\ rconn' = [rconn EXCEPT ![k] = 0]
  /\ UNCHANGED <<svcVars, procVars, messages, connVars, readCancel, up, asked, granted, emitted,
                 history, ctxVars, crashed>>

(* An error ends the reader; a cancelled readCtx closes the connection. *)
ReadFails(k) ==
  /\ ~crashed
  /\ rpc[k] = "read"
  /\ \/ readCancel
     \/ up[rconn[k]] = "closed"
     \/ up[rconn[k]] = "dropped" /\ wire[rconn[k]] = <<>>
  /\ Shut(rconn[k])
  /\ rpc' = [rpc EXCEPT ![k] = "gone"]
  /\ rconn' = [rconn EXCEPT ![k] = 0]
  /\ UNCHANGED <<svcVars, procVars, messages, connVars, readCancel, revt, emitted, history,
                 ctxVars, crashed>>

(* c.messages <- evt, which nothing but ProcessEvents can unblock. *)
Push(k) ==
  /\ ~crashed
  /\ rpc[k] = "push"
  /\ messages = <<>>
  /\ messages' = <<revt[k]>>
  /\ revt' = [revt EXCEPT ![k] = NoEvent]
  /\ rpc' = [rpc EXCEPT ![k] = "call"]
  /\ UNCHANGED <<svcVars, procVars, connVars, readCancel, rconn, netVars, history, ctxVars, crashed>>

-----------------------------------------------------------------------------
(* ProcessEvents. *)

(* The write error is ignored; the timer runs in any case. *)
SendPing ==
  /\ ~crashed
  /\ Proceed("ping", "select")
  /\ IF Alive THEN Write(Ping) ELSE asked' = asked
  /\ timer' = TRUE
  /\ UNCHANGED <<evt, svcVars, messages, connVars, readVars, up, wire, granted, emitted,
                 history, ctxVars, crashed>>

(* case <-ticker.C: five minutes later. *)
Tick ==
  /\ ~crashed
  /\ Proceed("select", "ping")
  /\ UNCHANGED <<evt, timer, svcVars, messages, connVars, readVars, netVars, history, ctxVars, crashed>>

(* case <-c.reconnectTimer.C: ten seconds without PONG. *)
TimerFires ==
  /\ ~crashed
  /\ Proceed("select", "reconnect")
  /\ timer
  /\ timer' = FALSE
  /\ UNCHANGED <<evt, svcVars, messages, connVars, readVars, netVars, history, ctxVars, crashed>>

ProcessDone ==
  /\ ~crashed
  /\ Proceed("select", "returned")
  /\ ctxDone
  /\ UNCHANGED <<evt, timer, svcVars, messages, connVars, readVars, netVars, history, ctxVars, crashed>>

TakeEvent ==
  /\ ~crashed
  /\ Proceed("select", "lookup")
  /\ messages # <<>>
  /\ evt' = Head(messages)
  /\ messages' = <<>>
  /\ UNCHANGED <<timer, svcVars, connVars, readVars, netVars, history, ctxVars, crashed>>

(* pendingResponses has the nonce: responseCh <- e, without a way out. *)
AnswerPending ==
  /\ ~crashed
  /\ evt.kind = "RESPONSE"
  /\ evt.nonce \in pending
  /\ Proceed("lookup", "deliver")
  /\ UNCHANGED <<evt, timer, svcVars, messages, connVars, readVars, netVars, history, ctxVars, crashed>>

HandleReconnect ==
  /\ ~crashed
  /\ evt.kind = "RECONNECT"
  /\ Proceed("lookup", "reconnect")
  /\ evt' = NoEvent
  /\ UNCHANGED <<timer, svcVars, messages, connVars, readVars, netVars, history, ctxVars, crashed>>

HandlePong ==
  /\ ~crashed
  /\ evt.kind = "PONG"
  /\ Proceed("lookup", "select")
  /\ evt' = NoEvent
  /\ timer' = FALSE
  /\ UNCHANGED <<svcVars, messages, connVars, readVars, netVars, history, ctxVars, crashed>>

(* A message of a topic that is not (yet) in topics is dropped. *)
DropMessage ==
  /\ ~crashed
  /\ evt.kind = "MESSAGE"
  /\ evt.topic \notin topics
  /\ Proceed("lookup", "select")
  /\ evt' = NoEvent
  /\ UNCHANGED <<timer, svcVars, messages, connVars, readVars, netVars, history, ctxVars, crashed>>

(* The handlers that handlePubSub registered before Sub call Publish. *)
HandleMessage ==
  /\ ~crashed
  /\ proc = "lookup"
  /\ evt.kind = "MESSAGE"
  /\ evt.topic \in topics
  /\ ~brokerStuck
  /\ published' = published \cup {evt.id}
  /\ proc' = "select"
  /\ evt' = NoEvent
  /\ UNCHANGED <<timer, svcVars, messages, connVars, readVars, netVars, acked, ctxVars, crashed>>

-----------------------------------------------------------------------------
(* reconnect, called by ProcessEvents. *)

ReconnectClose ==
  /\ ~crashed
  /\ Proceed("reconnect", "dial")
  /\ Shut(conns)
  /\ UNCHANGED <<evt, timer, svcVars, messages, connVars, readVars, emitted, history, ctxVars,
                 crashed>>

ReconnectDial ==
  /\ ~crashed
  /\ Proceed("dial", "relisten")
  /\ ~ctxDone
  /\ Connected
  /\ UNCHANGED <<svcVars, evt, messages, tokens, topics, pending, readCancel, rconn, revt, wire,
                 asked, granted, emitted, history, ctxVars, crashed>>

(* A failed reconnect ends ProcessEvents. *)
ReconnectFails ==
  /\ ~crashed
  /\ Proceed("dial", "returned")
  /\ UNCHANGED <<evt, timer, svcVars, messages, connVars, readVars, netVars, history, ctxVars, crashed>>

(* There is one token at most, and one request for all topics so far. *)
Relisten ==
  /\ ~crashed
  /\ Proceed("relisten", "rewait")
  /\ tokens
  /\ Alive
  /\ Write(Listen(Nonce("conn", conns), topics))
  /\ pending' = pending \cup {Nonce("conn", conns)}
  /\ UNCHANGED <<evt, timer, svcVars, messages, tokens, topics, conns, readVars, up, wire,
                 granted, emitted, history, ctxVars, crashed>>

RelistenFails ==
  /\ ~crashed
  /\ Proceed("relisten", "returned")
  /\ tokens
  /\ ~Alive \/ ctxDone
  /\ pending' = pending \cup {Nonce("conn", conns)}
  /\ UNCHANGED <<evt, timer, svcVars, messages, tokens, topics, conns, readVars, netVars, history,
                 ctxVars, crashed>>

RelistenNothing ==
  /\ ~crashed
  /\ Proceed("relisten", "select")
  /\ ~tokens
  /\ UNCHANGED <<evt, timer, svcVars, messages, connVars, readVars, netVars, history, ctxVars, crashed>>

(* case <-ctx.Done() of the wait for the answers.  Its other case would    *)
(* need ProcessEvents, whose goroutine is the one that waits.              *)
RewaitCancelled ==
  /\ ~crashed
  /\ Proceed("rewait", "returned")
  /\ ctxDone
  /\ UNCHANGED <<evt, timer, svcVars, messages, connVars, readVars, netVars, history, ctxVars, crashed>>

(* Handle and Sub write the maps that ProcessEvents reads and reconnect    *)
(* iterates over, without a lock: the runtime may detect it and end the    *)
(* process.                                                                *)
MapRace ==
  /\ ~crashed
  /\ \/ svc = "handle" /\ proc = "lookup" /\ evt.kind = "MESSAGE" /\ evt.topic \in topics
     \/ svc = "token" /\ proc = "relisten"
     \/ svc = "pend" /\ proc \in {"lookup", "relisten"}
  /\ crashed' = TRUE
  /\ UNCHANGED <<svcVars, procVars, messages, connVars, readVars, netVars, history, ctxVars>>

-----------------------------------------------------------------------------
(* Twitch's server, the rest of the connector, and the shutdown. *)

Carries(k) == up[k] = "up" /\ Len(wire[k]) < WireCap
Send(k, e) == wire' = [wire EXCEPT ![k] = Append(@, e)]

ServerAnswers(k) ==
  /\ ~crashed
  /\ Carries(k)
  /\ \E r \in asked[k], ok \in {TRUE} \cup {FALSE : f \in Faults \cap {"reject"}} :
       /\ r.kind = "LISTEN"
       /\ Send(k, Response(r.nonce, ok))
       /\ asked' = [asked EXCEPT ![k] = @ \ {r}]
       /\ granted' = [granted EXCEPT ![k] = IF ok THEN @ \cup r.topics ELSE @]
  /\ UNCHANGED <<svcVars, procVars, messages, connVars, readVars, up, emitted, history,
                 ctxVars, crashed>>

ServerPongs(k) ==
  /\ ~crashed
  /\ Carries(k)
  /\ Ping \in asked[k]
  /\ Send(k, Bare("PONG"))
  /\ asked' = [asked EXCEPT ![k] = @ \ {Ping}]
  /\ UNCHANGED <<svcVars, procVars, messages, connVars, readVars, up, granted, emitted, history,
                 ctxVars, crashed>>

ServerNotifies(k) ==
  /\ ~crashed
  /\ Carries(k)
  /\ emitted < MaxEvents
  /\ emitted' = emitted + 1
  /\ \E t \in granted[k] : Send(k, Message(t, emitted + 1))
  /\ UNCHANGED <<svcVars, procVars, messages, connVars, readVars, up, asked, granted, history,
                 ctxVars, crashed>>

(* RECONNECT, on every connection but the last one the bound allows. *)
ServerReconnects(k) ==
  /\ ~crashed
  /\ "reconnect" \in Faults
  /\ Carries(k)
  /\ k < MaxConns
  /\ Bare("RECONNECT") \notin asked[k]
  /\ Send(k, Bare("RECONNECT"))
  /\ asked' = [asked EXCEPT ![k] = @ \cup {Bare("RECONNECT")}]
  /\ UNCHANGED <<svcVars, procVars, messages, connVars, readVars, up, granted, emitted, history,
                 ctxVars, crashed>>

ServerDrops(k) ==
  /\ ~crashed
  /\ "drop" \in Faults
  /\ up[k] = "up"
  /\ up' = [up EXCEPT ![k] = "dropped"]
  /\ UNCHANGED <<svcVars, procVars, messages, connVars, readVars, wire, asked, granted, emitted,
                 history, ctxVars, crashed>>

BrokerSticks ==
  /\ ~crashed
  /\ "broker" \in Faults
  /\ ~brokerStuck
  /\ brokerStuck' = TRUE
  /\ UNCHANGED <<svcVars, procVars, messages, connVars, readVars, netVars, history, ctxDone, crashed>>

Cancel ==
  /\ ~crashed
  /\ ~ctxDone
  /\ ctxDone' = TRUE
  /\ UNCHANGED <<svcVars, procVars, messages, connVars, readVars, netVars, history, brokerStuck,
                 crashed>>
-----------------------------------------------------------------------------
Init ==
  /\ ctxDone = FALSE
  /\ brokerStuck = FALSE
  /\ svc = "check"
  /\ topic = 1
  /\ proc = "off"
  /\ evt = NoEvent
  /\ timer = TRUE
  /\ messages = <<>>
  /\ tokens = FALSE
  /\ topics = {}
  /\ pending = {}
  /\ conns = 0
  /\ readCancel = FALSE
  /\ rpc = [k \in Conns |-> "off"]
  /\ rconn = [k \in Conns |-> 0]
  /\ revt = [k \in Conns |-> NoEvent]
  /\ up = [k \in Conns |-> "new"]
  /\ wire = [k \in Conns |-> <<>>]
  /\ asked = [k \in Conns |-> {}]
  /\ granted = [k \in Conns |-> {}]
  /\ emitted = 0
  /\ acked = {}
  /\ published = {}
  /\ crashed = FALSE

Check == CheckToken \/ CheckFails

Subscribe ==
  \/ Handle
  \/ Validate \/ ValidateFails
  \/ SetToken \/ TopicUnsupported \/ SetPending
  \/ SubWrite \/ SubWriteFails \/ AppendTopic
  \/ SubAnswered \/ SubCancelled

Service ==
  \/ Connect \/ ConnectFails
  \/ Subscribe
  \/ ServiceDone \/ CloseCancel \/ CloseDone

Reader(k) == ReadCall(k) \/ ReadEvent(k) \/ ReadFails(k) \/ Push(k)

ProcessEvent ==
  AnswerPending \/ HandleReconnect \/ HandlePong \/ DropMessage \/ HandleMessage

Reconnect ==
  \/ ReconnectClose \/ ReconnectDial \/ ReconnectFails
  \/ Relisten \/ RelistenFails \/ RelistenNothing \/ RewaitCancelled

ProcessEvents ==
  SendPing \/ Tick \/ TimerFires \/ ProcessDone \/ TakeEvent \/ ProcessEvent \/ Reconnect

Server(k) ==
  \/ ServerAnswers(k) \/ ServerPongs(k) \/ ServerNotifies(k)
  \/ ServerReconnects(k) \/ ServerDrops(k)

Next ==
  \/ Check
  \/ Service
  \/ \E k \in Conns : Reader(k) \/ Server(k)
  \/ ProcessEvents
  \/ MapRace
  \/ BrokerSticks
  \/ Cancel

Spec == Init /\ [][Next]_vars

(* Goroutines keep running, and a select takes a case that is ready again  *)
(* and again.  Nothing makes the server answer, nor the one that is asked  *)
(* for the first validation.                                               *)
Goroutines ==
  /\ WF_vars(Service)
  /\ \A k \in Conns : WF_vars(Reader(k))
  /\ WF_vars(SendPing \/ ProcessEvent \/ Reconnect)
  /\ SF_vars(ProcessDone)

(* Events are taken and ticks come; a timer that is left running fires,    *)
(* but one that a PONG stops every time does not have to.                  *)
Timers ==
  /\ SF_vars(TakeEvent)
  /\ SF_vars(Tick)
  /\ []<>~timer \/ <>[](proc # "select")

RunSpec == Spec /\ Goroutines
FairSpec == RunSpec /\ Timers

-----------------------------------------------------------------------------
(* Properties. *)

Nonces == {Nonce("sub", t) : t \in TopicIds} \cup {Nonce("conn", k) : k \in Conns}
Events ==
  {Bare(kind) : kind \in {"none", "PONG", "RECONNECT"}}
    \cup [kind : {"RESPONSE"}, nonce : Nonces, ok : BOOLEAN]
    \cup [kind : {"MESSAGE"}, topic : TopicIds, id : 1..MaxEvents]
Requests ==
  {Ping, Bare("RECONNECT")}
    \cup [kind : {"LISTEN"}, nonce : Nonces, topics : SUBSET TopicIds]

(* Every variable has its type, and the channel holds one event at most. *)
TypeOK ==
  /\ {ctxDone, brokerStuck, timer, tokens, readCancel, crashed} \subseteq BOOLEAN
  /\ svc \in {"check", "connect", "handle", "validate", "token", "pend", "write", "append",
             "await", "idle", "close", "waitreaders", "returned"}
  /\ topic \in TopicIds
  /\ proc \in {"off", "ping", "select", "lookup", "deliver", "reconnect", "dial", "relisten",
              "rewait", "returned"}
  /\ evt \in Events
  /\ messages \in Seq(Events) /\ Len(messages) <= 1
  /\ topics \cup acked \subseteq TopicIds
  /\ pending \subseteq Nonces
  /\ conns \in 0..MaxConns
  /\ rpc \in [Conns -> {"off", "call", "read", "push", "gone"}]
  /\ rconn \in [Conns -> 0..conns]
  /\ revt \in [Conns -> Events]
  /\ up \in [Conns -> {"new", "up", "dropped", "closed"}]
  /\ wire \in [Conns -> Seq(Events)]
  /\ asked \in [Conns -> SUBSET Requests]
  /\ granted \in [Conns -> SUBSET TopicIds]
  /\ published \subseteq 1..MaxEvents /\ emitted \in 0..MaxEvents

(* Once the answer to its subscription has reached Sub, no message of the  *)
(* topic is thrown away: the topic is recorded before Sub can receive the  *)
(* answer.  (A message that overtakes the answer may be.)                  *)
AckedIsNeverDropped ==
  [][(evt.kind = "MESSAGE" /\ evt' = NoEvent)
       => (evt.id \in published' \/ evt.topic \notin acked)]_vars

(* Once ProcessEvents has asked for its subscriptions again, nothing is    *)
(* published any more: it waits for answers only it could deliver.         *)
SilentOnceRenewed ==
  [][(\E k \in Conns : Nonce("conn", k) \in pending) => published' = published]_vars

(* ProcessEvents is occupied with a reconnect, or has ended. *)
NotProcessing == proc \in {"reconnect", "dial", "relisten", "rewait", "returned"}

(* ProcessEvents waits for a Sub that gave up, or for the broker. *)
ProcessingStuck ==
  \/ proc = "deliver" /\ svc # "await"
  \/ proc = "lookup" /\ evt.kind = "MESSAGE" /\ brokerStuck

(* A message of an acknowledged topic that is on its way is published,     *)
(* unless the service ends or reconnects, or Publish does not return.      *)
OnItsWay(n) ==
  \E t \in acked, k \in Conns :
    \/ \E i \in DOMAIN wire[k] : wire[k][i] = Message(t, n)
    \/ Message(t, n) \in {revt[k], evt}
    \/ messages = <<Message(t, n)>>

AckedIsPublished ==
  \A n \in 1..MaxEvents :
    OnItsWay(n) ~> (n \in published \/ NotProcessing \/ ProcessingStuck \/ crashed)

(* A lost connection does not go unnoticed: within a tick and ten seconds  *)
(* ProcessEvents tries to reconnect, although nothing reports the loss.    *)
LossIsNoticed ==
  (conns = 1 /\ up[1] = "dropped") ~> (NotProcessing \/ ProcessingStuck \/ crashed)

(* A reader whose event nobody will take: Close waits for it for ever. *)
ReaderStuck ==
  \E k \in Conns :
    rpc[k] = "push" /\ messages # <<>> /\ (proc = "returned" \/ ProcessingStuck)

(* After the cancellation handlePubSub returns, also from a subscription,  *)
(* a reconnect or a wait for renewals, and when the broker stops before    *)
(* it.  There are two ways it does not: a reader is stuck on the channel   *)
(* that ProcessEvents has left, or the first validation, which ignores the *)
(* cancellation, gets no answer.  No timer is needed for it.               *)
ShutdownCompletes == ctxDone ~> (svc \in {"returned", "check"} \/ ReaderStuck \/ crashed)

(* README.md:45 "enables listening to channelpoints redemptions": without  *)
(* a shutdown or a lost connection, a redemption the server sends after    *)
(* its topic was acknowledged is published, whatever RECONNECT it sends.   *)
RedemptionNotified ==
  \A n \in 1..MaxEvents :
    OnItsWay(n) ~> (n \in published \/ ctxDone \/ crashed \/ proc = "returned")
=============================================================================
