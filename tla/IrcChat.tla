------------------------------ MODULE IrcChat ------------------------------
(***************************************************************************)
(* The chat service of the connector: handleChat in                        *)
(* cmd/twitch-integration-connector/chat.go and the client it drives,      *)
(* twitch/irc/connection.go.                                               *)
(*                                                                         *)
(* Three kinds of goroutine share one ChatClient.  The service goroutine   *)
(* connects, waits for the server's replies on an internal channel, joins  *)
(* and finally closes.  Every successful dial starts a listener, which     *)
(* hands each message to the registered channels with blocking sends while *)
(* it holds handlerMtx, and which closes all of them when it ends.  One    *)
(* goroutine made by OnMessage publishes the chat messages to the broker.  *)
(* Before any of this irc.New validates the token, with a request that has *)
(* neither a context nor a timeout.                                        *)
(* Connections are numbered in the order they were dialled; 0 stands for   *)
(* the nil connection and for a free lock.                                 *)
(***************************************************************************)
EXTENDS Naturals, Sequences

CONSTANTS
  MaxConns,  \* bound on the number of successful dials
  MaxChats,  \* bound on the number of chat messages
  MaxNoise,  \* bound on PINGs and other system messages
  MaxSent,   \* bound on both together
  HandCap,   \* defaultMessageBufferSize (20 in the code)
  WireCap,   \* bound on the unread messages of a connection
  Faults     \* what may go wrong around the service

Conns == 1..MaxConns
None == 0

ASSUME IrcAssumption ==
  /\ {MaxConns, MaxChats, MaxNoise, MaxSent} \subseteq Nat
  /\ {HandCap, WireCap} \subseteq Nat \ {0}
  /\ Faults \subseteq {"drop", "cancel", "broker"}

VARIABLES
  ctxDone,     \* the service context is cancelled
  brokerStuck, \* dataBroker.Publish does not return any more
  main,        \* where the service goroutine is
  conns,       \* number of connections dialled so far
  connField,   \* ChatClient.conn
  up,          \* state of each connection
  wire,        \* messages each connection carries to the client
  asked,       \* requests of the client the server has not answered, and
               \* "member" once the client is in the channel
  chats,       \* number of chat messages sent so far
  noise,       \* number of other unsolicited messages sent so far
  lpc,         \* where the listener of each connection is
  lconn,       \* the connection it reads: c.conn is evaluated every time
  lmsg,        \* the message it handles
  lock,        \* the listener that holds handlerMtx
  hand,        \* the internal channel of OpenContext or JoinContext
  pub,         \* the channel of OnMessage
  hpc,         \* where the goroutine of OnMessage is
  hmsg,        \* the chat message it publishes
  published,   \* history: chat messages published, in order
  token,       \* number of tokens in doneListening, of capacity 1
  unwinding,   \* the goroutines that panicked and run their deferred calls:
               \* listeners, and None for the service goroutine
  crashed      \* one of them has run them all: the connector is gone

mainVars == <<main, conns, connField>>
netVars  == <<up, wire, asked, chats, noise>>
readVars == <<lpc, lconn, lmsg, lock, token>>
pubVars  == <<pub, hpc, hmsg, published>>
ctxVars  == <<ctxDone, brokerStuck>>
panicVars == <<unwinding, crashed>>
vars == <<mainVars, netVars, readVars, hand, pubVars, ctxVars, panicVars>>

(* Messages: the replies to CAP, NICK and JOIN, system messages, chat. *)
Reply == [cap  |-> {"ack"}, nick |-> {"welcome", "failed", "improper"}, join |-> {"joined"}]
Msg(k) == [kind |-> k, id |-> 0]
Chat(n) == [kind |-> "chat", id |-> n]
NoMsg == Msg("none")

(* A Go channel together with its membership in the map of handlers.  Once *)
(* it is taken out of the map nobody sends to it or reads it any more.     *)
NewChan == [buf |-> <<>>, reg |-> TRUE, open |-> TRUE]
NoChan  == [buf |-> <<>>, reg |-> FALSE, open |-> TRUE]
CloseChan(ch) == [ch EXCEPT !.open = @ /\ ~ch.reg]

(* A goroutine panics: it goes on to the first of its deferred calls. *)
Panics(k) == unwinding' = unwinding \cup {k} /\ crashed' = crashed

(* The client closes a connection: what it carries is not read any more,   *)
(* and the server forgets its requests.                                    *)
Shut(k) ==
  /\ up' = [j \in Conns |-> IF j = k THEN "closed" ELSE up[j]]
  /\ wire' = [j \in Conns |-> IF j = k THEN <<>> ELSE wire[j]]
  /\ asked' = [j \in Conns |-> IF j = k THEN {} ELSE asked[j]]

(* The service goroutine moves on without touching anything else. *)
Goto(from, to) == main = from /\ main' = to /\ UNCHANGED <<conns, connField>>

-----------------------------------------------------------------------------
(* Broken variants, never part of Next. *)

(* The internal channel grows without a bound. *)
DeliverInternalUnbounded(k) ==
  /\ ~crashed
  /\ lpc[k] = "internal"
  /\ lmsg[k].kind # "chat"
  /\ hand.reg => hand.open
  /\ hand' = [hand EXCEPT !.buf = IF hand.reg THEN Append(@, lmsg[k]) ELSE @]
  /\ lock' = None
  /\ lmsg' = [lmsg EXCEPT ![k] = NoMsg]
  /\ lpc' = [lpc EXCEPT ![k] = "call"]
  /\ UNCHANGED <<mainVars, netVars, lconn, token, pubVars, ctxVars, panicVars>>

(* OpenContext clears the field when it closes the old connection. *)
CloseOldClears ==
  /\ ~crashed
  /\ main = "closeold"
  /\ main' = "dial"
  /\ Shut(connField)
  /\ connField' = None
  /\ UNCHANGED <<conns, chats, noise, readVars, hand, pubVars, ctxVars, panicVars>>

(* JoinContext does not look at its context. *)
ReplyCancelledIgnored ==
  /\ ~crashed
  /\ ctxDone
  /\ main \in {"waitcap", "waitauth"}
  /\ main' = "opencancelled"
  /\ UNCHANGED <<conns, connField, netVars, readVars, hand, pubVars, ctxVars, panicVars>>

(* The goroutine of OnMessage publishes an event again. *)
HandlerPublishRetrying ==
  /\ ~crashed
  /\ hpc = "publish"
  /\ ~brokerStuck
  /\ Len(published) < MaxChats + 1
  /\ published' = Append(published, hmsg)
  /\ UNCHANGED <<hpc, hmsg, mainVars, netVars, readVars, hand, pub, ctxVars, panicVars>>

(* The goroutine of OnMessage ends as soon as the channel is closed. *)
HandlerEndEarly ==
  /\ ~crashed
  /\ hpc = "range"
  /\ ~pub.open
  /\ hpc' = "remove"
  /\ UNCHANGED <<mainVars, netVars, readVars, hand, pub, hmsg, published, ctxVars, panicVars>>

-----------------------------------------------------------------------------
(* handleChat up to its first connection. *)

(* irc.New has its answer, and OnMessage starts its goroutine. *)
Validated ==
  /\ ~crashed
  /\ Goto("validate", "open")
  /\ pub' = NewChan
  /\ hpc' = "range"
  /\ UNCHANGED <<netVars, readVars, hand, hmsg, published, ctxVars, panicVars>>

(* Disabled, no credentials, or an error of irc.New. *)
ValidateFails ==
  /\ ~crashed
  /\ Goto("validate", "returned")
  /\ UNCHANGED <<netVars, readVars, hand, pubVars, ctxVars, panicVars>>

-----------------------------------------------------------------------------
(* OpenContext. *)

ResetHandlers ==
  /\ ~crashed
  /\ lock = None
  /\ Goto("open", "closeold")
  /\ hand' = NoChan
  /\ UNCHANGED <<netVars, readVars, pubVars, ctxVars, panicVars>>

CloseOld ==
  /\ ~crashed
  /\ Goto("closeold", "dial")
  /\ Shut(connField)
  /\ UNCHANGED <<chats, noise, readVars, hand, pubVars, ctxVars, panicVars>>

Dial ==
  /\ ~crashed
  /\ main = "dial"
  /\ ~ctxDone
  /\ conns < MaxConns
  /\ conns' = conns + 1
  /\ connField' = conns + 1
  /\ up' = [up EXCEPT ![conns + 1] = "up"]
  /\ main' = "addopen"
  /\ UNCHANGED <<wire, asked, chats, noise, readVars, hand, pubVars, ctxVars, panicVars>>

(* handleChat tries again at once, unless the error is the cancellation. *)
DialFails ==
  /\ ~crashed
  /\ ~ctxDone
  /\ Goto("dial", "open")
  /\ UNCHANGED <<netVars, readVars, hand, pubVars, ctxVars, panicVars>>

DialCancelled ==
  /\ ~crashed
  /\ ctxDone
  /\ Goto("dial", "returned")
  /\ UNCHANGED <<netVars, readVars, hand, pubVars, ctxVars, panicVars>>

AddOpenHandler ==
  /\ ~crashed
  /\ lock = None
  /\ Goto("addopen", "listen")
  /\ hand' = NewChan
  /\ UNCHANGED <<netVars, readVars, pubVars, ctxVars, panicVars>>

(* listenContext starts the listener. *)
Listen ==
  /\ ~crashed
  /\ Goto("listen", "cap")
  /\ lpc' = [lpc EXCEPT ![connField] = "call"]
  /\ UNCHANGED <<netVars, lconn, lmsg, lock, token, hand, pubVars, ctxVars, panicVars>>

(* CAP REQ, PASS and NICK; a connection that is down is an error. *)
SendRequest(r, to) ==
  /\ ~crashed
  /\ Goto(r, to)
  /\ up[connField] = "up"
  /\ asked' = [asked EXCEPT ![connField] = @ \cup {r}]
  /\ UNCHANGED <<up, wire, chats, noise, readVars, hand, pubVars, ctxVars, panicVars>>

SendCap  == SendRequest("cap", "waitcap")
SendNick == SendRequest("nick", "waitauth")

SendFails ==
  /\ ~crashed
  /\ Goto("cap", "openfailed") \/ Goto("nick", "openfailed")
  /\ up[connField] # "up"
  /\ UNCHANGED <<netVars, readVars, hand, pubVars, ctxVars, panicVars>>

(* The loops of waitForCaps, waitForAuthentication and JoinContext end at  *)
(* the message they wait for and skip every other.  waitForAuthentication  *)
(* alone also ends at a failure.                                           *)
Answers == [waitcap  |-> [ack |-> "nick"],
            waitauth |-> [welcome |-> "opened", failed |-> "openfailed"],
            waitjoin |-> [joined |-> "joined"]]

WaitReceive ==
  /\ ~crashed
  /\ main \in DOMAIN Answers
  /\ hand.buf # <<>>
  /\ LET kind == Head(hand.buf).kind IN
       main' = IF kind \in DOMAIN Answers[main] THEN Answers[main][kind] ELSE main
  /\ hand' = [hand EXCEPT !.buf = Tail(@)]
  /\ UNCHANGED <<conns, connField, netVars, readVars, pubVars, ctxVars, panicVars>>

Cancelled == [waitcap |-> "opencancelled", waitauth |-> "opencancelled",
              waitjoin |-> "joincancelled"]

(* Receiving from the closed channel yields nil.  waitForAuthentication    *)
(* looks at ok and polls again; the other two dereference it.  What is     *)
(* deferred then is what is deferred when they are cancelled.              *)
WaitPanics ==
  /\ ~crashed
  /\ main \in {"waitcap", "waitjoin"}
  /\ hand.buf = <<>>
  /\ ~hand.open
  /\ main' = Cancelled[main]
  /\ Panics(None)
  /\ UNCHANGED <<conns, connField, netVars, readVars, hand, pubVars, ctxVars>>

ReplyCancelled ==
  /\ ~crashed
  /\ ctxDone
  /\ main \in DOMAIN Cancelled
  /\ main' = Cancelled[main]
  /\ UNCHANGED <<conns, connField, netVars, readVars, hand, pubVars, ctxVars, panicVars>>

(* Twenty seconds, thirty for JOIN, without the answer. *)
ReplyTimeout ==
  /\ ~crashed
  /\ main \in DOMAIN Cancelled
  /\ main' = IF main = "waitjoin" THEN "joinfailed" ELSE "openfailed"
  /\ UNCHANGED <<conns, connField, netVars, readVars, hand, pubVars, ctxVars, panicVars>>

(* The deferred removeHandlerInternal of OpenContext and JoinContext, and  *)
(* what handleChat does with the result: go on, retry, or return.  Only a  *)
(* successful OpenContext defers the Close.                                *)
RemoveHandler ==
  /\ ~crashed
  /\ lock = None
  /\ \/ Goto("opened", "addjoin")
     \/ Goto("openfailed", "open")
     \/ Goto("opencancelled", "returned")
     \/ Goto("joinfailed", "addjoin")
     \/ Goto("joincancelled", "close")
  /\ hand' = NoChan
  /\ UNCHANGED <<netVars, readVars, pubVars, ctxVars, panicVars>>

-----------------------------------------------------------------------------
(* JoinContext and the end of handleChat. *)

AddJoinHandler ==
  /\ ~crashed
  /\ lock = None
  /\ Goto("addjoin", "join")
  /\ hand' = NewChan
  /\ UNCHANGED <<netVars, readVars, pubVars, ctxVars, panicVars>>

(* The error of this send is ignored. *)
SendJoin ==
  /\ ~crashed
  /\ Goto("join", "waitjoin")
  /\ asked' = IF up[connField] = "up"
              THEN [asked EXCEPT ![connField] = @ \cup {"join"}]
              ELSE asked
  /\ UNCHANGED <<up, wire, chats, noise, readVars, hand, pubVars, ctxVars, panicVars>>

(* removeHandlerInternal, and again when JoinContext returns. *)
Joined ==
  /\ ~crashed
  /\ lock = None
  /\ Goto("joined", "leaving")
  /\ hand' = NoChan
  /\ UNCHANGED <<netVars, readVars, pubVars, ctxVars, panicVars>>

Leave ==
  /\ ~crashed
  /\ lock = None
  /\ Goto("leaving", "idle")
  /\ hand' = NoChan
  /\ UNCHANGED <<netVars, readVars, pubVars, ctxVars, panicVars>>

ServiceDone ==
  /\ ~crashed
  /\ ctxDone
  /\ Goto("idle", "close")
  /\ UNCHANGED <<netVars, readVars, hand, pubVars, ctxVars, panicVars>>

(* Close: the field is nil while the listener may still use it. *)
CloseConn ==
  /\ ~crashed
  /\ main = "close"
  /\ Shut(connField)
  /\ connField' = None
  /\ main' = "waitdone"
  /\ UNCHANGED <<conns, chats, noise, readVars, hand, pubVars, ctxVars, panicVars>>

(* The close handshake fails: Close returns before it waits. *)
CloseConnFails ==
  /\ ~crashed
  /\ Goto("close", "returned")
  /\ Shut(connField)
  /\ UNCHANGED <<chats, noise, readVars, hand, pubVars, ctxVars, panicVars>>

CloseWaits ==
  /\ ~crashed
  /\ token > 0
  /\ token' = token - 1
  /\ Goto("waitdone", "returned")
  /\ UNCHANGED <<netVars, lpc, lconn, lmsg, lock, hand, pubVars, ctxVars, panicVars>>

CloseTimeout ==
  /\ ~crashed
  /\ Goto("waitdone", "returned")
  /\ UNCHANGED <<netVars, readVars, hand, pubVars, ctxVars, panicVars>>

-----------------------------------------------------------------------------
(* The listener of listenContext. *)

(* c.conn.Read evaluates the field c.conn. *)
ReadCall(k) ==
  /\ ~crashed
  /\ lpc[k] = "call"
  /\ connField # None
  /\ lconn' = [lconn EXCEPT ![k] = connField]
  /\ lpc' = [lpc EXCEPT ![k] = "read"]
  /\ UNCHANGED <<mainVars, netVars, lmsg, lock, token, hand, pubVars, ctxVars, panicVars>>

ReadCallPanics(k) ==
  /\ ~crashed
  /\ lpc[k] = "call"
  /\ connField = None
  /\ Panics(k)
  /\ lpc' = [lpc EXCEPT ![k] = "exit"]
  /\ UNCHANGED <<mainVars, netVars, lconn, lmsg, lock, token, hand, pubVars, ctxVars>>

ReadMessage(k) ==
  /\ ~crashed
  /\ lpc[k] = "read"
  /\ up[lconn[k]] # "closed"
  /\ wire[lconn[k]] # <<>>
  /\ lmsg' = [lmsg EXCEPT ![k] = Head(wire[lconn[k]])]
  /\ wire' = [wire EXCEPT ![lconn[k]] = Tail(@)]
  /\ lconn' = [lconn EXCEPT ![k] = None]
  /\ lpc' = [lpc EXCEPT ![k] = "handle"]
  /\ UNCHANGED <<mainVars, up, asked, chats, noise, lock, token, hand, pubVars, ctxVars,
                 panicVars>>

(* A cancelled context closes the connection it is used to read. *)
ReadFails(k) ==
  /\ ~crashed
  /\ lpc[k] = "read"
  /\ \/ ctxDone
     \/ up[lconn[k]] = "closed"
     \/ up[lconn[k]] = "dropped" /\ wire[lconn[k]] = <<>>
  /\ Shut(lconn[k])
  /\ lconn' = [lconn EXCEPT ![k] = None]
  /\ lpc' = [lpc EXCEPT ![k] = "exit"]
  /\ UNCHANGED <<mainVars, chats, noise, lmsg, lock, token, hand, pubVars,
                 ctxVars, panicVars>>

(* keepGoing: a message read after the cancellation is dropped. *)
Discard(k) ==
  /\ ~crashed
  /\ lpc[k] = "handle"
  /\ ctxDone
  /\ lmsg' = [lmsg EXCEPT ![k] = NoMsg]
  /\ lpc' = [lpc EXCEPT ![k] = "call"]
  /\ UNCHANGED <<mainVars, netVars, lconn, lock, token, hand, pubVars, ctxVars, panicVars>>

(* PONG goes to the field c.conn; an error ends the listener, and so does  *)
(* the notice about badly formatted credentials.                           *)
AnswerPing(k) ==
  /\ ~crashed
  /\ lpc[k] = "handle"
  /\ lmsg[k].kind = "ping"
  /\ connField # None
  /\ lmsg' = [lmsg EXCEPT ![k] = NoMsg]
  /\ lpc' = [lpc EXCEPT ![k] = IF up[connField] = "up" THEN "call" ELSE "exit"]
  /\ UNCHANGED <<mainVars, netVars, lconn, lock, token, hand, pubVars, ctxVars, panicVars>>

AnswerPingPanics(k) ==
  /\ ~crashed
  /\ lpc[k] = "handle"
  /\ lmsg[k].kind = "ping"
  /\ connField = None
  /\ Panics(k)
  /\ lmsg' = [lmsg EXCEPT ![k] = NoMsg]
  /\ lpc' = [lpc EXCEPT ![k] = "exit"]
  /\ UNCHANGED <<mainVars, netVars, lconn, lock, token, hand, pubVars, ctxVars>>

Improper(k) ==
  /\ ~crashed
  /\ lpc[k] = "handle"
  /\ lmsg[k].kind = "improper"
  /\ lmsg' = [lmsg EXCEPT ![k] = NoMsg]
  /\ lpc' = [lpc EXCEPT ![k] = "exit"]
  /\ UNCHANGED <<mainVars, netVars, lconn, lock, token, hand, pubVars, ctxVars, panicVars>>

DeliverLock(k) ==
  /\ ~crashed
  /\ lpc[k] = "handle"
  /\ lmsg[k].kind \notin {"ping", "improper"}
  /\ lock = None
  /\ lock' = k
  /\ lpc' = [lpc EXCEPT ![k] = "internal"]
  /\ UNCHANGED <<mainVars, netVars, lconn, lmsg, token, hand, pubVars, ctxVars, panicVars>>

(* The last of the channels has the message: unlock, and read again. *)
Delivered(k) ==
  /\ lock' = None
  /\ lmsg' = [lmsg EXCEPT ![k] = NoMsg]
  /\ lpc' = [lpc EXCEPT ![k] = "call"]

(* c <- msg under handlerMtx: the send blocks while the channel is full. *)
DeliverInternal(k) ==
  /\ ~crashed
  /\ lpc[k] = "internal"
  /\ IF hand.reg
     THEN /\ hand.open
          /\ Len(hand.buf) < HandCap
          /\ hand' = [hand EXCEPT !.buf = Append(@, lmsg[k])]
     ELSE hand' = hand
  /\ IF lmsg[k].kind = "chat"
     THEN lpc' = [lpc EXCEPT ![k] = "public"] /\ UNCHANGED <<lock, lmsg>>
     ELSE Delivered(k)
  /\ UNCHANGED <<mainVars, netVars, lconn, token, pubVars, ctxVars, panicVars>>

DeliverPublic(k) ==
  /\ ~crashed
  /\ lpc[k] = "public"
  /\ IF pub.reg
     THEN /\ pub.open
          /\ Len(pub.buf) < HandCap
          /\ pub' = [pub EXCEPT !.buf = Append(@, lmsg[k])]
     ELSE pub' = pub
  /\ Delivered(k)
  /\ UNCHANGED <<mainVars, netVars, lconn, token, hand, hpc, hmsg, published, ctxVars,
                 panicVars>>

(* A send on a closed channel.  The unlock is no deferred call: the        *)
(* listener goes to its deferred calls with handlerMtx locked.             *)
DeliverPanics(k) ==
  /\ ~crashed
  /\ \/ lpc[k] = "internal" /\ hand.reg /\ ~hand.open
     \/ lpc[k] = "public" /\ pub.reg /\ ~pub.open
  /\ Panics(k)
  /\ lmsg' = [lmsg EXCEPT ![k] = NoMsg]
  /\ lpc' = [lpc EXCEPT ![k] = "exit"]
  /\ UNCHANGED <<mainVars, netVars, lconn, lock, token, hand, pubVars, ctxVars>>

(* The first deferred call of the listener, after a panic or not: every    *)
(* registered channel is closed, under the lock.                           *)
ListenerClose(k) ==
  /\ ~crashed
  /\ lpc[k] = "exit"
  /\ lock = None
  /\ hand.reg => hand.open
  /\ pub.reg => pub.open
  /\ hand' = CloseChan(hand)
  /\ pub' = CloseChan(pub)
  /\ lpc' = [lpc EXCEPT ![k] = "signal"]
  /\ UNCHANGED <<mainVars, netVars, lconn, lmsg, lock, token, hpc, hmsg, published,
                 ctxVars, panicVars>>

(* close of a closed channel, that of OnMessage or, after it, the internal *)
(* one.  The unlock is deferred here, and so is the signal.                *)
ListenerClosePanics(k) ==
  /\ ~crashed
  /\ lpc[k] = "exit"
  /\ lock = None
  /\ (hand.reg /\ ~hand.open) \/ (pub.reg /\ ~pub.open)
  /\ pub' = CloseChan(pub)
  /\ Panics(k)
  /\ lpc' = [lpc EXCEPT ![k] = "signal"]
  /\ UNCHANGED <<mainVars, netVars, lconn, lmsg, lock, token, hand, hpc, hmsg, published,
                 ctxVars>>

(* The last deferred call: doneListening <- struct{}{} blocks while an     *)
(* earlier token is there.                                                 *)
Signal(k) ==
  /\ ~crashed
  /\ lpc[k] = "signal"
  /\ token = 0
  /\ token' = 1
  /\ lpc' = [lpc EXCEPT ![k] = "gone"]
  /\ UNCHANGED <<mainVars, netVars, lconn, lmsg, lock, hand, pubVars, ctxVars, panicVars>>

(* A goroutine that panicked has run its deferred calls, and the process   *)
(* ends.                                                                   *)
Dies ==
  /\ ~crashed
  /\ \/ None \in unwinding /\ main = "returned"
     \/ \E k \in unwinding \cap Conns : lpc[k] = "gone"
  /\ crashed' = TRUE
  /\ UNCHANGED <<mainVars, netVars, readVars, hand, pubVars, ctxVars, unwinding>>

-----------------------------------------------------------------------------
(* The goroutine of OnMessage, with the handler of handleChat.  Messages   *)
(* that do not start with the command prefix are left out of the model.    *)

HandlerTake ==
  /\ ~crashed
  /\ hpc = "range"
  /\ pub.buf # <<>>
  /\ hmsg' = Head(pub.buf).id
  /\ pub' = [pub EXCEPT !.buf = Tail(@)]
  /\ hpc' = "publish"
  /\ UNCHANGED <<mainVars, netVars, readVars, hand, published, ctxVars, panicVars>>

HandlerPublish ==
  /\ ~crashed
  /\ hpc = "publish"
  /\ ~brokerStuck
  /\ published' = Append(published, hmsg)
  /\ hmsg' = 0
  /\ hpc' = "range"
  /\ UNCHANGED <<mainVars, netVars, readVars, hand, pub, ctxVars, panicVars>>

(* range over the closed channel ends once it is drained. *)
HandlerEnd ==
  /\ ~crashed
  /\ hpc = "range"
  /\ pub.buf = <<>>
  /\ ~pub.open
  /\ hpc' = "remove"
  /\ UNCHANGED <<mainVars, netVars, readVars, hand, pub, hmsg, published, ctxVars, panicVars>>

HandlerRemove ==
  /\ ~crashed
  /\ hpc = "remove"
  /\ lock = None
  /\ pub' = NoChan
  /\ hpc' = "gone"
  /\ UNCHANGED <<mainVars, netVars, readVars, hand, hmsg, published, ctxVars, panicVars>>

-----------------------------------------------------------------------------
(* Twitch's server, the rest of the connector, and the shutdown. *)

Carries(k) == up[k] = "up" /\ Len(wire[k]) < WireCap

ServerReplies(k) ==
  /\ ~crashed
  /\ Carries(k)
  /\ \E r \in asked[k] \cap DOMAIN Reply : \E a \in Reply[r] :
       /\ wire' = [wire EXCEPT ![k] = Append(@, Msg(a))]
       /\ asked' = [asked EXCEPT ![k] = (@ \ {r}) \cup (IF r = "join" THEN {"member"} ELSE {})]
  /\ UNCHANGED <<mainVars, up, chats, noise, readVars, hand, pubVars, ctxVars, panicVars>>

ServerChats(k) ==
  /\ ~crashed
  /\ Carries(k)
  /\ "member" \in asked[k]
  /\ chats < MaxChats /\ chats + noise < MaxSent
  /\ chats' = chats + 1
  /\ wire' = [wire EXCEPT ![k] = Append(@, Chat(chats + 1))]
  /\ UNCHANGED <<mainVars, up, asked, noise, readVars, hand, pubVars, ctxVars, panicVars>>

ServerNoise(k) ==
  /\ ~crashed
  /\ Carries(k)
  /\ noise < MaxNoise /\ chats + noise < MaxSent
  /\ noise' = noise + 1
  /\ \E a \in {"ping", "system"} : wire' = [wire EXCEPT ![k] = Append(@, Msg(a))]
  /\ UNCHANGED <<mainVars, up, asked, chats, readVars, hand, pubVars, ctxVars, panicVars>>

ServerDrops(k) ==
  /\ ~crashed
  /\ "drop" \in Faults
  /\ up[k] = "up"
  /\ up' = [up EXCEPT ![k] = "dropped"]
  /\ asked' = [asked EXCEPT ![k] = {}]
  /\ UNCHANGED <<mainVars, wire, chats, noise, readVars, hand, pubVars, ctxVars, panicVars>>

(* dataBroker.Run returned or is wedged: Publish blocks for ever. *)
BrokerSticks ==
  /\ ~crashed
  /\ "broker" \in Faults
  /\ ~brokerStuck
  /\ brokerStuck' = TRUE
  /\ UNCHANGED <<mainVars, netVars, readVars, hand, pubVars, ctxDone, panicVars>>

Cancel ==
  /\ ~crashed
  /\ "cancel" \in Faults
  /\ ~ctxDone
  /\ ctxDone' = TRUE
  /\ UNCHANGED <<mainVars, netVars, readVars, hand, pubVars, brokerStuck, panicVars>>

-----------------------------------------------------------------------------
Init ==
  /\ ctxDone = FALSE
  /\ brokerStuck = FALSE
  /\ main = "validate"
  /\ conns = 0
  /\ connField = None
  /\ up = [k \in Conns |-> "new"]
  /\ wire = [k \in Conns |-> <<>>]
  /\ asked = [k \in Conns |-> {}]
  /\ chats = 0
  /\ noise = 0
  /\ lpc = [k \in Conns |-> "off"]
  /\ lconn = [k \in Conns |-> None]
  /\ lmsg = [k \in Conns |-> NoMsg]
  /\ lock = None
  /\ hand = NoChan
  /\ pub = NoChan
  /\ hpc = "off"
  /\ hmsg = 0
  /\ published = <<>>
  /\ token = 0
  /\ unwinding = {}
  /\ crashed = FALSE

Validate == Validated \/ ValidateFails

OpenContext ==
  \/ ResetHandlers \/ CloseOld
  \/ Dial \/ DialFails \/ DialCancelled
  \/ AddOpenHandler \/ Listen
  \/ SendCap \/ SendNick \/ SendFails

WaitForReply == WaitReceive \/ WaitPanics \/ ReplyCancelled \/ ReplyTimeout

JoinAndClose ==
  \/ RemoveHandler
  \/ AddJoinHandler \/ SendJoin \/ Joined \/ Leave
  \/ ServiceDone
  \/ CloseConn \/ CloseConnFails \/ CloseWaits \/ CloseTimeout

ListenerStep(k) ==
  \/ ReadCall(k) \/ ReadCallPanics(k)
  \/ ReadMessage(k) \/ ReadFails(k)
  \/ Discard(k) \/ AnswerPing(k) \/ AnswerPingPanics(k) \/ Improper(k)
  \/ DeliverLock(k) \/ DeliverInternal(k) \/ DeliverPublic(k) \/ DeliverPanics(k)
  \/ ListenerClose(k) \/ ListenerClosePanics(k)
  \/ Signal(k)

HandlerStep == HandlerTake \/ HandlerPublish \/ HandlerEnd \/ HandlerRemove

Server(k) == ServerReplies(k) \/ ServerChats(k) \/ ServerNoise(k) \/ ServerDrops(k)

Next ==
  \/ Validate
  \/ OpenContext
  \/ WaitForReply
  \/ JoinAndClose
  \/ \E k \in Conns : ListenerStep(k) \/ Server(k)
  \/ HandlerStep
  \/ Dies
  \/ BrokerSticks
  \/ Cancel

Spec == Init /\ [][Next]_vars

(***************************************************************************)
(* Goroutines keep running and timers fire.  A select whose context is     *)
(* done each time it is reached does not take its timer, thirty seconds    *)
(* away, for ever.  Nothing makes the server answer, the first validation  *)
(* included, or the network fail.                                          *)
(***************************************************************************)
Fairness ==
  /\ WF_vars(OpenContext \/ WaitForReply \/ JoinAndClose)
  /\ SF_vars(ReplyCancelled)
  /\ \A k \in Conns : WF_vars(ListenerStep(k))
  /\ WF_vars(HandlerStep)
  /\ WF_vars(Dies)

FairSpec == Spec /\ Fairness

-----------------------------------------------------------------------------
(* Properties. *)

MainStates == {"validate", "open", "closeold", "dial", "addopen", "listen", "cap", "nick", "opened",
               "openfailed", "opencancelled", "addjoin", "join", "joined", "joinfailed",
               "joincancelled", "leaving", "idle", "close", "waitdone", "returned"}
                 \cup DOMAIN Answers
Kinds == {"none", "ping", "system", "ack", "welcome", "failed", "improper", "joined"}
Messages == [kind : {"chat"}, id : 1..MaxChats] \cup [kind : Kinds, id : {0}]
IsChan(ch) ==
  /\ ch \in [buf : Seq(Messages), reg : BOOLEAN, open : BOOLEAN]
  /\ Len(ch.buf) <= HandCap

(* Every variable has its type and every channel respects its capacity. *)
TypeOK ==
  /\ {ctxDone, brokerStuck, crashed} \subseteq BOOLEAN
  /\ unwinding \subseteq Conns \cup {None}
  /\ main \in MainStates
  /\ conns \in 0..MaxConns /\ connField \in 0..conns
  /\ up \in [Conns -> {"new", "up", "dropped", "closed"}]
  /\ wire \in [Conns -> Seq(Messages)]
  /\ asked \in [Conns -> SUBSET {"cap", "nick", "join", "member"}]
  /\ chats \in 0..MaxChats /\ noise \in 0..MaxNoise
  /\ lpc \in [Conns -> {"off", "call", "read", "handle", "internal", "public",
                       "exit", "signal", "gone"}]
  /\ lconn \in [Conns -> 0..conns]
  /\ lmsg \in [Conns -> Messages]
  /\ lock \in 0..conns
  /\ IsChan(hand) /\ IsChan(pub)
  /\ hpc \in {"off", "range", "publish", "remove", "gone"}
  /\ hmsg \in 0..MaxChats
  /\ published \in Seq(1..MaxChats)
  /\ token \in {0, 1}

(* No chat message is published twice, whatever reconnects and however     *)
(* many listeners read the same connection; and as long as the first       *)
(* connection is the only one, messages keep the order of the channel.     *)
ChatOnceInOrder ==
  \A i, j \in DOMAIN published :
    i < j => /\ published[i] # published[j]
             /\ conns <= 1 => published[i] < published[j]

(* A listener panics only because another listener ended before it and     *)
(* closed the channel it sends to or closes, or because Close has cleared  *)
(* the connection it reads or answers on; the service goroutine only       *)
(* because a listener ended while it waited.  In particular nothing panics *)
(* before a first connection has been lost or closed.                      *)
PanicsExplained ==
  /\ None \in unwinding => \E j \in Conns : lpc[j] \in {"signal", "gone"}
  /\ \A k \in unwinding \cap Conns :
       \/ \E j \in Conns \ {k} : lpc[j] \in {"signal", "gone"}
       \/ main \in {"waitdone", "returned"}

(* A listener blocked on a full internal channel whose owner waits for the *)
(* lock the listener holds.                                                *)
LockCycle ==
  /\ lock # None
  /\ lpc[lock] = "internal"
  /\ hand.reg /\ hand.open
  /\ Len(hand.buf) = HandCap
  /\ main \in {"opened", "openfailed", "opencancelled", "joined", "joinfailed", "joincancelled"}

(* A listener that panicked in a send: its deferred call waits for the     *)
(* lock it holds itself.                                                   *)
SelfLocked == lock # None /\ lpc[lock] = "exit"

(* A listener blocked on the channel of an OnMessage goroutine that is     *)
(* blocked in Publish.                                                     *)
BrokerBlocks ==
  /\ lock # None
  /\ lpc[lock] = "public"
  /\ pub.open
  /\ Len(pub.buf) = HandCap
  /\ hpc = "publish"
  /\ brokerStuck

(* A goroutine that has its answer but waits for handlerMtx while its full *)
(* channel blocks the lock's holder never gets on, and neither does a      *)
(* listener that waits for itself: no timeout, no shutdown, no server and  *)
(* no panic of another goroutine ends either.                              *)
LockCycleIsForever ==
  [][(LockCycle => LockCycle') /\ (SelfLocked => SelfLocked')]_vars

(* After the cancellation handleChat returns or the process ends, unless   *)
(* handlerMtx is held for ever in one of the three ways, or Twitch has not *)
(* answered the first validation.                                          *)
ShutdownCompletes ==
  ctxDone ~> \/ main \in {"validate", "returned"}
             \/ crashed
             \/ LockCycle \/ SelfLocked \/ BrokerBlocks

(* A listener that cannot send PONG ends without reading what is left. *)
Unread(k) == lpc[k] \in {"exit", "signal", "gone"} /\ wire[k] # <<>>

(* Every chat message sent to the first connection is published in the     *)
(* end, even when the connection drops right after it, unless the service  *)
(* stops first, a PONG fails before it, or a lock cycle or a broker that   *)
(* does not return stops the delivery.                                     *)
ChatDelivered ==
  []<>(\/ \A n \in 1..chats : \E i \in DOMAIN published : published[i] = n
       \/ conns > 1 \/ Unread(1) \/ ctxDone \/ unwinding # {} \/ brokerStuck
       \/ LockCycle)

(* README.md:47 "enables listening to chat messages": once the channel is  *)
(* joined on a live connection, its chat messages reach the handler.       *)
JoinedIsHeard ==
  (main = "idle" /\ ~ctxDone /\ up[connField] = "up") => (pub.reg /\ pub.open)
=============================================================================
