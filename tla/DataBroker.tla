----------------------------- MODULE DataBroker -----------------------------
(***************************************************************************)
(* The connector's event broker and its pipe clients                       *)
(* (cmd/twitch-integration-connector/broker.go and pipeclient.go).         *)
(*                                                                         *)
(* Publishers (chat, pubsub and StreamElements handlers) put events into   *)
(* one buffered channel; the goroutine running dataBroker.Run fans every   *)
(* event out to the channel of every registered client with a BLOCKING     *)
(* send; one goroutine per pipe connection drains its channel into the     *)
(* named pipe.  Registration and removal are rendezvous with Run's select, *)
(* so they cannot happen while Run is inside a fan-out.                    *)
(*                                                                         *)
(* A "client" is one pipe connection: when the game DLL redials it is a    *)
(* new client with a new channel.                                          *)
(***************************************************************************)
EXTENDS Naturals, Sequences, FiniteSets

CONSTANTS
  Clients,       \* pipe connections
  Publishers,    \* goroutines that call dataBroker.Publish
  Events,        \* serialised event envelopes
  NoEvent,       \* "nothing to write" / "nothing to publish"
  Ping,          \* the {"type":"ping"} frame of handlePipeClient
  NoClient,      \* Run is not sending to any client
  EventCap,      \* capacity of dataBroker.events  (1 in the code)
  StreamCap,     \* capacity of a client's channel (10 in the code)
  MaxPublished   \* bound on the number of Publish calls

ASSUME BrokerAssumption ==
  /\ EventCap \in Nat \ {0}
  /\ StreamCap \in Nat \ {0}
  /\ MaxPublished \in Nat
  /\ NoEvent \notin Events
  /\ Ping \notin Events
  /\ Ping # NoEvent
  /\ NoClient \notin Clients

VARIABLES
  ctxDone,    \* the service context is cancelled
  listening,  \* the pipe listener is open
  events,     \* contents of the channel dataBroker.events
  clients,    \* the map dataBroker.clients, as the set of its keys
  bpc,        \* where the goroutine of Run is
  todo,       \* clients the current fan-out has not reached yet
  cur,        \* the client whose channel Run is sending to
  cpc,        \* where each client goroutine is
  stream,     \* contents of each client's channel eventStream
  cmsg,       \* what each client goroutine is writing to its pipe
  pmsg,       \* the event each publisher is blocked in Publish with
  published,  \* number of Publish calls so far
  log,        \* history: events taken by Run, in order
  join,       \* history: Len(log) when the client was registered
  written     \* history: events completely written to the client's pipe

brokerVars == <<events, clients, bpc, todo, cur>>
clientVars == <<cpc, stream, cmsg, join, written>>
pubVars    == <<pmsg, published>>
ctxVars    == <<ctxDone, listening>>
vars       == <<brokerVars, clientVars, pubVars, ctxVars, log>>

-----------------------------------------------------------------------------
(* Broken variants of operations below, never part of Next: each is a slip *)
(* the code could contain, and shows that some property notices it.        *)

(* RunSend as "select { case c <- evt: default: }": a full channel drops. *)
RunSendDropping(c) ==
  /\ cur = c
  /\ stream' = IF Len(stream[c]) < StreamCap
               THEN [stream EXCEPT ![c] = Append(@, log[Len(log)])]
               ELSE stream
  /\ cur' = NoClient
  /\ UNCHANGED <<events, clients, bpc, todo, cpc, cmsg, join, written, pubVars,
                 ctxVars, log>>

(* RunSend into a channel without a bound. *)
RunSendUnbounded(c) ==
  /\ cur = c
  /\ stream' = [stream EXCEPT ![c] = Append(@, log[Len(log)])]
  /\ cur' = NoClient
  /\ UNCHANGED <<events, clients, bpc, todo, cpc, cmsg, join, written, pubVars,
                 ctxVars, log>>

(* RunPick that forgets which clients it has visited. *)
RunPickRepeating(c) ==
  /\ bpc = "fanout"
  /\ cur = NoClient
  /\ c \in todo
  /\ cur' = c
  /\ UNCHANGED <<events, clients, bpc, todo, clientVars, pubVars, ctxVars, log>>

(* Remove deletes from the map itself instead of asking Run to do it. *)
RunRemoveUnsynchronised(c) ==
  /\ cpc[c] = "remove"
  /\ clients' = clients \ {c}
  /\ cpc' = [cpc EXCEPT ![c] = "gone"]
  /\ UNCHANGED <<events, bpc, todo, cur, stream, cmsg, join, written, pubVars,
                 ctxVars, log>>

(* The deferred Remove is missing on the write error path. *)
WriteFailWithoutRemove(c) ==
  /\ cpc[c] = "write"
  /\ cpc' = [cpc EXCEPT ![c] = "gone"]
  /\ UNCHANGED <<brokerVars, stream, cmsg, join, written, pubVars, ctxVars, log>>

-----------------------------------------------------------------------------
(* Publish blocks while the channel is full; nothing else ends the call.   *)

PublishCall(p, e) ==
  /\ pmsg[p] = NoEvent
  /\ published < MaxPublished
  /\ pmsg' = [pmsg EXCEPT ![p] = e]
  /\ published' = published + 1
  /\ UNCHANGED <<brokerVars, clientVars, ctxVars, log>>

PublishSend(p) ==
  /\ pmsg[p] # NoEvent
  /\ Len(events) < EventCap
  /\ events' = Append(events, pmsg[p])
  /\ pmsg' = [pmsg EXCEPT ![p] = NoEvent]
  /\ UNCHANGED <<clients, bpc, todo, cur, clientVars, published, ctxVars, log>>

-----------------------------------------------------------------------------
(* dataBroker.Run: the four cases of the select, then the fan-out loop.    *)

RunRemove(c) ==
  /\ bpc = "select"
  /\ cpc[c] = "remove"
  /\ clients' = clients \ {c}
  /\ cpc' = [cpc EXCEPT ![c] = "gone"]
  /\ UNCHANGED <<events, bpc, todo, cur, stream, cmsg, join, written, pubVars,
                 ctxVars, log>>

RunAdd(c) ==
  /\ bpc = "select"
  /\ cpc[c] = "add"
  /\ clients' = clients \cup {c}
  /\ cpc' = [cpc EXCEPT ![c] = "loop"]
  /\ join' = [join EXCEPT ![c] = Len(log)]
  /\ UNCHANGED <<events, bpc, todo, cur, stream, cmsg, written, pubVars,
                 ctxVars, log>>

RunStop ==
  /\ bpc = "select"
  /\ ctxDone
  /\ bpc' = "returned"
  /\ UNCHANGED <<events, clients, todo, cur, clientVars, pubVars, ctxVars, log>>

RunTake ==
  /\ bpc = "select"
  /\ events # <<>>
  /\ log' = Append(log, Head(events))
  /\ events' = Tail(events)
  /\ todo' = clients
  /\ bpc' = "fanout"
  /\ UNCHANGED <<clients, cur, clientVars, pubVars, ctxVars>>

(* The event of the current fan-out: the loop variable evt of Run. *)
evt == log[Len(log)]

(* Map iteration order is unspecified: any client not visited yet is next. *)
RunPick(c) ==
  /\ bpc = "fanout"
  /\ cur = NoClient
  /\ c \in todo
  /\ cur' = c
  /\ todo' = todo \ {c}
  /\ UNCHANGED <<events, clients, bpc, clientVars, pubVars, ctxVars, log>>

(* c <- evt: once a client is picked Run waits for that client alone. *)
RunSend(c) ==
  /\ cur = c
  /\ Len(stream[c]) < StreamCap
  /\ stream' = [stream EXCEPT ![c] = Append(@, evt)]
  /\ cur' = NoClient
  /\ UNCHANGED <<events, clients, bpc, todo, cpc, cmsg, join, written, pubVars,
                 ctxVars, log>>

RunFanoutDone ==
  /\ bpc = "fanout"
  /\ cur = NoClient
  /\ todo = {}
  /\ bpc' = "select"
  /\ UNCHANGED <<events, clients, todo, cur, clientVars, pubVars, ctxVars, log>>

-----------------------------------------------------------------------------
(* handlePipeClients and handlePipeClient.                                 *)

(* Accept returns a connection; its goroutine calls broker.Add. *)
Accept(c) ==
  /\ listening
  /\ cpc[c] = "new"
  /\ cpc' = [cpc EXCEPT ![c] = "add"]
  /\ UNCHANGED <<brokerVars, stream, cmsg, join, written, pubVars, ctxVars, log>>

(* case <-ctx.Done(): return, and the deferred Remove starts waiting. *)
ClientDone(c) ==
  /\ cpc[c] = "loop"
  /\ ctxDone
  /\ cpc' = [cpc EXCEPT ![c] = "remove"]
  /\ UNCHANGED <<brokerVars, stream, cmsg, join, written, pubVars, ctxVars, log>>

(* case e := <-events: start writing e. *)
ClientTake(c) ==
  /\ cpc[c] = "loop"
  /\ stream[c] # <<>>
  /\ cmsg' = [cmsg EXCEPT ![c] = Head(stream[c])]
  /\ stream' = [stream EXCEPT ![c] = Tail(@)]
  /\ cpc' = [cpc EXCEPT ![c] = "write"]
  /\ UNCHANGED <<brokerVars, join, written, pubVars, ctxVars, log>>

(* case <-ticker.C: five seconds without an event. *)
ClientTick(c) ==
  /\ cpc[c] = "loop"
  /\ cmsg' = [cmsg EXCEPT ![c] = Ping]
  /\ cpc' = [cpc EXCEPT ![c] = "write"]
  /\ UNCHANGED <<brokerVars, stream, join, written, pubVars, ctxVars, log>>

(* writeLenPrefixed returned nil. *)
WriteDone(c) ==
  /\ cpc[c] = "write"
  /\ cpc' = [cpc EXCEPT ![c] = "loop"]
  /\ cmsg' = [cmsg EXCEPT ![c] = NoEvent]
  /\ written' = IF cmsg[c] = Ping
                THEN written
                ELSE [written EXCEPT ![c] = Append(@, cmsg[c])]
  /\ UNCHANGED <<brokerVars, stream, join, pubVars, ctxVars, log>>

(* writeLenPrefixed returned an error: the frame is lost with the pipe. *)
WriteFail(c) ==
  /\ cpc[c] = "write"
  /\ cpc' = [cpc EXCEPT ![c] = "remove"]
  /\ UNCHANGED <<brokerVars, stream, cmsg, join, written, pubVars, ctxVars, log>>

-----------------------------------------------------------------------------
(* Shutdown: serviceManager.Stop cancels the context, the "pipelistener    *)
(* stopping routine" closes the listener.                                  *)

Cancel ==
  /\ ~ctxDone
  /\ ctxDone' = TRUE
  /\ UNCHANGED <<brokerVars, clientVars, pubVars, listening, log>>

CloseListener ==
  /\ ctxDone
  /\ listening
  /\ listening' = FALSE
  /\ UNCHANGED <<brokerVars, clientVars, pubVars, ctxDone, log>>

-----------------------------------------------------------------------------
Init ==
  /\ ctxDone = FALSE
  /\ listening = TRUE
  /\ events = <<>>
  /\ clients = {}
  /\ bpc = "select"
  /\ todo = {}
  /\ cur = NoClient
  /\ cpc = [c \in Clients |-> "new"]
  /\ stream = [c \in Clients |-> <<>>]
  /\ cmsg = [c \in Clients |-> NoEvent]
  /\ pmsg = [p \in Publishers |-> NoEvent]
  /\ published = 0
  /\ log = <<>>
  /\ join = [c \in Clients |-> 0]
  /\ written = [c \in Clients |-> <<>>]

PublisherStep(p) == (\E e \in Events : PublishCall(p, e)) \/ PublishSend(p)

RunStep ==
  \/ RunStop
  \/ RunTake
  \/ RunFanoutDone
  \/ \E c \in Clients : RunRemove(c) \/ RunAdd(c) \/ RunPick(c) \/ RunSend(c)

ClientStep(c) ==
  \/ Accept(c)
  \/ ClientDone(c)
  \/ ClientTake(c)
  \/ ClientTick(c)
  \/ WriteDone(c)
  \/ WriteFail(c)

Next ==
  \/ \E p \in Publishers : PublisherStep(p)
  \/ RunStep
  \/ \E c \in Clients : ClientStep(c)
  \/ Cancel
  \/ CloseListener

Spec == Init /\ [][Next]_vars

(***************************************************************************)
(* Goroutines keep running, and Go's select chooses uniformly among its    *)
(* ready cases, so a case that is ready again and again is taken.  A pipe  *)
(* write ends, one way or the other: the DLL reads in a loop, and a closed *)
(* pipe is an error.  Nothing forces a publish, a connection, a tick, a    *)
(* failure or a shutdown.  Fairness is the part of this that the liveness  *)
(* properties need.                                                        *)
(***************************************************************************)
Fairness ==
  /\ SF_vars(RunStop)
  /\ WF_vars(RunFanoutDone)
  /\ WF_vars(\E c \in Clients : RunPick(c) \/ RunSend(c))
  /\ \A c \in Clients :
       /\ SF_vars(ClientTake(c))
       /\ WF_vars(WriteDone(c) \/ WriteFail(c))

FairSpec == Spec /\ Fairness

-----------------------------------------------------------------------------
(* Properties.                                                             *)

ClientStates == {"new", "add", "loop", "write", "remove", "gone"}

(* Every variable has its type and every channel respects its capacity. *)
TypeOK ==
  /\ ctxDone \in BOOLEAN
  /\ listening \in BOOLEAN
  /\ events \in Seq(Events) /\ Len(events) <= EventCap
  /\ clients \subseteq Clients
  /\ bpc \in {"select", "fanout", "returned"}
  /\ todo \subseteq Clients
  /\ cur \in Clients \cup {NoClient}
  /\ cpc \in [Clients -> ClientStates]
  /\ stream \in [Clients -> Seq(Events)]
  /\ \A c \in Clients : Len(stream[c]) <= StreamCap
  /\ cmsg \in [Clients -> Events \cup {Ping, NoEvent}]
  /\ pmsg \in [Publishers -> Events \cup {NoEvent}]
  /\ published \in 0..MaxPublished
  /\ log \in Seq(Events)
  /\ join \in [Clients -> Nat]
  /\ written \in [Clients -> Seq(Events)]

(* Run only ever sends to a channel whose goroutine has not been told that *)
(* it is removed: the map and the goroutines agree at every step, and the  *)
(* clients of a fan-out stay registered until it is over.                  *)
RegistrationAgrees ==
  /\ \A c \in Clients :
       c \in clients <=> cpc[c] \in {"loop", "write", "remove"}
  /\ todo \subseteq clients
  /\ cur # NoClient => cur \in clients
  /\ bpc # "fanout" => todo = {} /\ cur = NoClient

(* A client's goroutine holds an event it has taken but not yet written. *)
InFlight(c) == IF cmsg[c] \in Events THEN 1 ELSE 0

(* How many events of the log have been handed to the client. *)
Handed(c) == Len(written[c]) + InFlight(c) + Len(stream[c])

(* The current fan-out has not delivered its event to the client yet. *)
Owed(c) == IF c \in todo \cup {cur} THEN 1 ELSE 0

(* The account of one client: what it was handed and is owed is the log. *)
Accounted(c) ==
  /\ c \in clients => join[c] + Handed(c) + Owed(c) = Len(log)
  /\ join[c] + Handed(c) <= Len(log)
  /\ cpc[c] \in {"new", "add"} => Handed(c) = 0

(* Conservation: every event published is with the publisher that waits in *)
(* Publish, in the channel, or in the log, and between the log and a       *)
(* registered client nothing is lost or duplicated either: every event     *)
(* taken since it joined is written, in its goroutine's hands, in its      *)
(* channel, or the one the current fan-out still owes it; a client that is *)
(* not registered yet has been handed nothing.                             *)
Waiting          == {p \in Publishers : pmsg[p] # NoEvent}
PublishedKept    == Cardinality(Waiting) + Len(events) + Len(log) = published
ClientsAccounted == \A c \in Clients : Accounted(c)
Conserved        == PublishedKept /\ ClientsAccounted

(* What reaches a client's pipe is a contiguous run of the published       *)
(* events, starting with the first one taken after it was registered:      *)
(* nothing is skipped, repeated or reordered on the way through the        *)
(* fan-out, the channel and the writes, whatever the other clients do.     *)
InOrderNoGap ==
  \A c \in Clients :
    /\ join[c] + Len(written[c]) <= Len(log)
    /\ \A i \in 1..Len(written[c]) : written[c][i] = log[join[c] + i]

(* Back-pressure: the events accepted from the publishers but not yet on   *)
(* the pipe of a registered client never exceed the two channels, plus the *)
(* one event Run holds and the one the client writes.                      *)
BoundedBacklog ==
  \A c \in clients :
    Len(log) + Len(events)
      <= join[c] + Len(written[c]) + EventCap + StreamCap + 2

(* The client Run is sending to has left its loop with a full channel and  *)
(* waits for Run to come back to its select: each waits for the other.     *)
WedgedOn(c) ==
  /\ cur = c
  /\ Len(stream[c]) = StreamCap
  /\ cpc[c] = "remove"

Wedged == \E c \in Clients : WedgedOn(c)

(* The cyclic wait between Run and a departing client never resolves: no   *)
(* later step, not even the shutdown, ends it.                             *)
WedgeIsForever == [][\A c \in Clients : WedgedOn(c) => WedgedOn(c)']_vars

(* An event taken while a client is registered gets to the client's pipe,  *)
(* unless the client itself leaves or Run is wedged on a departing client: *)
(* that cyclic wait is the only way a healthy client can starve.           *)
DeliveredUnlessWedged ==
  \A c \in Clients : \A n \in 1..MaxPublished :
    (c \in clients /\ join[c] < n /\ n <= Len(log))
      ~> (join[c] + Len(written[c]) >= n \/ cpc[c] \in {"remove", "gone"} \/ Wedged)

(* After the cancellation Run returns, so that the "data broker" service   *)
(* ends, unless it is wedged on a departing client.                        *)
RunReturnsUnlessWedged == ctxDone ~> (bpc = "returned" \/ Wedged)

-----------------------------------------------------------------------------
(* The broker implements FanOut: a broadcast log read in rounds.           *)

(* The refinement mapping: how far into the log each client has been served. *)
Position == [c \in Clients |-> join[c] + Handed(c)]

Abstract == INSTANCE FanOut WITH
  Readers <- Clients,
  subs    <- clients,
  pos     <- Position

(* Every registration, removal and fan-out step is one of FanOut's, and    *)
(* every other step leaves its state alone.                                *)
ImplementsFanOut == Abstract!Spec
=============================================================================
