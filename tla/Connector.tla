------------------------------ MODULE Connector ------------------------------
(***************************************************************************)
(* The connector as a whole: main.go and serviceManager.go of              *)
(* cmd/twitch-integration-connector, composed with the broker and its pipe *)
(* clients (DataBroker), the StreamElements service (streamelements.go),   *)
(* and chat and pubsub as services that may return whenever they like, or  *)
(* never, and whose goroutines publish: when these two return is the       *)
(* subject of IrcChat and PubSub.                                          *)
(*                                                                         *)
(* Every service runs on a goroutine that stores its name when it starts   *)
(* and deletes it when it ends.  An interrupt makes main cancel the        *)
(* context all services share, and poll the names until it finds none.     *)
(***************************************************************************)
EXTENDS Naturals, Sequences, Framing

CONSTANTS
  Clients, Publishers, Events, NoEvent, Ping, NoClient, EventCap, StreamCap,
  MaxPublished,  \* the constants of DataBroker
  TwitchServices,  \* "twitch chat" and "twitch pubsub"
  Twitch,        \* the publishers of these
  Lengths        \* how many bytes an envelope has

Se == "stream elements"
Services == {"stopper", "broker", "pipes", Se} \cup TwitchServices

ASSUME ConnectorAssumption ==
  /\ Publishers = Twitch \cup {Se}
  /\ Se \notin Twitch
  /\ TwitchServices \cap {"stopper", "broker", "pipes", Se} = {}
  /\ EventCap \in Nat \ {0} /\ StreamCap \in Nat \ {0} /\ MaxPublished \in Nat
  /\ {NoEvent, Ping} \cap Events = {} /\ Ping # NoEvent /\ NoClient \notin Clients
  /\ Lengths \subseteq Nat \ {0}

VARIABLES
  ctxDone, listening, events, clients, bpc, todo, cur, cpc, stream, cmsg, pmsg,
  published, log, join, written,  \* the variables of DataBroker
  svc,      \* where the goroutine of each service is
  stored,   \* serviceManager.running
  main,     \* where main is: "serving", or in Stop: "tick", "range", "exited"
  late      \* the services that had not started when Range began, and not ended

brokerVars == <<ctxDone, listening, events, clients, bpc, todo, cur, cpc, stream, cmsg,
                pmsg, published, log, join, written>>
stopVars   == <<main, late>>
vars       == <<brokerVars, svc, stored, stopVars>>

Broker == INSTANCE DataBroker

Running(s) == main # "exited" /\ svc[s] \notin {"added", "ended"}

(* The handler of the service returns, and its name is deleted. *)
Ends(s) ==
  /\ svc' = [svc EXCEPT ![s] = "ended"]
  /\ stored' = stored \ {s}
  /\ late' = late \ {s}
  /\ main' = main

-----------------------------------------------------------------------------
(* Broken variants, never part of Next. *)

(* Add deletes the name when the goroutine starts, not when it ends. *)
StartUnnamed(s) ==
  /\ main # "exited"
  /\ svc[s] = "added"
  /\ svc' = [svc EXCEPT ![s] = "running"]
  /\ UNCHANGED <<stored, brokerVars, stopVars>>

(* The blocked Publish is given up when the context is done. *)
SePublishedOrDone ==
  /\ Running(Se)
  /\ svc[Se] = "publish"
  /\ Broker!PublishSend(Se) \/ (ctxDone /\ UNCHANGED brokerVars)
  /\ svc' = [svc EXCEPT ![Se] = "loop"]
  /\ UNCHANGED <<stored, stopVars>>

(* The service that closes the listener is not there. *)
StopperMissing == FALSE /\ UNCHANGED vars

-----------------------------------------------------------------------------
(* serviceManager.Add: the goroutine stores the name when it gets to run.  *)

Start(s) ==
  /\ main # "exited"
  /\ svc[s] = "added"
  /\ svc' = [svc EXCEPT ![s] = "running"]
  /\ stored' = stored \cup {s}
  /\ UNCHANGED <<brokerVars, stopVars>>

(* The interrupt: Stop cancels the context. *)
Interrupt ==
  /\ main = "serving"
  /\ main' = "tick"
  /\ Broker!Cancel
  /\ UNCHANGED <<svc, stored, late>>

(* Range takes no snapshot: it comes to each name at some moment while it  *)
(* runs, and counts it if it is there at that moment.                      *)
RangeBegin ==
  /\ main = "tick"
  /\ main' = "range"
  /\ late' = {s \in Services : svc[s] = "added"}
  /\ UNCHANGED <<brokerVars, svc, stored>>

(* It comes to a name that is there: Stop will poll again. *)
RangeFinds ==
  /\ main = "range"
  /\ stored # {}
  /\ main' = "tick"
  /\ late' = {}
  /\ UNCHANGED <<brokerVars, svc, stored>>

(* It came to each name at a moment when it was not there: at the end, or  *)
(* before a late service stored it.  Stop and main return, and with them   *)
(* the process.                                                            *)
RangeFindsNone ==
  /\ main = "range"
  /\ stored \subseteq late
  /\ main' = "exited"
  /\ UNCHANGED <<brokerVars, svc, stored, late>>

-----------------------------------------------------------------------------
(* The services of main. *)

StopperCloses ==
  /\ Running("stopper")
  /\ Broker!CloseListener
  /\ Ends("stopper")

BrokerRuns ==
  /\ Running("broker")
  /\ Broker!RunStep
  /\ UNCHANGED <<svc, stored, stopVars>>

BrokerEnds ==
  /\ Running("broker")
  /\ bpc = "returned"
  /\ Ends("broker")
  /\ UNCHANGED brokerVars

PipeAccepts(c) ==
  /\ Running("pipes")
  /\ Broker!Accept(c)
  /\ UNCHANGED <<svc, stored, stopVars>>

(* The goroutines of the pipe clients are no services: Stop does not wait  *)
(* for them.                                                               *)
ClientRuns(c) ==
  /\ main # "exited"
  /\ \/ Broker!ClientDone(c) \/ Broker!ClientTake(c) \/ Broker!ClientTick(c)
     \/ Broker!WriteDone(c) \/ Broker!WriteFail(c)
  /\ UNCHANGED <<svc, stored, stopVars>>

(* Any error of Accept ends the service, that of a closed listener or not. *)
PipesEnd ==
  /\ Running("pipes")
  /\ Ends("pipes")
  /\ UNCHANGED brokerVars

(* handleChat or handlePubSub returns: disabled, after an error, or because *)
(* of the cancellation.                                                    *)
TwitchEnds(s) ==
  /\ Running(s)
  /\ Ends(s)
  /\ UNCHANGED brokerVars

(* A chat or pubsub event, on a goroutine that may outlive its service.    *)
TwitchPublishes(s) ==
  /\ main # "exited"
  /\ \E t \in TwitchServices : svc[t] # "added"
  /\ (\E e \in Events : Broker!PublishCall(s, e)) \/ Broker!PublishSend(s)
  /\ UNCHANGED <<svc, stored, stopVars>>

-----------------------------------------------------------------------------
(* handleStreamElements: connect, authenticate, then the consume loop,     *)
(* which publishes on the goroutine of the service, then the wait for the  *)
(* goroutines in the socket.io client.                                     *)

SeConnects ==
  /\ Running(Se)
  /\ svc[Se] = "running"
  /\ svc' = [svc EXCEPT ![Se] = "loop"]
  /\ UNCHANGED <<stored, brokerVars, stopVars>>

(* Disabled, no token, no connection, or not authenticated. *)
SeGivesUp ==
  /\ Running(Se)
  /\ svc[Se] = "running"
  /\ Ends(Se)
  /\ UNCHANGED brokerVars

(* A redemption to forward, from the channel of the subscription (those    *)
(* that are no perk or do not decode are skipped).  The select may take it *)
(* although the context is done.                                           *)
SeTakes(e) ==
  /\ Running(Se)
  /\ svc[Se] = "loop"
  /\ Broker!PublishCall(Se, e)
  /\ svc' = [svc EXCEPT ![Se] = "publish"]
  /\ UNCHANGED <<stored, stopVars>>

SePublished ==
  /\ Running(Se)
  /\ svc[Se] = "publish"
  /\ Broker!PublishSend(Se)
  /\ svc' = [svc EXCEPT ![Se] = "loop"]
  /\ UNCHANGED <<stored, stopVars>>

SeDone ==
  /\ Running(Se)
  /\ svc[Se] = "loop"
  /\ ctxDone
  /\ svc' = [svc EXCEPT ![Se] = "waiting"]
  /\ UNCHANGED <<stored, brokerVars, stopVars>>

(* Close and Listen have returned. *)
SeWaited ==
  /\ Running(Se)
  /\ svc[Se] = "waiting"
  /\ Ends(Se)
  /\ UNCHANGED brokerVars

-----------------------------------------------------------------------------
Init ==
  /\ Broker!Init
  /\ svc = [s \in Services |-> "added"]
  /\ stored = {}
  /\ main = "serving"
  /\ late = {}

Stop == RangeBegin \/ RangeFinds \/ RangeFindsNone

StreamElements ==
  \/ SeConnects \/ SeGivesUp
  \/ SePublished \/ SeDone \/ SeWaited
  \/ \E e \in Events : SeTakes(e)

Next ==
  \/ \E s \in Services : Start(s)
  \/ Interrupt \/ Stop
  \/ StopperCloses
  \/ BrokerRuns \/ BrokerEnds
  \/ \E c \in Clients : PipeAccepts(c) \/ ClientRuns(c)
  \/ PipesEnd
  \/ \E s \in TwitchServices : TwitchEnds(s)
  \/ \E s \in Twitch : TwitchPublishes(s)
  \/ StreamElements

Spec == Init /\ [][Next]_vars

(* Steps taken once at most: fairness of each is fairness of all together. *)
Once ==
  \/ \E s \in Services : Start(s)
  \/ StopperCloses \/ BrokerEnds
  \/ ~listening /\ PipesEnd

OnceReady == (BrokerRuns /\ Broker!RunStop) \/ SeDone

(***************************************************************************)
(* Goroutines get to run, select chooses among its ready cases at random,  *)
(* and a closed listener makes Accept fail.  Nothing makes the user        *)
(* interrupt the connector, Twitch send anything, chat or pubsub return,   *)
(* or a call of the socket.io client.                                      *)
(***************************************************************************)
Fairness ==
  /\ WF_vars(Once)
  /\ SF_vars(OnceReady)
  /\ WF_vars(Stop)
  /\ WF_vars(BrokerRuns /\ \E c \in Clients :
               Broker!RunPick(c) \/ Broker!RunSend(c) \/ Broker!RunFanoutDone)
  /\ \A c \in Clients :
       /\ SF_vars(ClientRuns(c) /\ Broker!ClientTake(c))
       /\ WF_vars(ClientRuns(c) /\ (Broker!WriteDone(c) \/ Broker!WriteFail(c)))
  /\ WF_vars(SePublished)

FairSpec == Spec /\ Fairness

-----------------------------------------------------------------------------
(* Properties. *)

(* n events on a pipe are read back, whatever their lengths. *)
ReadsBack == [n \in 0..MaxPublished |-> \A lens \in [1..n -> Lengths] : ReadBack(lens)]

(* Every variable has its type. *)
TypeOK ==
  /\ Broker!TypeOK
  /\ svc \in [Services -> {"added", "running", "loop", "publish", "waiting", "ended"}]
  /\ stored \subseteq Services /\ late \subseteq Services
  /\ main \in {"serving", "tick", "range", "exited"}

(* The process does not end under a service that works: when Stop returns, *)
(* the services still running are those whose goroutine had not even       *)
(* stored its name when the last poll of the names began.                  *)
StopMissesOnlyLate ==
  main = "exited" => \A s \in Services : svc[s] # "ended" => s \in late

(* A publisher blocked in Publish once Run is gone. *)
Stuck(p) == bpc = "returned" /\ Len(events) = EventCap /\ pmsg[p] # NoEvent

(* StreamElements publishes on the goroutine of its service: blocked after *)
(* Run has returned it stays blocked, and Stop, which finds its name, does *)
(* not return any more, unless it had begun its poll before the name came. *)
StuckIsForever ==
  [][Stuck(Se) => Stuck(Se)' /\ (main' = "exited" => Se \in late)]_vars

(* The handler of chat or pubsub is running, or StreamElements is in a     *)
(* call of the socket.io client.                                           *)
Outside(s) == svc[s] \in {"running", "waiting"}

(* None of them stays there for ever after the cancellation. *)
OthersReturn ==
  \A s \in TwitchServices \cup {Se} : []<>~(ctxDone /\ Outside(s))

(* If chat, pubsub and the calls of the socket.io client return after an   *)
(* interrupt, the process ends, unless Run is wedged on a client that      *)
(* leaves or StreamElements is blocked in Publish without Run: every other *)
(* order of the shutdown's steps gets there.  (main never goes back to     *)
(* "serving", so some step after the interrupt is one of the other three.) *)
StopReturns ==
  OthersReturn
    => []<>(main \in {"serving", "exited"} \/ Broker!Wedged \/ Stuck(Se))

(* Whatever the lengths of the events, the DLL reads back what was written *)
(* to a pipe, up to the first event that is longer than its buffer.        *)
PipeReadBack == \A c \in Clients : ReadsBack[Len(written[c])]
=============================================================================
