-------------------------- MODULE DataBrokerProofs --------------------------
(***************************************************************************)
(* Proofs about DataBroker, for every value of its constants.  IInv is the *)
(* inductive invariant behind all of them.  InOrderNoGap alone is not      *)
(* inductive: it says nothing about the events still in a channel or in    *)
(* the hands of a client goroutine, which is what Content adds, nor about  *)
(* how many of them there are, which is what Conserved adds.               *)
(***************************************************************************)
EXTENDS DataBroker, FiniteSetTheorems, SequenceTheorems, TLAPS

(* A fan-out is about an event, and never visits a client twice. *)
FanoutShape ==
  /\ bpc = "fanout" => log # <<>>
  /\ cur \notin todo

(* A client goroutine holds a frame exactly while it writes or has failed. *)
Holding ==
  \A c \in Clients :
    /\ cpc[c] = "write" => cmsg[c] # NoEvent
    /\ cpc[c] \in {"new", "add", "loop"} => cmsg[c] = NoEvent

(* What was written, what is being written and what waits in the channel   *)
(* are, in this order, the log from the point where the client joined.     *)
WrittenMatches(c) ==
  \A i \in 1..Len(written[c]) : written[c][i] = log[join[c] + i]

WritingMatches(c) ==
  cmsg[c] \in Events => cmsg[c] = log[join[c] + Len(written[c]) + 1]

StreamMatches(c) ==
  \A i \in 1..Len(stream[c]) :
    stream[c][i] = log[join[c] + Len(written[c]) + InFlight(c) + i]

Content ==
  \A c \in Clients : WrittenMatches(c) /\ WritingMatches(c) /\ StreamMatches(c)

IInv ==
  /\ TypeOK
  /\ RegistrationAgrees
  /\ FanoutShape
  /\ Holding
  /\ Conserved
  /\ IsFiniteSet(Waiting)
  /\ Content

(* The event of a fan-out is an event: Run holds one while it sends. *)
LEMMA EvtInEvents ==
  ASSUME TypeOK, log # <<>>
  PROVE  evt \in Events /\ Len(log) \in Nat \ {0}
  BY DEF TypeOK, evt

(* Every step keeps every variable in its type. *)
LEMMA TypeStep == IInv /\ [Next]_vars => TypeOK'
<1> SUFFICES ASSUME IInv, [Next]_vars
             PROVE  TypeOK'
  OBVIOUS
<1> USE BrokerAssumption DEF IInv, TypeOK, ClientStates
<1>1. ASSUME NEW p \in Publishers, NEW e \in Events, PublishCall(p, e)
      PROVE  TypeOK'
  BY <1>1 DEF PublishCall, brokerVars, clientVars, pubVars, ctxVars
<1>2. ASSUME NEW p \in Publishers, PublishSend(p)
      PROVE  TypeOK'
  BY <1>2 DEF PublishSend, brokerVars, clientVars, pubVars, ctxVars
<1>3. CASE RunStop
  BY <1>3 DEF RunStop, brokerVars, clientVars, pubVars, ctxVars
<1>4. CASE RunTake
  BY <1>4 DEF RunTake, brokerVars, clientVars, pubVars, ctxVars
<1>5. CASE RunFanoutDone
  BY <1>5 DEF RunFanoutDone, brokerVars, clientVars, pubVars, ctxVars
<1>6. ASSUME NEW c \in Clients, RunRemove(c)
      PROVE  TypeOK'
  BY <1>6 DEF RunRemove, brokerVars, clientVars, pubVars, ctxVars
<1>7. ASSUME NEW c \in Clients, RunAdd(c)
      PROVE  TypeOK'
  BY <1>7 DEF RunAdd, brokerVars, clientVars, pubVars, ctxVars
<1>8. ASSUME NEW c \in Clients, RunPick(c)
      PROVE  TypeOK'
  BY <1>8 DEF RunPick, brokerVars, clientVars, pubVars, ctxVars
<1>9. ASSUME NEW c \in Clients, RunSend(c)
      PROVE  TypeOK'
  <2>1. evt \in Events
    BY <1>9, EvtInEvents DEF RunSend, RegistrationAgrees, FanoutShape
  <2>2. QED
    BY <1>9, <2>1 DEF RunSend, brokerVars, clientVars, pubVars, ctxVars
<1>10. ASSUME NEW c \in Clients, Accept(c)
      PROVE  TypeOK'
  BY <1>10 DEF Accept, brokerVars, clientVars, pubVars, ctxVars
<1>11. ASSUME NEW c \in Clients, ClientDone(c)
      PROVE  TypeOK'
  BY <1>11 DEF ClientDone, brokerVars, clientVars, pubVars, ctxVars
<1>12. ASSUME NEW c \in Clients, ClientTake(c)
      PROVE  TypeOK'
  BY <1>12 DEF ClientTake, brokerVars, clientVars, pubVars, ctxVars
<1>13. ASSUME NEW c \in Clients, ClientTick(c)
      PROVE  TypeOK'
  BY <1>13 DEF ClientTick, brokerVars, clientVars, pubVars, ctxVars
<1>14. ASSUME NEW c \in Clients, WriteDone(c)
      PROVE  TypeOK'
  <2>1. cmsg[c] \in Events \cup {Ping}
    BY <1>14 DEF WriteDone, Holding
  <2>2. QED
    BY <1>14, <2>1 DEF WriteDone, brokerVars, clientVars, pubVars, ctxVars
<1>15. ASSUME NEW c \in Clients, WriteFail(c)
      PROVE  TypeOK'
  BY <1>15 DEF WriteFail, brokerVars, clientVars, pubVars, ctxVars
<1>16. CASE Cancel
  BY <1>16 DEF Cancel, brokerVars, clientVars, pubVars, ctxVars
<1>17. CASE CloseListener
  BY <1>17 DEF CloseListener, brokerVars, clientVars, pubVars, ctxVars
<1>18. CASE UNCHANGED vars
  BY <1>18 DEF vars, brokerVars, clientVars, pubVars, ctxVars
<1>19. QED
  BY <1>1, <1>2, <1>3, <1>4, <1>5, <1>6, <1>7, <1>8, <1>9, <1>10,
     <1>11, <1>12, <1>13, <1>14, <1>15, <1>16, <1>17, <1>18
     DEF Next, PublisherStep, RunStep, ClientStep

(* Every step keeps the map and the goroutines in agreement. *)
LEMMA RegistrationStep == IInv /\ [Next]_vars => RegistrationAgrees'
<1> SUFFICES ASSUME IInv, [Next]_vars
             PROVE  RegistrationAgrees'
  OBVIOUS
<1> USE BrokerAssumption DEF IInv, TypeOK, ClientStates, RegistrationAgrees
<1>1. ASSUME NEW p \in Publishers, NEW e \in Events, PublishCall(p, e)
      PROVE  RegistrationAgrees'
  BY <1>1 DEF PublishCall, brokerVars, clientVars, pubVars, ctxVars
<1>2. ASSUME NEW p \in Publishers, PublishSend(p)
      PROVE  RegistrationAgrees'
  BY <1>2 DEF PublishSend, brokerVars, clientVars, pubVars, ctxVars
<1>3. CASE RunStop
  BY <1>3 DEF RunStop, brokerVars, clientVars, pubVars, ctxVars
<1>4. CASE RunTake
  BY <1>4 DEF RunTake, brokerVars, clientVars, pubVars, ctxVars
<1>5. CASE RunFanoutDone
  BY <1>5 DEF RunFanoutDone, brokerVars, clientVars, pubVars, ctxVars
<1>6. ASSUME NEW c \in Clients, RunRemove(c)
      PROVE  RegistrationAgrees'
  BY <1>6 DEF RunRemove, brokerVars, clientVars, pubVars, ctxVars
<1>7. ASSUME NEW c \in Clients, RunAdd(c)
      PROVE  RegistrationAgrees'
  BY <1>7 DEF RunAdd, brokerVars, clientVars, pubVars, ctxVars
<1>8. ASSUME NEW c \in Clients, RunPick(c)
      PROVE  RegistrationAgrees'
  BY <1>8 DEF RunPick, brokerVars, clientVars, pubVars, ctxVars
<1>9. ASSUME NEW c \in Clients, RunSend(c)
      PROVE  RegistrationAgrees'
  BY <1>9 DEF RunSend, brokerVars, clientVars, pubVars, ctxVars
<1>10. ASSUME NEW c \in Clients, Accept(c)
      PROVE  RegistrationAgrees'
  BY <1>10 DEF Accept, brokerVars, clientVars, pubVars, ctxVars
<1>11. ASSUME NEW c \in Clients, ClientDone(c)
      PROVE  RegistrationAgrees'
  BY <1>11 DEF ClientDone, brokerVars, clientVars, pubVars, ctxVars
<1>12. ASSUME NEW c \in Clients, ClientTake(c)
      PROVE  RegistrationAgrees'
  BY <1>12 DEF ClientTake, brokerVars, clientVars, pubVars, ctxVars
<1>13. ASSUME NEW c \in Clients, ClientTick(c)
      PROVE  RegistrationAgrees'
  BY <1>13 DEF ClientTick, brokerVars, clientVars, pubVars, ctxVars
<1>14. ASSUME NEW c \in Clients, WriteDone(c)
      PROVE  RegistrationAgrees'
  BY <1>14 DEF WriteDone, brokerVars, clientVars, pubVars, ctxVars
<1>15. ASSUME NEW c \in Clients, WriteFail(c)
      PROVE  RegistrationAgrees'
  BY <1>15 DEF WriteFail, brokerVars, clientVars, pubVars, ctxVars
<1>16. CASE Cancel
  BY <1>16 DEF Cancel, brokerVars, clientVars, pubVars, ctxVars
<1>17. CASE CloseListener
  BY <1>17 DEF CloseListener, brokerVars, clientVars, pubVars, ctxVars
<1>18. CASE UNCHANGED vars
  BY <1>18 DEF vars, brokerVars, clientVars, pubVars, ctxVars
<1>19. QED
  BY <1>1, <1>2, <1>3, <1>4, <1>5, <1>6, <1>7, <1>8, <1>9, <1>10,
     <1>11, <1>12, <1>13, <1>14, <1>15, <1>16, <1>17, <1>18
     DEF Next, PublisherStep, RunStep, ClientStep

(* A fan-out starts with an event, and picks each client once. *)
LEMMA FanoutStep == IInv /\ [Next]_vars => FanoutShape'
<1> SUFFICES ASSUME IInv, [Next]_vars
             PROVE  FanoutShape'
  OBVIOUS
<1> USE BrokerAssumption DEF IInv, TypeOK, RegistrationAgrees, FanoutShape
<1>1. ASSUME NEW p \in Publishers, NEW e \in Events, PublishCall(p, e)
      PROVE  FanoutShape'
  BY <1>1 DEF PublishCall, brokerVars, clientVars, pubVars, ctxVars
<1>2. ASSUME NEW p \in Publishers, PublishSend(p)
      PROVE  FanoutShape'
  BY <1>2 DEF PublishSend, brokerVars, clientVars, pubVars, ctxVars
<1>3. CASE RunStop
  BY <1>3 DEF RunStop, brokerVars, clientVars, pubVars, ctxVars
<1>4. CASE RunTake
  BY <1>4 DEF RunTake, brokerVars, clientVars, pubVars, ctxVars
<1>5. CASE RunFanoutDone
  BY <1>5 DEF RunFanoutDone, brokerVars, clientVars, pubVars, ctxVars
<1>6. ASSUME NEW c \in Clients, RunRemove(c)
      PROVE  FanoutShape'
  BY <1>6 DEF RunRemove, brokerVars, clientVars, pubVars, ctxVars
<1>7. ASSUME NEW c \in Clients, RunAdd(c)
      PROVE  FanoutShape'
  BY <1>7 DEF RunAdd, brokerVars, clientVars, pubVars, ctxVars
<1>8. ASSUME NEW c \in Clients, RunPick(c)
      PROVE  FanoutShape'
  BY <1>8 DEF RunPick, brokerVars, clientVars, pubVars, ctxVars
<1>9. ASSUME NEW c \in Clients, RunSend(c)
      PROVE  FanoutShape'
  BY <1>9 DEF RunSend, brokerVars, clientVars, pubVars, ctxVars
<1>10. ASSUME NEW c \in Clients, Accept(c)
      PROVE  FanoutShape'
  BY <1>10 DEF Accept, brokerVars, clientVars, pubVars, ctxVars
<1>11. ASSUME NEW c \in Clients, ClientDone(c)
      PROVE  FanoutShape'
  BY <1>11 DEF ClientDone, brokerVars, clientVars, pubVars, ctxVars
<1>12. ASSUME NEW c \in Clients, ClientTake(c)
      PROVE  FanoutShape'
  BY <1>12 DEF ClientTake, brokerVars, clientVars, pubVars, ctxVars
<1>13. ASSUME NEW c \in Clients, ClientTick(c)
      PROVE  FanoutShape'
  BY <1>13 DEF ClientTick, brokerVars, clientVars, pubVars, ctxVars
<1>14. ASSUME NEW c \in Clients, WriteDone(c)
      PROVE  FanoutShape'
  BY <1>14 DEF WriteDone, brokerVars, clientVars, pubVars, ctxVars
<1>15. ASSUME NEW c \in Clients, WriteFail(c)
      PROVE  FanoutShape'
  BY <1>15 DEF WriteFail, brokerVars, clientVars, pubVars, ctxVars
<1>16. CASE Cancel
  BY <1>16 DEF Cancel, brokerVars, clientVars, pubVars, ctxVars
<1>17. CASE CloseListener
  BY <1>17 DEF CloseListener, brokerVars, clientVars, pubVars, ctxVars
<1>18. CASE UNCHANGED vars
  BY <1>18 DEF vars, brokerVars, clientVars, pubVars, ctxVars
<1>19. QED
  BY <1>1, <1>2, <1>3, <1>4, <1>5, <1>6, <1>7, <1>8, <1>9, <1>10,
     <1>11, <1>12, <1>13, <1>14, <1>15, <1>16, <1>17, <1>18
     DEF Next, PublisherStep, RunStep, ClientStep

(* A frame is picked up when the write starts and put down when it ends. *)
LEMMA HoldingStep == IInv /\ [Next]_vars => Holding'
<1> SUFFICES ASSUME IInv, [Next]_vars
             PROVE  Holding'
  OBVIOUS
<1> USE BrokerAssumption DEF IInv, TypeOK, ClientStates, Holding
<1>1. ASSUME NEW p \in Publishers, NEW e \in Events, PublishCall(p, e)
      PROVE  Holding'
  BY <1>1 DEF PublishCall, brokerVars, clientVars, pubVars, ctxVars
<1>2. ASSUME NEW p \in Publishers, PublishSend(p)
      PROVE  Holding'
  BY <1>2 DEF PublishSend, brokerVars, clientVars, pubVars, ctxVars
<1>3. CASE RunStop
  BY <1>3 DEF RunStop, brokerVars, clientVars, pubVars, ctxVars
<1>4. CASE RunTake
  BY <1>4 DEF RunTake, brokerVars, clientVars, pubVars, ctxVars
<1>5. CASE RunFanoutDone
  BY <1>5 DEF RunFanoutDone, brokerVars, clientVars, pubVars, ctxVars
<1>6. ASSUME NEW c \in Clients, RunRemove(c)
      PROVE  Holding'
  BY <1>6 DEF RunRemove, brokerVars, clientVars, pubVars, ctxVars
<1>7. ASSUME NEW c \in Clients, RunAdd(c)
      PROVE  Holding'
  BY <1>7 DEF RunAdd, brokerVars, clientVars, pubVars, ctxVars
<1>8. ASSUME NEW c \in Clients, RunPick(c)
      PROVE  Holding'
  BY <1>8 DEF RunPick, brokerVars, clientVars, pubVars, ctxVars
<1>9. ASSUME NEW c \in Clients, RunSend(c)
      PROVE  Holding'
  BY <1>9 DEF RunSend, brokerVars, clientVars, pubVars, ctxVars
<1>10. ASSUME NEW c \in Clients, Accept(c)
      PROVE  Holding'
  BY <1>10 DEF Accept, brokerVars, clientVars, pubVars, ctxVars
<1>11. ASSUME NEW c \in Clients, ClientDone(c)
      PROVE  Holding'
  BY <1>11 DEF ClientDone, brokerVars, clientVars, pubVars, ctxVars
<1>12. ASSUME NEW c \in Clients, ClientTake(c)
      PROVE  Holding'
  BY <1>12 DEF ClientTake, brokerVars, clientVars, pubVars, ctxVars
<1>13. ASSUME NEW c \in Clients, ClientTick(c)
      PROVE  Holding'
  BY <1>13 DEF ClientTick, brokerVars, clientVars, pubVars, ctxVars
<1>14. ASSUME NEW c \in Clients, WriteDone(c)
      PROVE  Holding'
  BY <1>14 DEF WriteDone, brokerVars, clientVars, pubVars, ctxVars
<1>15. ASSUME NEW c \in Clients, WriteFail(c)
      PROVE  Holding'
  BY <1>15 DEF WriteFail, brokerVars, clientVars, pubVars, ctxVars
<1>16. CASE Cancel
  BY <1>16 DEF Cancel, brokerVars, clientVars, pubVars, ctxVars
<1>17. CASE CloseListener
  BY <1>17 DEF CloseListener, brokerVars, clientVars, pubVars, ctxVars
<1>18. CASE UNCHANGED vars
  BY <1>18 DEF vars, brokerVars, clientVars, pubVars, ctxVars
<1>19. QED
  BY <1>1, <1>2, <1>3, <1>4, <1>5, <1>6, <1>7, <1>8, <1>9, <1>10,
     <1>11, <1>12, <1>13, <1>14, <1>15, <1>16, <1>17, <1>18
     DEF Next, PublisherStep, RunStep, ClientStep

(* The parts of a client's account are numbers. *)
LEMMA HandedInNat ==
  ASSUME TypeOK, NEW c \in Clients
  PROVE  /\ InFlight(c) \in {0, 1} /\ Handed(c) \in Nat
         /\ Owed(c) \in {0, 1} /\ join[c] \in Nat /\ Len(log) \in Nat
  BY DEF TypeOK, Handed, InFlight, Owed

(* Taking, ticking and writing move an event along inside the client.      *)
LEMMA HandedKept ==
  ASSUME IInv, NEW c \in Clients, NEW d \in Clients,
         ClientTake(c) \/ ClientTick(c) \/ WriteDone(c)
  PROVE  Handed(d)' = Handed(d)
<1> USE BrokerAssumption DEF IInv, TypeOK
<1>1. CASE ClientTake(c) /\ d = c
  <2>1. /\ cmsg[c] = NoEvent /\ cmsg'[c] \in Events
        /\ Len(stream'[c]) = Len(stream[c]) - 1
    BY <1>1 DEF ClientTake, Holding
  <2>2. QED
    BY <1>1, <2>1 DEF ClientTake, Handed, InFlight
<1>2. CASE ClientTake(c) /\ d # c
  BY <1>2 DEF ClientTake, Handed, InFlight
<1>3. CASE ClientTick(c)
  BY <1>3 DEF ClientTick, Handed, InFlight, Holding
<1>4. CASE WriteDone(c) /\ d = c /\ cmsg[c] # Ping
  <2>1. /\ cmsg[c] \in Events /\ cmsg'[c] = NoEvent
        /\ Len(written'[c]) = Len(written[c]) + 1
    BY <1>4 DEF WriteDone, Holding
  <2>2. QED
    BY <1>4, <2>1 DEF WriteDone, Handed, InFlight
<1>5. CASE WriteDone(c) /\ (d # c \/ cmsg[c] = Ping)
  BY <1>5 DEF WriteDone, Handed, InFlight
<1>6. QED
  BY <1>1, <1>2, <1>3, <1>4, <1>5

(* A send hands the event owed to the client Run has picked, and no other. *)
LEMMA HandedSent ==
  ASSUME IInv, NEW c \in Clients, RunSend(c)
  PROVE  /\ c \in clients /\ Owed(c) = 1 /\ Owed(c)' = 0
         /\ Handed(c)' = Handed(c) + 1
         /\ \A d \in Clients \ {c} : Handed(d)' = Handed(d) /\ Owed(d)' = Owed(d)
<1>1. c \in clients /\ Owed(c) = 1 /\ Owed(c)' = 0
  BY BrokerAssumption DEF RunSend, IInv, RegistrationAgrees, Owed, FanoutShape
<1>2. ASSUME NEW d \in Clients \ {c}
      PROVE  Handed(d)' = Handed(d) /\ Owed(d)' = Owed(d)
  BY BrokerAssumption DEF RunSend, IInv, TypeOK, Handed, InFlight, Owed
<1> DEFINE w == Len(written[c])
           h == InFlight(c)
           k == Len(stream[c])
<1>3. w \in Nat /\ h \in {0, 1} /\ k \in Nat
  BY HandedInNat DEF IInv, TypeOK
<1>4. InFlight(c)' = h /\ written' = written /\ Len(stream'[c]) = k + 1
  BY DEF RunSend, InFlight, IInv, TypeOK
<1>5. Handed(c)' = w + h + (k + 1) /\ Handed(c) = w + h + k
  BY <1>4 DEF Handed
<1> HIDE DEF w, h, k
<1>6. Handed(c)' = Handed(c) + 1
  BY <1>3, <1>5
<1>7. QED
  BY <1>1, <1>2, <1>6

(* What a client has been handed and is owed always adds up to the log. *)
LEMMA AccountedStep == IInv /\ [Next]_vars => ClientsAccounted'
<1> SUFFICES ASSUME IInv, [Next]_vars
             PROVE  ClientsAccounted'
  OBVIOUS
<1> USE DEF IInv, TypeOK, RegistrationAgrees, Conserved, ClientsAccounted
<1>1. ASSUME NEW p \in Publishers, NEW e \in Events, PublishCall(p, e)
      PROVE  ClientsAccounted'
  BY <1>1 DEF PublishCall, brokerVars, clientVars, pubVars, ctxVars, Accounted, Handed, InFlight, Owed
<1>2. ASSUME NEW p \in Publishers, PublishSend(p)
      PROVE  ClientsAccounted'
  BY <1>2 DEF PublishSend, brokerVars, clientVars, pubVars, ctxVars, Accounted, Handed, InFlight, Owed
<1>3. CASE RunStop
  BY <1>3 DEF RunStop, brokerVars, clientVars, pubVars, ctxVars, Accounted, Handed, InFlight, Owed
<1>4. CASE RunTake
  <2> SUFFICES ASSUME NEW d \in Clients
               PROVE  Accounted(d)'
    BY DEF ClientsAccounted
  <2>1. Len(log') = Len(log) + 1 /\ Len(log) \in Nat
    BY <1>4 DEF RunTake
  <2>2. Handed(d)' = Handed(d) /\ join'[d] = join[d] /\ cpc'[d] = cpc[d]
    BY <1>4 DEF RunTake, clientVars, Handed, InFlight
  <2>3. Owed(d) = 0 /\ (d \in clients' => d \in clients /\ Owed(d)' = 1)
    BY <1>4, BrokerAssumption DEF RunTake, Owed
  <2>4. Accounted(d) /\ join[d] \in Nat /\ Handed(d) \in Nat
    BY HandedInNat
  <2> HIDE DEF IInv, TypeOK, RegistrationAgrees, Conserved, ClientsAccounted
  <2>5. QED
    BY <2>1, <2>2, <2>3, <2>4 DEF Accounted
<1>5. CASE RunFanoutDone
  BY <1>5 DEF RunFanoutDone, brokerVars, clientVars, pubVars, ctxVars, Accounted, Handed, InFlight, Owed
<1>6. ASSUME NEW c \in Clients, RunRemove(c)
      PROVE  ClientsAccounted'
  BY <1>6 DEF RunRemove, brokerVars, clientVars, pubVars, ctxVars, Accounted, Handed, InFlight, Owed
<1>7. ASSUME NEW c \in Clients, RunAdd(c)
      PROVE  ClientsAccounted'
  <2> SUFFICES ASSUME NEW d \in Clients
               PROVE  Accounted(d)'
    BY DEF ClientsAccounted
  <2>1. Handed(d)' = Handed(d)
    BY <1>7 DEF RunAdd, Handed, InFlight
  <2>2. Owed(d) = 0 /\ Owed(d)' = 0
    BY <1>7, BrokerAssumption DEF RunAdd, Owed
  <2>3. CASE d = c
    <3>1. Handed(c) = 0 /\ Len(log) \in Nat
      BY <1>7 DEF RunAdd, Accounted
    <3>2. join'[c] = Len(log) /\ log' = log /\ cpc'[c] = "loop"
      BY <1>7 DEF RunAdd
    <3>3. QED
      BY <2>1, <2>2, <2>3, <3>1, <3>2 DEF Accounted
  <2>4. CASE d # c
    BY <1>7, <2>1, <2>2, <2>4 DEF RunAdd, Accounted
  <2>5. QED
    BY <2>3, <2>4
<1>8. ASSUME NEW c \in Clients, RunPick(c)
      PROVE  ClientsAccounted'
  <2> SUFFICES ASSUME NEW d \in Clients
               PROVE  Accounted(d)'
    BY DEF ClientsAccounted
  <2>1. Handed(d)' = Handed(d)
    BY <1>8 DEF RunPick, clientVars, Handed, InFlight
  <2>2. Owed(d)' = Owed(d)
    BY <1>8, BrokerAssumption DEF RunPick, Owed
  <2>3. QED
    BY <1>8, <2>1, <2>2 DEF RunPick, clientVars, Accounted
<1>9. ASSUME NEW c \in Clients, RunSend(c)
      PROVE  ClientsAccounted'
  <2> SUFFICES ASSUME NEW d \in Clients
               PROVE  Accounted(d)'
    BY DEF ClientsAccounted
  <2>1. join' = join /\ log' = log /\ clients' = clients /\ cpc' = cpc
    BY <1>9 DEF RunSend
  <2>2. CASE d = c
    <3>1. c \in clients /\ cpc[c] \notin {"new", "add"}
      BY <1>9, HandedSent
    <3>2. Handed(c)' = Handed(c) + 1 /\ Owed(c) = 1 /\ Owed(c)' = 0
      BY <1>9, HandedSent
    <3>3. Handed(c) \in Nat /\ join[c] \in Nat /\ Len(log) \in Nat
      BY HandedInNat
    <3>4. Accounted(c)
      OBVIOUS
    <3>5. QED
      BY <2>1, <2>2, <3>1, <3>2, <3>3, <3>4 DEF Accounted
  <2>3. CASE d # c
    <3>1. Handed(d)' = Handed(d) /\ Owed(d)' = Owed(d)
      BY <1>9, <2>3, HandedSent
    <3>2. QED
      BY <2>1, <3>1 DEF Accounted
  <2>4. QED
    BY <2>2, <2>3
<1>10. ASSUME NEW c \in Clients, Accept(c)
      PROVE  ClientsAccounted'
  BY <1>10 DEF Accept, brokerVars, clientVars, pubVars, ctxVars, Accounted, Handed, InFlight, Owed
<1>11. ASSUME NEW c \in Clients, ClientDone(c)
      PROVE  ClientsAccounted'
  BY <1>11 DEF ClientDone, brokerVars, clientVars, pubVars, ctxVars, Accounted, Handed, InFlight, Owed
<1>12. ASSUME NEW c \in Clients, ClientTake(c)
      PROVE  ClientsAccounted'
  <2> SUFFICES ASSUME NEW d \in Clients
               PROVE  Accounted(d)'
    BY DEF ClientsAccounted
  <2>1. Handed(d)' = Handed(d)
    BY <1>12, HandedKept
  <2>2. QED
    BY <1>12, <2>1 DEF ClientTake, Accounted, Owed, brokerVars
<1>13. ASSUME NEW c \in Clients, ClientTick(c)
      PROVE  ClientsAccounted'
  <2> SUFFICES ASSUME NEW d \in Clients
               PROVE  Accounted(d)'
    BY DEF ClientsAccounted
  <2>1. Handed(d)' = Handed(d)
    BY <1>13, HandedKept
  <2>2. QED
    BY <1>13, <2>1 DEF ClientTick, Accounted, Owed, brokerVars
<1>14. ASSUME NEW c \in Clients, WriteDone(c)
      PROVE  ClientsAccounted'
  <2> SUFFICES ASSUME NEW d \in Clients
               PROVE  Accounted(d)'
    BY DEF ClientsAccounted
  <2>1. Handed(d)' = Handed(d)
    BY <1>14, HandedKept
  <2>2. QED
    BY <1>14, <2>1 DEF WriteDone, Accounted, Owed, brokerVars
<1>15. ASSUME NEW c \in Clients, WriteFail(c)
      PROVE  ClientsAccounted'
  BY <1>15 DEF WriteFail, brokerVars, clientVars, pubVars, ctxVars, Accounted, Handed, InFlight, Owed
<1>16. CASE Cancel
  BY <1>16 DEF Cancel, brokerVars, clientVars, pubVars, ctxVars, Accounted, Handed, InFlight, Owed
<1>17. CASE CloseListener
  BY <1>17 DEF CloseListener, brokerVars, clientVars, pubVars, ctxVars, Accounted, Handed, InFlight, Owed
<1>18. CASE UNCHANGED vars
  BY <1>18 DEF vars, brokerVars, clientVars, pubVars, ctxVars, Accounted, Handed, InFlight, Owed
<1>19. QED
  BY <1>1, <1>2, <1>3, <1>4, <1>5, <1>6, <1>7, <1>8, <1>9, <1>10,
     <1>11, <1>12, <1>13, <1>14, <1>15, <1>16, <1>17, <1>18
     DEF Next, PublisherStep, RunStep, ClientStep

(* A Publish call adds its publisher to those that wait; the channel and   *)
(* then the log take the event from there.                                 *)
LEMMA PublishedStep == IInv /\ [Next]_vars => PublishedKept' /\ IsFiniteSet(Waiting)'
<1> SUFFICES ASSUME IInv, [Next]_vars
             PROVE  PublishedKept' /\ IsFiniteSet(Waiting)'
  OBVIOUS
<1>1. /\ pmsg \in [Publishers -> Events \cup {NoEvent}] /\ published \in Nat
      /\ events \in Seq(Events) /\ Len(events) \in Nat
      /\ log \in Seq(Events) /\ Len(log) \in Nat
  BY BrokerAssumption DEF IInv, TypeOK
<1>2. /\ IsFiniteSet(Waiting) /\ Cardinality(Waiting) \in Nat
      /\ Cardinality(Waiting) + Len(events) + Len(log) = published
  BY FS_CardinalityType DEF IInv, Conserved, PublishedKept
<1>3. ASSUME UNCHANGED <<pmsg, events, log, published>>
      PROVE  PublishedKept' /\ IsFiniteSet(Waiting)'
  <2>1. Waiting' = Waiting
    BY <1>3 DEF Waiting
  <2>2. QED
    BY <2>1, <1>2, <1>3 DEF PublishedKept
<1>4. ASSUME NEW p \in Publishers, NEW e \in Events, PublishCall(p, e)
      PROVE  PublishedKept' /\ IsFiniteSet(Waiting)'
  <2>1. Waiting' = Waiting \cup {p} /\ p \notin Waiting
    BY <1>1, <1>4, BrokerAssumption DEF PublishCall, Waiting
  <2>2. IsFiniteSet(Waiting') /\ Cardinality(Waiting') = Cardinality(Waiting) + 1
    BY <2>1, <1>2, FS_AddElement
  <2>3. published' = published + 1 /\ UNCHANGED <<events, log>>
    BY <1>4 DEF PublishCall, brokerVars
  <2>4. QED
    BY <2>2, <2>3, <1>1, <1>2 DEF PublishedKept
<1>5. ASSUME NEW p \in Publishers, PublishSend(p)
      PROVE  PublishedKept' /\ IsFiniteSet(Waiting)'
  <2>1. Waiting' = Waiting \ {p} /\ p \in Waiting /\ pmsg[p] \in Events
    BY <1>1, <1>5 DEF PublishSend, Waiting
  <2>2. IsFiniteSet(Waiting') /\ Cardinality(Waiting') = Cardinality(Waiting) - 1
    BY <2>1, <1>2, FS_RemoveElement
  <2>3. Len(events') = Len(events) + 1 /\ UNCHANGED <<published, log>>
    BY <1>1, <1>5, <2>1 DEF PublishSend
  <2>4. QED
    BY <2>2, <2>3, <1>1, <1>2 DEF PublishedKept
<1>6. CASE RunTake
  <2>1. Len(events') = Len(events) - 1 /\ Len(log') = Len(log) + 1 /\ UNCHANGED pubVars
    BY <1>1, <1>6 DEF RunTake
  <2>2. Waiting' = Waiting
    BY <2>1 DEF Waiting, pubVars
  <2>3. QED
    BY <2>1, <2>2, <1>1, <1>2 DEF PublishedKept, pubVars
<1>7. CASE RunStop \/ RunFanoutDone \/ (\E c \in Clients : RunRemove(c) \/ RunAdd(c) \/ RunPick(c) \/ RunSend(c))
  BY <1>3, <1>7 DEF RunStop, RunFanoutDone, RunRemove, RunAdd, RunPick, RunSend, pubVars, brokerVars
<1>8. CASE (\E c \in Clients : ClientStep(c)) \/ Cancel \/ CloseListener \/ UNCHANGED vars
  BY <1>3, <1>8 DEF ClientStep, Accept, ClientDone, ClientTake, ClientTick, WriteDone, WriteFail,
     Cancel, CloseListener, pubVars, brokerVars, vars
<1>9. QED
  BY <1>4, <1>5, <1>6, <1>7, <1>8 DEF Next, PublisherStep, RunStep

(* Appending to the log, the channels and the pipes keeps them aligned. *)
LEMMA ContentStep == IInv /\ [Next]_vars => Content'
<1> SUFFICES ASSUME IInv, [Next]_vars
             PROVE  Content'
  OBVIOUS
<1>1. ASSUME NEW p \in Publishers, NEW e \in Events, PublishCall(p, e)
      PROVE  Content'
  BY <1>1 DEF PublishCall, brokerVars, clientVars, pubVars, ctxVars,
     IInv, Content, WrittenMatches, WritingMatches, StreamMatches, InFlight
<1>2. ASSUME NEW p \in Publishers, PublishSend(p)
      PROVE  Content'
  BY <1>2 DEF PublishSend, brokerVars, clientVars, pubVars, ctxVars,
     IInv, Content, WrittenMatches, WritingMatches, StreamMatches, InFlight
<1>3. CASE RunStop
  BY <1>3 DEF RunStop, brokerVars, clientVars, pubVars, ctxVars,
     IInv, Content, WrittenMatches, WritingMatches, StreamMatches, InFlight
<1>4. CASE RunTake
  <2> SUFFICES ASSUME NEW d \in Clients
               PROVE  WrittenMatches(d)' /\ WritingMatches(d)' /\ StreamMatches(d)'
    BY DEF Content
  <2> DEFINE n == Len(written[d])
             k == Len(stream[d])
  <2>1. /\ Len(log) \in Nat /\ join[d] \in Nat /\ n \in Nat /\ k \in Nat
        /\ InFlight(d) \in {0, 1}
    BY HandedInNat DEF IInv, TypeOK
  <2>2. join[d] + n + InFlight(d) + k <= Len(log)
    <3>1. Handed(d) = n + InFlight(d) + k
      BY DEF Handed
    <3>2. join[d] + Handed(d) <= Len(log)
      BY DEF IInv, Conserved, ClientsAccounted, Accounted
    <3> HIDE DEF n, k
    <3>3. QED
      BY <3>1, <3>2, <2>1
  <2>3. \A i \in 1..Len(log) : log'[i] = log[i]
    BY <1>4 DEF RunTake, IInv, TypeOK
  <2>4. /\ join' = join /\ written' = written /\ stream' = stream /\ cmsg' = cmsg
        /\ InFlight(d)' = InFlight(d)
    BY <1>4 DEF RunTake, clientVars, InFlight
  <2>5. WrittenMatches(d)'
    <3>1. \A i \in 1..n : join[d] + i \in 1..Len(log)
      BY <2>1, <2>2
    <3>2. QED
      BY <3>1, <2>3, <2>4 DEF IInv, Content, WrittenMatches
  <2>6. WritingMatches(d)'
    <3>1. cmsg[d] \in Events => join[d] + n + 1 \in 1..Len(log)
      BY <2>1, <2>2 DEF InFlight
    <3>2. QED
      BY <3>1, <2>3, <2>4 DEF IInv, Content, WritingMatches
  <2>7. StreamMatches(d)'
    <3>1. \A i \in 1..k : join[d] + n + InFlight(d) + i \in 1..Len(log)
      BY <2>1, <2>2
    <3>2. QED
      BY <3>1, <2>3, <2>4 DEF IInv, Content, StreamMatches
  <2>8. QED
    BY <2>5, <2>6, <2>7
<1>5. CASE RunFanoutDone
  BY <1>5 DEF RunFanoutDone, brokerVars, clientVars, pubVars, ctxVars,
     IInv, Content, WrittenMatches, WritingMatches, StreamMatches, InFlight
<1>6. ASSUME NEW c \in Clients, RunRemove(c)
      PROVE  Content'
  BY <1>6 DEF RunRemove, brokerVars, clientVars, pubVars, ctxVars,
     IInv, Content, WrittenMatches, WritingMatches, StreamMatches, InFlight
<1>7. ASSUME NEW c \in Clients, RunAdd(c)
      PROVE  Content'
  <2> SUFFICES ASSUME NEW d \in Clients
               PROVE  WrittenMatches(d)' /\ WritingMatches(d)' /\ StreamMatches(d)'
    BY DEF Content
  <2>1. CASE d = c
    <3>1. written[c] = <<>> /\ stream[c] = <<>> /\ cmsg[c] \notin Events
      BY <1>7, HandedInNat DEF RunAdd, IInv, TypeOK, Conserved, ClientsAccounted, Accounted,
                               Handed, InFlight
    <3>2. written' = written /\ stream' = stream /\ cmsg' = cmsg
      BY <1>7 DEF RunAdd
    <3>3. QED
      BY <2>1, <3>1, <3>2 DEF WrittenMatches, WritingMatches, StreamMatches
  <2>2. CASE d # c
    BY <1>7, <2>2 DEF RunAdd, IInv, TypeOK, Content, WrittenMatches,
                      WritingMatches, StreamMatches, InFlight
  <2>3. QED
    BY <2>1, <2>2
<1>8. ASSUME NEW c \in Clients, RunPick(c)
      PROVE  Content'
  BY <1>8 DEF RunPick, brokerVars, clientVars, pubVars, ctxVars,
     IInv, Content, WrittenMatches, WritingMatches, StreamMatches, InFlight
<1>9. ASSUME NEW c \in Clients, RunSend(c)
      PROVE  Content'
  <2> SUFFICES ASSUME NEW d \in Clients
               PROVE  WrittenMatches(d)' /\ WritingMatches(d)' /\ StreamMatches(d)'
    BY DEF Content
  <2>1. /\ join' = join /\ written' = written /\ cmsg' = cmsg /\ log' = log
        /\ InFlight(d)' = InFlight(d)
    BY <1>9 DEF RunSend, InFlight
  <2>2. WrittenMatches(d)' /\ WritingMatches(d)'
    BY <2>1 DEF IInv, Content, WrittenMatches, WritingMatches
  <2>3. CASE d = c
    <3>1. /\ stream[c] \in Seq(Events) /\ evt \in Events
          /\ stream'[c] = Append(stream[c], evt)
      <4>1. bpc = "fanout" /\ log # <<>>
        BY <1>9, BrokerAssumption DEF RunSend, IInv, RegistrationAgrees, FanoutShape
      <4>2. QED
        BY <1>9, <4>1, EvtInEvents DEF RunSend, IInv, TypeOK
    <3>2. /\ Len(stream'[c]) = Len(stream[c]) + 1
          /\ stream'[c][Len(stream[c]) + 1] = evt
          /\ \A i \in 1..Len(stream[c]) : stream'[c][i] = stream[c][i]
      BY <3>1
    <3>3. join[c] + Handed(c) + 1 = Len(log)
      <4>1. c \in clients /\ Owed(c) = 1
        BY <1>9, BrokerAssumption DEF RunSend, IInv, RegistrationAgrees, Owed
      <4>2. QED
        BY <4>1 DEF IInv, Conserved, ClientsAccounted, Accounted
    <3>4. Handed(c) = Len(written[c]) + InFlight(c) + Len(stream[c])
      BY DEF Handed
    <3>5. /\ join[c] \in Nat /\ Len(written[c]) \in Nat /\ Len(stream[c]) \in Nat
          /\ InFlight(c) \in Nat /\ Handed(c) \in Nat
      BY HandedInNat DEF IInv, TypeOK
    <3>6. Len(log) = join[c] + Len(written[c]) + InFlight(c) + (Len(stream[c]) + 1)
      <4> DEFINE w == Len(written[c])
                 h == InFlight(c)
                 k == Len(stream[c])
                 n == join[c]
      <4>1. n \in Nat /\ w \in Nat /\ h \in Nat /\ k \in Nat
        BY <3>5
      <4>2. Len(log) = n + (w + h + k) + 1
        BY <3>3, <3>4
      <4> HIDE DEF n, w, h, k
      <4>3. Len(log) = n + w + h + (k + 1)
        BY <4>1, <4>2
      <4>4. QED
        BY <4>3 DEF n, w, h, k
    <3>7. evt = log[join[c] + Len(written[c]) + InFlight(c) + (Len(stream[c]) + 1)]
      BY <3>6 DEF evt
    <3>8. StreamMatches(c)
      BY DEF IInv, Content
    <3>9. ASSUME NEW i \in 1..Len(stream'[c])
          PROVE  stream'[c][i] = log[join[c] + Len(written[c]) + InFlight(c) + i]
      <4>1. i \in 1..Len(stream[c]) \/ i = Len(stream[c]) + 1
        BY <3>2, <3>5
      <4>2. QED
        BY <4>1, <3>2, <3>7, <3>8 DEF StreamMatches
    <3>10. QED
      BY <2>1, <2>2, <2>3, <3>9 DEF StreamMatches
  <2>4. CASE d # c
    BY <1>9, <2>1, <2>2, <2>4 DEF RunSend, IInv, Content, StreamMatches, TypeOK
  <2>5. QED
    BY <2>3, <2>4
<1>10. ASSUME NEW c \in Clients, Accept(c)
      PROVE  Content'
  BY <1>10 DEF Accept, brokerVars, clientVars, pubVars, ctxVars,
     IInv, Content, WrittenMatches, WritingMatches, StreamMatches, InFlight
<1>11. ASSUME NEW c \in Clients, ClientDone(c)
      PROVE  Content'
  BY <1>11 DEF ClientDone, brokerVars, clientVars, pubVars, ctxVars,
     IInv, Content, WrittenMatches, WritingMatches, StreamMatches, InFlight
<1>12. ASSUME NEW c \in Clients, ClientTake(c)
      PROVE  Content'
  <2> SUFFICES ASSUME NEW d \in Clients
               PROVE  WrittenMatches(d)' /\ WritingMatches(d)' /\ StreamMatches(d)'
    BY DEF Content
  <2>1. join' = join /\ written' = written /\ log' = log
    BY <1>12 DEF ClientTake, brokerVars
  <2>2. WrittenMatches(d)'
    BY <2>1 DEF IInv, Content, WrittenMatches
  <2>3. CASE d = c
    <3>1. /\ InFlight(c) = 0 /\ InFlight(c)' = 1
          /\ cmsg'[c] = stream[c][1]
          /\ Len(stream'[c]) = Len(stream[c]) - 1
          /\ \A i \in 1..Len(stream'[c]) : stream'[c][i] = stream[c][i + 1]
      BY <1>12, BrokerAssumption DEF ClientTake, IInv, TypeOK, Holding, InFlight
    <3>2. /\ Len(stream[c]) \in Nat \ {0} /\ join[c] + Len(written[c]) \in Nat
      BY <1>12 DEF ClientTake, IInv, TypeOK
    <3>3. \A i \in 1..Len(stream[c]) :
            stream[c][i] = log[join[c] + Len(written[c]) + i]
      BY <3>1, <3>2 DEF IInv, Content, StreamMatches
    <3>4. WritingMatches(c)'
      BY <3>1, <3>2, <3>3, <2>1 DEF WritingMatches
    <3>5. ASSUME NEW i \in 1..Len(stream'[c])
          PROVE  stream'[c][i] = log[join[c] + Len(written[c]) + 1 + i]
      <4>1. i \in Nat /\ i + 1 \in 1..Len(stream[c])
        BY <3>1, <3>2
      <4>2. join[c] + Len(written[c]) + (i + 1) = join[c] + Len(written[c]) + 1 + i
        BY <4>1, <3>2
      <4>3. QED
        BY <4>1, <4>2, <3>1, <3>3
    <3>6. StreamMatches(c)'
      BY <3>1, <3>5, <2>1 DEF StreamMatches
    <3>7. QED
      BY <2>2, <2>3, <3>4, <3>6
  <2>4. CASE d # c
    BY <1>12, <2>1, <2>2, <2>4 DEF ClientTake, IInv, Content, StreamMatches,
                                  WritingMatches, InFlight, TypeOK
  <2>5. QED
    BY <2>3, <2>4
<1>13. ASSUME NEW c \in Clients, ClientTick(c)
      PROVE  Content'
  <2> SUFFICES ASSUME NEW d \in Clients
               PROVE  WrittenMatches(d)' /\ WritingMatches(d)' /\ StreamMatches(d)'
    BY DEF Content
  <2>1. /\ join' = join /\ written' = written /\ log' = log /\ stream' = stream
        /\ InFlight(d)' = InFlight(d)
        /\ cmsg'[d] \in Events => cmsg'[d] = cmsg[d]
    BY <1>13, BrokerAssumption DEF ClientTick, IInv, TypeOK, Holding, InFlight, brokerVars
  <2>2. QED
    BY <2>1 DEF IInv, Content, WrittenMatches, WritingMatches, StreamMatches
<1>14. ASSUME NEW c \in Clients, WriteDone(c)
      PROVE  Content'
  <2> SUFFICES ASSUME NEW d \in Clients
               PROVE  WrittenMatches(d)' /\ WritingMatches(d)' /\ StreamMatches(d)'
    BY DEF Content
  <2>1. join' = join /\ stream' = stream /\ log' = log
    BY <1>14 DEF WriteDone, brokerVars
  <2>2. CASE d = c /\ cmsg[c] # Ping
    <3>1. /\ cmsg[c] \in Events /\ InFlight(c) = 1
          /\ cmsg'[c] \notin Events /\ InFlight(c)' = 0
          /\ written'[c] = Append(written[c], cmsg[c])
      BY <1>14, <2>2, BrokerAssumption DEF WriteDone, IInv, TypeOK, Holding, InFlight
    <3>2. /\ Len(written[c]) \in Nat /\ join[c] \in Nat
          /\ Len(written'[c]) = Len(written[c]) + 1
          /\ written'[c][Len(written[c]) + 1] = cmsg[c]
          /\ \A i \in 1..Len(written[c]) : written'[c][i] = written[c][i]
      BY <3>1 DEF IInv, TypeOK
    <3>3. WrittenMatches(c) /\ WritingMatches(c) /\ StreamMatches(c)
      BY DEF IInv, Content
    <3>4. ASSUME NEW i \in 1..Len(written'[c])
          PROVE  written'[c][i] = log[join[c] + i]
      <4>1. CASE i \in 1..Len(written[c])
        BY <4>1, <3>2, <3>3 DEF WrittenMatches
      <4>2. CASE i = Len(written[c]) + 1
        <5>1. join[c] + i = join[c] + Len(written[c]) + 1
          BY <4>2, <3>2
        <5>2. QED
          BY <4>2, <5>1, <3>1, <3>2, <3>3 DEF WritingMatches
      <4>3. QED
        BY <4>1, <4>2, <3>2
    <3>5. WrittenMatches(c)'
      BY <3>4, <2>1 DEF WrittenMatches
    <3>6. ASSUME NEW i \in 1..Len(stream[c])
          PROVE  stream[c][i] = log[join[c] + Len(written'[c]) + 0 + i]
      <4>1. stream[c][i] = log[join[c] + Len(written[c]) + 1 + i]
        BY <3>1, <3>3 DEF StreamMatches
      <4>2. i \in Nat
        OBVIOUS
      <4>3. join[c] + Len(written'[c]) + 0 + i = join[c] + Len(written[c]) + 1 + i
        BY <3>2, <4>2
      <4>4. QED
        BY <4>1, <4>3
    <3>7. StreamMatches(c)'
      BY <3>1, <3>6, <2>1 DEF StreamMatches
    <3>8. QED
      BY <2>2, <3>1, <3>5, <3>7 DEF WritingMatches
  <2>3. CASE d # c \/ cmsg[c] = Ping
    <3>1. /\ written'[d] = written[d] /\ InFlight(d)' = InFlight(d)
          /\ cmsg'[d] \in Events => cmsg'[d] = cmsg[d]
      BY <1>14, <2>3, BrokerAssumption DEF WriteDone, IInv, TypeOK, InFlight
    <3>2. QED
      BY <2>1, <3>1 DEF IInv, Content, WrittenMatches, WritingMatches, StreamMatches
  <2>4. QED
    BY <2>2, <2>3
<1>15. ASSUME NEW c \in Clients, WriteFail(c)
      PROVE  Content'
  BY <1>15 DEF WriteFail, brokerVars, clientVars, pubVars, ctxVars,
     IInv, Content, WrittenMatches, WritingMatches, StreamMatches, InFlight
<1>16. CASE Cancel
  BY <1>16 DEF Cancel, brokerVars, clientVars, pubVars, ctxVars,
     IInv, Content, WrittenMatches, WritingMatches, StreamMatches, InFlight
<1>17. CASE CloseListener
  BY <1>17 DEF CloseListener, brokerVars, clientVars, pubVars, ctxVars,
     IInv, Content, WrittenMatches, WritingMatches, StreamMatches, InFlight
<1>18. CASE UNCHANGED vars
  BY <1>18 DEF vars, brokerVars, clientVars, pubVars, ctxVars,
     IInv, Content, WrittenMatches, WritingMatches, StreamMatches, InFlight
<1>19. QED
  BY <1>1, <1>2, <1>3, <1>4, <1>5, <1>6, <1>7, <1>8, <1>9, <1>10,
     <1>11, <1>12, <1>13, <1>14, <1>15, <1>16, <1>17, <1>18
     DEF Next, PublisherStep, RunStep, ClientStep

(* The inductive invariant holds at the start and is kept by every step.    *)
LEMMA InitIInv == Init => IInv
<1> SUFFICES ASSUME Init PROVE IInv
  OBVIOUS
<1> USE BrokerAssumption DEF Init
<1>1. TypeOK
  <2>1. events \in Seq(Events) /\ Len(events) <= EventCap /\ log \in Seq(Events)
    OBVIOUS
  <2>2. /\ stream \in [Clients -> Seq(Events)] /\ written \in [Clients -> Seq(Events)]
        /\ \A c \in Clients : Len(stream[c]) <= StreamCap
    OBVIOUS
  <2>3. published \in 0..MaxPublished /\ join \in [Clients -> Nat]
    OBVIOUS
  <2>4. QED
    BY <2>1, <2>2, <2>3 DEF TypeOK, ClientStates
<1>2. RegistrationAgrees
  BY DEF RegistrationAgrees
<1>3. FanoutShape /\ Holding
  BY DEF FanoutShape, Holding
<1>4. ClientsAccounted
  <2> SUFFICES ASSUME NEW c \in Clients PROVE Accounted(c)
    BY DEF ClientsAccounted
  <2>1. InFlight(c) = 0 /\ Len(written[c]) = 0 /\ Len(stream[c]) = 0
    BY DEF InFlight
  <2>2. Handed(c) = 0
    BY <2>1 DEF Handed
  <2>3. Len(log) = 0 /\ join[c] = 0 /\ c \notin clients
    OBVIOUS
  <2>4. QED
    BY <2>2, <2>3 DEF Accounted
<1>5. Content
  <2> SUFFICES ASSUME NEW c \in Clients
               PROVE  WrittenMatches(c) /\ WritingMatches(c) /\ StreamMatches(c)
    BY DEF Content
  <2>1. Len(written[c]) = 0 /\ Len(stream[c]) = 0 /\ cmsg[c] \notin Events
    OBVIOUS
  <2>2. QED
    BY <2>1 DEF WrittenMatches, WritingMatches, StreamMatches
<1>6. PublishedKept /\ IsFiniteSet(Waiting)
  <2>1. Waiting = {} /\ Len(events) = 0 /\ Len(log) = 0
    BY DEF Waiting
  <2>2. QED
    BY <2>1, FS_EmptySet DEF PublishedKept
<1>7. QED
  BY <1>1, <1>2, <1>3, <1>4, <1>5, <1>6 DEF IInv, Conserved

LEMMA IInvStep == IInv /\ [Next]_vars => IInv'
  BY TypeStep, RegistrationStep, FanoutStep, HoldingStep, AccountedStep,
     PublishedStep, ContentStep DEF IInv, Conserved

LEMMA IInvAlways == Spec => []IInv
  BY InitIInv, IInvStep, PTL DEF Spec

(* No more is written to a pipe than was published. *)
LEMMA WrittenBounded ==
  ASSUME IInv, NEW c \in Clients
  PROVE  written[c] \in Seq(Events) /\ Len(written[c]) \in 0..MaxPublished
<1>1. /\ written[c] \in Seq(Events) /\ Len(written[c]) \in Nat /\ Len(stream[c]) \in Nat
      /\ Len(events) \in Nat /\ published \in Nat /\ published <= MaxPublished
  BY BrokerAssumption DEF IInv, TypeOK
<1>2. InFlight(c) \in {0, 1} /\ Handed(c) \in Nat /\ join[c] \in Nat /\ Len(log) \in Nat
  BY HandedInNat DEF IInv
<1>3. Handed(c) = Len(written[c]) + InFlight(c) + Len(stream[c])
  BY DEF Handed
<1>4. join[c] + Handed(c) <= Len(log)
  BY DEF IInv, Conserved, ClientsAccounted, Accounted
<1>5. Cardinality(Waiting) \in Nat /\ Cardinality(Waiting) + Len(events) + Len(log) = published
  BY FS_CardinalityType DEF IInv, Conserved, PublishedKept
<1> DEFINE w == Len(written[c])
           k == Len(stream[c])
           h == InFlight(c)
           l == Len(log)
           e == Len(events)
           b == Cardinality(Waiting)
<1>6. w \in Nat /\ k \in Nat /\ h \in Nat /\ l \in Nat /\ e \in Nat /\ b \in Nat
  BY <1>1, <1>2, <1>5
<1>7. join[c] + (w + h + k) <= l /\ b + e + l = published
  BY <1>3, <1>4, <1>5
<1> HIDE DEF w, k, h, l, e, b
<1>8. w <= MaxPublished
  BY <1>1, <1>2, <1>6, <1>7, BrokerAssumption
<1>9. QED
  BY <1>1, <1>6, <1>8, BrokerAssumption DEF w

-----------------------------------------------------------------------------
(* Every variable keeps its type, and no channel exceeds its capacity. *)
THEOREM TypeCorrect == Spec => []TypeOK
<1>1. IInv => TypeOK
  BY DEF IInv
<1>2. QED
  BY <1>1, IInvAlways, PTL

(* Run never sends to a channel whose goroutine it has released. *)
THEOREM RegistrationCorrect == Spec => []RegistrationAgrees
<1>1. IInv => RegistrationAgrees
  BY DEF IInv
<1>2. QED
  BY <1>1, IInvAlways, PTL

(* Between the log and a registered client no event is lost or duplicated. *)
THEOREM ConservationCorrect == Spec => []Conserved
<1>1. IInv => Conserved
  BY DEF IInv
<1>2. QED
  BY <1>1, IInvAlways, PTL

(* What was written is the log from where the client joined. *)
LEMMA InvInOrder == IInv => InOrderNoGap
<1> SUFFICES ASSUME IInv, NEW c \in Clients
             PROVE  /\ join[c] + Len(written[c]) <= Len(log)
                    /\ WrittenMatches(c)
  BY DEF InOrderNoGap, WrittenMatches
<1> DEFINE n == join[c]
           w == Len(written[c])
           h == InFlight(c)
           k == Len(stream[c])
<1>1. n \in Nat /\ w \in Nat /\ h \in {0, 1} /\ k \in Nat /\ Len(log) \in Nat
  BY HandedInNat DEF IInv, TypeOK
<1>2. n + (w + h + k) <= Len(log)
  BY DEF IInv, Conserved, ClientsAccounted, Accounted, Handed
<1> HIDE DEF n, w, h, k
<1>3. n + w <= Len(log)
  BY <1>1, <1>2
<1>4. QED
  BY <1>3 DEF IInv, Content, n, w

(* Every pipe receives a contiguous run of the published events, in order,  *)
(* from the first one taken after its registration.                         *)
THEOREM OrderCorrect == Spec => []InOrderNoGap
  BY InvInOrder, IInvAlways, PTL

(* The backlog of a registered client is bounded by the two channels and   *)
(* the events in the hands of Run and of the client's goroutine.            *)
THEOREM BacklogCorrect == Spec => []BoundedBacklog
<1>1. IInv => BoundedBacklog
  <2> SUFFICES ASSUME IInv, NEW c \in clients
               PROVE  Len(log) + Len(events)
                        <= join[c] + Len(written[c]) + EventCap + StreamCap + 2
    BY DEF BoundedBacklog
  <2>1. c \in Clients
    BY DEF IInv, TypeOK
  <2> DEFINE n == join[c]
             w == Len(written[c])
             h == InFlight(c)
             k == Len(stream[c])
             o == Owed(c)
  <2>2. /\ n \in Nat /\ w \in Nat /\ k \in Nat /\ Len(log) \in Nat
        /\ h \in {0, 1} /\ o \in {0, 1}
        /\ k <= StreamCap /\ Len(events) \in Nat /\ Len(events) <= EventCap
    BY <2>1, HandedInNat DEF IInv, TypeOK
  <2>3. n + (w + h + k) + o = Len(log)
    BY <2>1 DEF IInv, Conserved, ClientsAccounted, Accounted, Handed
  <2> HIDE DEF n, w, h, k, o
  <2>4. Len(log) + Len(events) <= n + w + EventCap + StreamCap + 2
    BY <2>2, <2>3, BrokerAssumption
  <2>5. QED
    BY <2>4 DEF n, w
<1>2. QED
  BY <1>1, IInvAlways, PTL

-----------------------------------------------------------------------------
(* Once Run waits for a departing client with a full channel, it does so    *)
(* for ever: no step of any goroutine, and no cancellation, ends it.        *)
THEOREM WedgeCorrect == Spec => WedgeIsForever
<1>1. IInv /\ [Next]_vars => [\A c \in Clients : WedgedOn(c) => WedgedOn(c)']_vars
  <2> SUFFICES ASSUME IInv, [Next]_vars, NEW d \in Clients, WedgedOn(d)
               PROVE  WedgedOn(d)'
    OBVIOUS
  <2>1. bpc = "fanout" /\ cur = d /\ cur # NoClient
    BY BrokerAssumption DEF IInv, RegistrationAgrees, WedgedOn
  <2>2. ASSUME NEW c \in Clients, ClientStep(c)
        PROVE  WedgedOn(d)'
    BY <2>1, <2>2 DEF IInv, TypeOK, WedgedOn, ClientStep, Accept, ClientDone,
                      ClientTake, ClientTick, WriteDone, WriteFail, brokerVars
  <2>3. ASSUME NEW p \in Publishers, PublisherStep(p)
        PROVE  WedgedOn(d)'
    BY <2>3 DEF WedgedOn, PublisherStep, PublishCall, PublishSend, brokerVars,
                clientVars
  <2>4. ASSUME NEW c \in Clients, RunSend(c)
        PROVE  FALSE
    BY <2>1, <2>4 DEF RunSend, WedgedOn, IInv, TypeOK
  <2>5. ASSUME RunStep
        PROVE  WedgedOn(d)'
    BY <2>1, <2>4, <2>5 DEF RunStep, RunStop, RunTake, RunFanoutDone, RunRemove,
                            RunAdd, RunPick
  <2>6. CASE Cancel \/ CloseListener \/ UNCHANGED vars
    BY <2>6 DEF Cancel, CloseListener, vars, brokerVars, clientVars, WedgedOn
  <2>7. QED
    BY <2>2, <2>3, <2>5, <2>6 DEF Next
<1>2. QED
  BY <1>1, IInvAlways, PTL DEF Spec, WedgeIsForever

-----------------------------------------------------------------------------
(* DataBroker implements FanOut, step by step. *)

(* Between two fan-outs every registered client has been handed the log. *)
LEMMA CaughtUp ==
  ASSUME IInv, bpc = "select"
  PROVE  Abstract!AllCaughtUp
<1> SUFFICES ASSUME NEW c \in clients
             PROVE  join[c] + Handed(c) = Len(log)
  BY DEF Abstract!AllCaughtUp, Position, IInv, TypeOK
<1>1. c \in Clients /\ Owed(c) = 0
  BY BrokerAssumption DEF IInv, TypeOK, RegistrationAgrees, Owed
<1>2. join[c] + Handed(c) + 0 = Len(log)
  BY <1>1 DEF IInv, Conserved, ClientsAccounted, Accounted
<1>3. QED
  BY <1>1, <1>2, HandedInNat DEF IInv

(* Nothing but a registration or a send changes how far a client is served. *)
LEMMA PositionKept ==
  ASSUME join' = join, \A d \in Clients : Handed(d)' = Handed(d)
  PROVE  Position' = Position
  BY DEF Position

LEMMA RefinesNext == IInv /\ [Next]_vars => [Abstract!Next]_(Abstract!vars)
<1> SUFFICES ASSUME IInv, [Next]_vars
             PROVE  Abstract!Next \/ UNCHANGED Abstract!vars
  OBVIOUS
<1>1. ASSUME UNCHANGED clientVars, UNCHANGED <<log, clients>>
      PROVE  UNCHANGED Abstract!vars
  BY <1>1, PositionKept DEF clientVars, Handed, InFlight, Abstract!vars
<1>2. ASSUME NEW p \in Publishers, PublisherStep(p)
      PROVE  UNCHANGED Abstract!vars
  BY <1>1, <1>2 DEF PublisherStep, PublishCall, PublishSend, brokerVars
<1>3. CASE RunStop \/ RunFanoutDone \/ Cancel \/ CloseListener \/ UNCHANGED vars
  BY <1>1, <1>3 DEF RunStop, RunFanoutDone, Cancel, CloseListener, brokerVars, vars
<1>4. CASE RunTake
  <2>1. Abstract!AllCaughtUp
    BY <1>4, CaughtUp DEF RunTake
  <2>2. Position' = Position
    BY <1>4, PositionKept DEF RunTake, clientVars, Handed, InFlight
  <2>3. Head(events) \in Events
    BY <1>4 DEF RunTake, IInv, TypeOK
  <2>4. Abstract!Broadcast(Head(events))
    BY <1>4, <2>1, <2>2 DEF RunTake, Abstract!Broadcast
  <2>5. QED
    BY <2>3, <2>4 DEF Abstract!Next
<1>5. ASSUME NEW c \in Clients, RunRemove(c)
      PROVE  Abstract!Unsubscribe(c)
  <2>1. Abstract!AllCaughtUp /\ c \in clients
    BY <1>5, CaughtUp DEF RunRemove, IInv, RegistrationAgrees
  <2>2. Position' = Position
    BY <1>5, PositionKept DEF RunRemove, Handed, InFlight
  <2>3. QED
    BY <1>5, <2>1, <2>2 DEF RunRemove, Abstract!Unsubscribe
<1>6. ASSUME NEW c \in Clients, RunAdd(c)
      PROVE  Abstract!Subscribe(c)
  <2>1. Abstract!AllCaughtUp /\ c \notin clients
    BY <1>6, CaughtUp DEF RunAdd, IInv, RegistrationAgrees
  <2>2. \A d \in Clients : Handed(d)' = Handed(d)
    BY <1>6 DEF RunAdd, Handed, InFlight
  <2>3. Handed(c) = 0 /\ join' = [join EXCEPT ![c] = Len(log)]
    BY <1>6 DEF RunAdd, IInv, Conserved, ClientsAccounted, Accounted
  <2>4. Len(log) + 0 = Len(log)
    BY DEF IInv, TypeOK
  <2>5. Position' = [Position EXCEPT ![c] = Len(log)]
    BY <2>2, <2>3, <2>4 DEF Position, IInv, TypeOK
  <2>6. QED
    BY <1>6, <2>1, <2>5 DEF RunAdd, Abstract!Subscribe
<1>7. ASSUME NEW c \in Clients, RunPick(c)
      PROVE  UNCHANGED Abstract!vars
  BY <1>1, <1>7 DEF RunPick
<1>8. ASSUME NEW c \in Clients, RunSend(c)
      PROVE  Abstract!Hand(c)
  <2>1. /\ c \in clients /\ Owed(c) = 1 /\ Handed(c)' = Handed(c) + 1
        /\ \A d \in Clients \ {c} : Handed(d)' = Handed(d)
    BY <1>8, HandedSent
  <2>2. join[c] + Handed(c) + 1 = Len(log)
    BY <2>1 DEF IInv, Conserved, ClientsAccounted, Accounted
  <2>3. Handed(c) \in Nat /\ join[c] \in Nat /\ Len(log) \in Nat
    BY HandedInNat DEF IInv
  <2>4. join[c] + (Handed(c) + 1) = (join[c] + Handed(c)) + 1
    BY <2>3
  <2>5. join[c] + Handed(c) < Len(log)
    BY <2>2, <2>3
  <2>6. join' = join /\ log' = log /\ clients' = clients
    BY <1>8 DEF RunSend
  <2>7. Position' = [Position EXCEPT ![c] = @ + 1]
    BY <2>1, <2>4, <2>6 DEF Position
  <2>8. QED
    BY <2>1, <2>5, <2>6, <2>7 DEF Abstract!Hand, Position
<1>9. ASSUME NEW c \in Clients, ClientStep(c)
      PROVE  UNCHANGED Abstract!vars
  <2>1. CASE ClientTake(c) \/ ClientTick(c) \/ WriteDone(c)
    BY <2>1, HandedKept, PositionKept
       DEF ClientTake, ClientTick, WriteDone, brokerVars, Abstract!vars
  <2>2. CASE Accept(c) \/ ClientDone(c) \/ WriteFail(c)
    BY <2>2, PositionKept
       DEF Accept, ClientDone, WriteFail, brokerVars, Abstract!vars, Handed, InFlight
  <2>3. QED
    BY <1>9, <2>1, <2>2 DEF ClientStep
<1>10. QED
  BY <1>2, <1>3, <1>4, <1>5, <1>6, <1>7, <1>8, <1>9 DEF Next, RunStep, Abstract!Next

(* The broker with its pipe clients implements the abstract fan-out log.   *)
THEOREM BrokerImplementsFanOut == Spec => ImplementsFanOut
<1>1. Init => Abstract!Init
  <2> SUFFICES ASSUME Init PROVE Abstract!Init
    OBVIOUS
  <2>1. \A c \in Clients : join[c] + Handed(c) = 0
    <3>1. IInv
      BY InitIInv
    <3>2. ASSUME NEW c \in Clients
          PROVE  Handed(c) = 0
      BY <3>1 DEF Init, IInv, Conserved, ClientsAccounted, Accounted
    <3>3. \A c \in Clients : join[c] = 0
      BY DEF Init
    <3>4. 0 + 0 = 0
      OBVIOUS
    <3>5. QED
      BY <3>2, <3>3, <3>4
  <2>2. QED
    BY <2>1 DEF Init, Abstract!Init, Position
<1>2. QED
  BY <1>1, RefinesNext, IInvAlways, PTL DEF Spec, ImplementsFanOut, Abstract!Spec

=============================================================================
