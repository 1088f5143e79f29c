-------------------------- MODULE ConnectorProofs --------------------------
(***************************************************************************)
(* Theorems about Connector, for any clients, chat and pubsub publishers,  *)
(* events and capacities.                                                  *)
(*                                                                         *)
(* The names Stop polls are exactly those of the services that run         *)
(* (NamesAgree), and no service goes back to having no name; so what the   *)
(* poll misses had none when it began.                                     *)
(***************************************************************************)
EXTENDS Connector, SequenceInduction, TLAPS

BrokerTheorems == INSTANCE DataBrokerProofs

Places == {"added", "running", "loop", "publish", "waiting", "ended"}

(* The map of names is the set of the services that run, and a service     *)
(* that has not started while names are polled counts as late.             *)
NamesAgree ==
  /\ svc \in [Services -> Places]
  /\ stored = {s \in Services : svc[s] \notin {"added", "ended"}}
  /\ main \in {"serving", "tick", "range", "exited"}
  /\ main = "range" => \A s \in Services : svc[s] = "added" => s \in late

StopInv == NamesAgree /\ StopMissesOnlyLate

LEMMA StopInit == Init => StopInv
BY DEF Init, StopInv, NamesAgree, StopMissesOnlyLate, Places

(* A step that leaves every service and the shutdown where they are. *)
LEMMA StopKept ==
  ASSUME StopInv, UNCHANGED <<svc, stored, main, late>>
  PROVE  StopInv'
BY DEF StopInv, NamesAgree, StopMissesOnlyLate

(* A service starts, moves on, or ends. *)
LEMMA ServiceMoves ==
  ASSUME StopInv, NEW s \in Services, NEW to \in Places \ {"added"},
         main # "exited", main' = main,
         late' = IF to = "ended" THEN late \ {s} ELSE late,
         svc' = [svc EXCEPT ![s] = to],
         stored' = IF to = "ended" THEN stored \ {s} ELSE stored \cup {s}
  PROVE  StopInv'
<1>1. svc' \in [Services -> Places] /\ \A t \in Services : svc'[t] = IF t = s THEN to ELSE svc[t]
      BY DEF StopInv, NamesAgree
<1>2. stored' = {t \in Services : svc'[t] \notin {"added", "ended"}}
      BY <1>1 DEF StopInv, NamesAgree, Places
<1>3. main' = "range" => \A t \in Services : svc'[t] = "added" => t \in late'
      BY <1>1 DEF StopInv, NamesAgree
<1>4. NamesAgree'
      BY <1>1, <1>2, <1>3 DEF StopInv, NamesAgree
<1>5. StopMissesOnlyLate'
      BY DEF StopMissesOnlyLate
<1>6. QED BY <1>4, <1>5 DEF StopInv

LEMMA StopStep == StopInv /\ [Next]_vars => StopInv'
<1> SUFFICES ASSUME StopInv, [Next]_vars
             PROVE  StopInv'
    OBVIOUS
<1>1. ASSUME NEW s \in Services, Start(s)
      PROVE  StopInv'
      BY <1>1, ServiceMoves DEF Start, Places, stopVars
<1>2. CASE Interrupt
      BY <1>2 DEF Interrupt, StopInv, NamesAgree, StopMissesOnlyLate
<1>3. CASE RangeBegin
      BY <1>3 DEF RangeBegin, StopInv, NamesAgree, StopMissesOnlyLate
<1>4. CASE RangeFinds
      BY <1>4 DEF RangeFinds, StopInv, NamesAgree, StopMissesOnlyLate
<1>5. CASE RangeFindsNone
  <2>1. /\ main = "range" /\ main' = "exited" /\ stored \subseteq late
        /\ UNCHANGED <<svc, stored, late>>
        BY <1>5 DEF RangeFindsNone
  <2>2. ASSUME NEW s \in Services, svc[s] # "ended"
        PROVE  s \in late
    <3>1. CASE svc[s] = "added"
          BY <3>1, <2>1 DEF StopInv, NamesAgree
    <3>2. CASE svc[s] # "added"
          BY <3>2, <2>1, <2>2 DEF StopInv, NamesAgree
    <3>3. QED BY <3>1, <3>2
  <2>3. QED BY <2>1, <2>2 DEF StopInv, NamesAgree, StopMissesOnlyLate
<1>6. ASSUME NEW s \in Services, Running(s), Ends(s)
      PROVE  StopInv'
      BY <1>6, ServiceMoves DEF Running, Ends, Places
<1>7. CASE StopperCloses \/ BrokerEnds \/ PipesEnd
      BY <1>7, <1>6 DEF StopperCloses, BrokerEnds, PipesEnd, Services
<1>8. CASE \/ BrokerRuns \/ (\E c \in Clients : PipeAccepts(c) \/ ClientRuns(c))
           \/ (\E s \in Twitch : TwitchPublishes(s)) \/ UNCHANGED vars
      BY <1>8, StopKept DEF BrokerRuns, PipeAccepts, ClientRuns, TwitchPublishes, vars, stopVars
<1>9. CASE SeGivesUp \/ SeWaited \/ \E s \in TwitchServices : TwitchEnds(s)
      BY <1>9, <1>6 DEF SeGivesUp, SeWaited, TwitchEnds, Services
<1>10. ASSUME NEW to \in {"loop", "publish", "waiting"}, svc' = [svc EXCEPT ![Se] = to], Running(Se),
              stored' = stored, UNCHANGED stopVars
       PROVE  StopInv'
  <2>1. Se \in Services /\ stored = stored \cup {Se}
        BY <1>10 DEF Services, Running, StopInv, NamesAgree
  <2>2. QED BY <2>1, <1>10, ServiceMoves DEF Running, Places, stopVars
<1>11. CASE SeConnects \/ SePublished \/ SeDone \/ \E e \in Events : SeTakes(e)
       BY <1>11, <1>10 DEF SeConnects, SePublished, SeDone, SeTakes
<1>12. QED BY <1>1, <1>2, <1>3, <1>4, <1>5, <1>7, <1>8, <1>9, <1>11
           DEF Next, Stop, StreamElements

(* The process ends under no service that works: those still running when  *)
(* Stop returns had not stored their name when its last poll began.        *)
THEOREM StopCorrect == Spec => []StopMissesOnlyLate
<1>1. StopInv => StopMissesOnlyLate
      BY DEF StopInv
<1>2. QED BY StopInit, StopStep, <1>1, PTL DEF Spec

-----------------------------------------------------------------------------
(* The broker. *)

LEMMA BrokerStutters ==
  ASSUME UNCHANGED brokerVars
  PROVE  UNCHANGED Broker!vars
BY DEF brokerVars, Broker!vars, Broker!brokerVars, Broker!clientVars, Broker!pubVars,
       Broker!ctxVars

LEMMA BrokerStep == [Next]_vars => [Broker!Next]_(Broker!vars)
<1> SUFFICES ASSUME [Next]_vars
             PROVE  Broker!Next \/ UNCHANGED Broker!vars
    OBVIOUS
<1>1. CASE \/ (\E s \in Services : Start(s)) \/ Stop \/ BrokerEnds \/ PipesEnd \/ SeConnects
           \/ SeGivesUp \/ SeDone \/ SeWaited \/ (\E s \in TwitchServices : TwitchEnds(s))
           \/ UNCHANGED vars
      BY <1>1, BrokerStutters DEF Start, Stop, RangeBegin, RangeFinds, RangeFindsNone, BrokerEnds,
           PipesEnd, SeConnects, SeGivesUp, SeDone, SeWaited, TwitchEnds, vars
<1>2. CASE Interrupt \/ StopperCloses \/ BrokerRuns
      BY <1>2 DEF Interrupt, StopperCloses, BrokerRuns, Broker!Next
<1>3. ASSUME NEW c \in Clients, PipeAccepts(c) \/ ClientRuns(c)
      PROVE  Broker!Next
  <2>1. Broker!ClientStep(c)
        BY <1>3 DEF PipeAccepts, ClientRuns, Broker!ClientStep
  <2>2. QED BY <2>1 DEF Broker!Next
<1>4. ASSUME NEW s \in Twitch, TwitchPublishes(s)
      PROVE  Broker!Next
  <2>1. Broker!PublisherStep(s) /\ s \in Publishers
        BY <1>4, ConnectorAssumption DEF TwitchPublishes, Broker!PublisherStep
  <2>2. QED BY <2>1 DEF Broker!Next
<1>5. CASE SePublished \/ \E e \in Events : SeTakes(e)
  <2>1. Broker!PublisherStep(Se) /\ Se \in Publishers
        BY <1>5, ConnectorAssumption DEF SePublished, SeTakes, Broker!PublisherStep
  <2>2. QED BY <2>1 DEF Broker!Next
<1>6. QED BY <1>1, <1>2, <1>3, <1>4, <1>5 DEF Next, StreamElements

-----------------------------------------------------------------------------
(* A blocked Publish. *)

(* StreamElements has an event to publish exactly while it is in Publish.  *)
PublishInv ==
  /\ pmsg \in [Publishers -> Events \cup {NoEvent}]
  /\ pmsg[Se] # NoEvent <=> svc[Se] = "publish"

LEMMA PublishInit == Init => PublishInv
BY ConnectorAssumption DEF Init, Broker!Init, PublishInv, Services

LEMMA PublishStep == StopInv /\ PublishInv /\ [Next]_vars => PublishInv'
<1> SUFFICES ASSUME StopInv, PublishInv, [Next]_vars
             PROVE  PublishInv'
    OBVIOUS
<1>0. Se \in Services /\ Se \in Publishers /\ svc \in [Services -> Places]
      BY ConnectorAssumption DEF Services, StopInv, NamesAgree
<1>1. CASE pmsg' = pmsg /\ (svc'[Se] = "publish" <=> svc[Se] = "publish")
      BY <1>1 DEF PublishInv
<1>2. ASSUME NEW s \in Services, Start(s)
      PROVE  PublishInv'
  <2>1. pmsg' = pmsg /\ svc[s] = "added" /\ svc' = [svc EXCEPT ![s] = "running"]
        BY <1>2 DEF Start, brokerVars
  <2>2. QED BY <2>1, <1>0, <1>1
<1>3. CASE Interrupt \/ Stop \/ BrokerRuns \/ UNCHANGED vars
           \/ \E c \in Clients : PipeAccepts(c) \/ ClientRuns(c)
  <2>1. svc' = svc
        BY <1>3 DEF Interrupt, Stop, RangeBegin, RangeFinds, RangeFindsNone, BrokerRuns,
             PipeAccepts, ClientRuns, vars
  <2>2. pmsg' = pmsg
    <3>1. CASE Interrupt \/ Stop \/ UNCHANGED vars
          BY <3>1 DEF Interrupt, Stop, RangeBegin, RangeFinds, RangeFindsNone, Broker!Cancel,
               Broker!pubVars, vars, brokerVars
    <3>2. CASE BrokerRuns
          BY <3>2 DEF BrokerRuns, Broker!RunStep, Broker!RunStop, Broker!RunTake,
               Broker!RunFanoutDone, Broker!RunRemove, Broker!RunAdd, Broker!RunPick,
               Broker!RunSend, Broker!pubVars
    <3>3. CASE \E c \in Clients : PipeAccepts(c) \/ ClientRuns(c)
          BY <3>3 DEF PipeAccepts, ClientRuns, Broker!Accept, Broker!ClientDone,
               Broker!ClientTake, Broker!ClientTick, Broker!WriteDone, Broker!WriteFail,
               Broker!pubVars
    <3>4. QED BY <3>1, <3>2, <3>3, <1>3
  <2>3. QED BY <2>1, <2>2, <1>1
<1>4. CASE StopperCloses \/ BrokerEnds \/ PipesEnd \/ \E s \in TwitchServices : TwitchEnds(s)
  <2>1. pmsg' = pmsg
        BY <1>4 DEF StopperCloses, BrokerEnds, PipesEnd, TwitchEnds, Broker!CloseListener,
             Broker!pubVars, brokerVars
  <2>2. PICK s \in Services \ {Se} : Ends(s)
        BY <1>4, ConnectorAssumption
           DEF StopperCloses, BrokerEnds, PipesEnd, TwitchEnds, Services, Se
  <2>4. svc'[Se] = svc[Se]
        BY <2>2, <1>0 DEF Ends
  <2>3. QED BY <2>1, <2>4, <1>1
<1>5. ASSUME NEW s \in Twitch, TwitchPublishes(s)
      PROVE  PublishInv'
  <2>1. s \in Publishers /\ s # Se /\ svc' = svc
        BY <1>5, ConnectorAssumption DEF TwitchPublishes
  <2>2. PICK m \in Events \cup {NoEvent} : pmsg' = [pmsg EXCEPT ![s] = m]
        BY <1>5 DEF TwitchPublishes, Broker!PublishCall, Broker!PublishSend
  <2>3. QED BY <2>1, <2>2, <1>0 DEF PublishInv
<1>6. CASE SeConnects \/ SeGivesUp \/ SeDone \/ SeWaited
  <2>1. pmsg' = pmsg
        BY <1>6 DEF SeConnects, SeGivesUp, SeDone, SeWaited, brokerVars
  <2>2. svc[Se] # "publish" /\ svc'[Se] # "publish"
        BY <1>6, <1>0 DEF SeConnects, SeGivesUp, SeDone, SeWaited, Ends
  <2>3. QED BY <2>1, <2>2, <1>1
<1>7. CASE SePublished
      BY <1>7, <1>0 DEF SePublished, Broker!PublishSend, PublishInv
<1>8. ASSUME NEW e \in Events, SeTakes(e)
      PROVE  PublishInv'
      BY <1>8, <1>0, ConnectorAssumption DEF SeTakes, Broker!PublishCall, PublishInv
<1>9. QED BY <1>2, <1>3, <1>4, <1>5, <1>6, <1>7, <1>8 DEF Next, StreamElements

(* A StreamElements event blocked in Publish when Run has returned stays   *)
(* blocked, and Stop does not return any more unless its last poll began   *)
(* before the service had stored its name.                                 *)
THEOREM StuckCorrect == Spec => StuckIsForever
<1>1. StopInv /\ StopInv' /\ PublishInv /\ [Next]_vars
        => [Stuck(Se) => Stuck(Se)' /\ (main' = "exited" => Se \in late)]_vars
  <2> SUFFICES ASSUME StopInv, StopInv', PublishInv, [Next]_vars, Stuck(Se)
               PROVE  Stuck(Se)' /\ (main' = "exited" => Se \in late)
      OBVIOUS
  <2>0. /\ Se \in Services /\ Se \in Publishers /\ svc[Se] = "publish"
        /\ svc \in [Services -> Places] /\ pmsg \in [Publishers -> Events \cup {NoEvent}]
        BY ConnectorAssumption DEF Services, StopInv, NamesAgree, PublishInv, Stuck
  <2>1. ~(Len(events) < EventCap)
        BY ConnectorAssumption DEF Stuck
  <2>2. ASSUME NEW p \in Publishers
        PROVE  ~Broker!PublishSend(p)
        BY <2>1 DEF Broker!PublishSend
  <2>3. ASSUME UNCHANGED <<bpc, events>>, pmsg'[Se] = pmsg[Se]
        PROVE  Stuck(Se)'
        BY <2>3 DEF Stuck
  <2>4. Stuck(Se)'
    <3>1. CASE UNCHANGED brokerVars
          BY <3>1, <2>3 DEF brokerVars
    <3>2. CASE Interrupt \/ StopperCloses
          BY <3>2, <2>3 DEF Interrupt, StopperCloses, Broker!Cancel, Broker!CloseListener,
               Broker!brokerVars, Broker!pubVars
    <3>3. CASE BrokerRuns
          BY <3>3, <2>3 DEF BrokerRuns, Stuck, Broker!RunStep, Broker!RunStop, Broker!RunTake,
               Broker!RunFanoutDone, Broker!RunRemove, Broker!RunAdd, Broker!RunPick,
               Broker!RunSend, Broker!pubVars
    <3>4. CASE \E c \in Clients : PipeAccepts(c) \/ ClientRuns(c)
          BY <3>4, <2>3 DEF PipeAccepts, ClientRuns, Broker!Accept, Broker!ClientDone,
               Broker!ClientTake, Broker!ClientTick, Broker!WriteDone, Broker!WriteFail,
               Broker!pubVars, Broker!brokerVars
    <3>5. ASSUME NEW s \in Twitch, TwitchPublishes(s)
          PROVE  Stuck(Se)'
      <4>1. s \in Publishers /\ s # Se
            BY ConnectorAssumption
      <4>2. PICK e \in Events : Broker!PublishCall(s, e)
            BY <4>1, <3>5, <2>2 DEF TwitchPublishes
      <4>3. QED BY <4>1, <4>2, <2>0, <2>3 DEF Broker!PublishCall, Broker!brokerVars
    <3>6. CASE StreamElements
      <4>1. ~SePublished
            BY <2>0, <2>2 DEF SePublished
      <4>2. QED BY <4>1, <3>6, <2>0 DEF StreamElements, SeConnects, SeGivesUp, SeDone, SeWaited, SeTakes
    <3>7. CASE \/ (\E s \in Services : Start(s)) \/ Stop \/ BrokerEnds \/ PipesEnd
               \/ (\E s \in TwitchServices : TwitchEnds(s)) \/ UNCHANGED vars
          BY <3>1, <3>7 DEF Start, Stop, RangeBegin, RangeFinds, RangeFindsNone, BrokerEnds,
               PipesEnd, TwitchEnds, vars
    <3>8. QED BY <3>2, <3>3, <3>4, <3>5, <3>6, <3>7 DEF Next
  <2>5. ASSUME main' = "exited"
        PROVE  Se \in late
    <3>1. CASE main = "exited"
          BY <3>1, <2>0 DEF StopInv, StopMissesOnlyLate
    <3>2. CASE main # "exited"
      <4>1. RangeFindsNone
            BY <2>5, <3>2 DEF Next, Start, Interrupt, Stop, RangeBegin, RangeFinds, StopperCloses,
                 BrokerRuns, BrokerEnds, PipeAccepts, ClientRuns, PipesEnd, TwitchPublishes,
                 TwitchEnds, Ends, StreamElements, SeConnects, SeGivesUp, SeTakes, SePublished,
                 SeDone, SeWaited, stopVars, vars
      <4>2. Se \in stored
            BY <2>0 DEF StopInv, NamesAgree
      <4>3. QED BY <4>1, <4>2 DEF RangeFindsNone
    <3>3. QED BY <3>1, <3>2
  <2>6. QED BY <2>4, <2>5
<1>2. QED BY StopInit, StopStep, PublishInit, PublishStep, <1>1, PTL DEF Spec, StuckIsForever

-----------------------------------------------------------------------------
(* The broker's theorems hold of the broker in the connector.              *)

LEMMA BrokerAssumed == BrokerTheorems!BrokerAssumption
BY ConnectorAssumption DEF BrokerTheorems!BrokerAssumption

LEMMA SameBroker ==
  Broker!Init /\ [][Broker!Next]_(Broker!vars) => BrokerTheorems!Spec
<1>1. Broker!Init => BrokerTheorems!Init
      BY DEF Broker!Init, BrokerTheorems!Init
<1>2. Broker!Next => BrokerTheorems!Next
      BY DEF Broker!Next, Broker!PublisherStep, Broker!PublishCall, Broker!PublishSend,
         Broker!RunStep, Broker!RunStop, Broker!RunTake, Broker!RunFanoutDone, Broker!RunRemove,
         Broker!RunAdd, Broker!RunPick, Broker!RunSend, Broker!evt, Broker!ClientStep,
         Broker!Accept, Broker!ClientDone, Broker!ClientTake, Broker!ClientTick,
         Broker!WriteDone, Broker!WriteFail, Broker!Cancel, Broker!CloseListener,
         Broker!brokerVars, Broker!clientVars, Broker!pubVars, Broker!ctxVars,
         BrokerTheorems!Next, BrokerTheorems!PublisherStep, BrokerTheorems!PublishCall,
         BrokerTheorems!PublishSend, BrokerTheorems!RunStep, BrokerTheorems!RunStop,
         BrokerTheorems!RunTake, BrokerTheorems!RunFanoutDone, BrokerTheorems!RunRemove,
         BrokerTheorems!RunAdd, BrokerTheorems!RunPick, BrokerTheorems!RunSend,
         BrokerTheorems!evt, BrokerTheorems!ClientStep, BrokerTheorems!Accept,
         BrokerTheorems!ClientDone, BrokerTheorems!ClientTake, BrokerTheorems!ClientTick,
         BrokerTheorems!WriteDone, BrokerTheorems!WriteFail, BrokerTheorems!Cancel,
         BrokerTheorems!CloseListener, BrokerTheorems!brokerVars, BrokerTheorems!clientVars,
         BrokerTheorems!pubVars, BrokerTheorems!ctxVars
<1>3. UNCHANGED Broker!vars <=> UNCHANGED BrokerTheorems!vars
      BY DEF Broker!vars, Broker!brokerVars, Broker!clientVars, Broker!pubVars, Broker!ctxVars,
         BrokerTheorems!vars, BrokerTheorems!brokerVars, BrokerTheorems!clientVars,
         BrokerTheorems!pubVars, BrokerTheorems!ctxVars
<1>4. [Broker!Next]_(Broker!vars) => [BrokerTheorems!Next]_(BrokerTheorems!vars)
      BY <1>2, <1>3
<1>5. QED BY <1>1, <1>4, PTL DEF BrokerTheorems!Spec

LEMMA BrokerInvariant == Spec => []BrokerTheorems!IInv
<1>1. BrokerTheorems!Spec => []BrokerTheorems!IInv
      BY BrokerAssumed, BrokerTheorems!IInvAlways
<1>2. Init => Broker!Init
      BY DEF Init
<1>3. Spec => Broker!Init /\ [][Broker!Next]_(Broker!vars)
      BY <1>2, BrokerStep, PTL DEF Spec
<1>4. QED BY <1>1, <1>3, SameBroker, PTL

(* With the services, the interrupt and the shutdown around it the broker  *)
(* neither loses nor repeats an event, and every pipe gets the events in   *)
(* order from the first one after its registration.                        *)
THEOREM PipesInOrder == Spec => [](Broker!Conserved /\ Broker!InOrderNoGap)
<1>1. BrokerTheorems!IInv => Broker!Conserved
      BY DEF BrokerTheorems!IInv, BrokerTheorems!Conserved, BrokerTheorems!PublishedKept,
         BrokerTheorems!Waiting, BrokerTheorems!ClientsAccounted, BrokerTheorems!Accounted,
         BrokerTheorems!Handed, BrokerTheorems!InFlight, BrokerTheorems!Owed,
         Broker!Conserved, Broker!PublishedKept, Broker!Waiting, Broker!ClientsAccounted,
         Broker!Accounted, Broker!Handed, Broker!InFlight, Broker!Owed,
         Broker!Cardinality, BrokerTheorems!Cardinality
<1>2. BrokerTheorems!IInv => Broker!InOrderNoGap
      BY BrokerAssumed, BrokerTheorems!InvInOrder DEF BrokerTheorems!InOrderNoGap, Broker!InOrderNoGap
<1>3. QED BY <1>1, <1>2, BrokerInvariant, PTL

-----------------------------------------------------------------------------
(* Framing: what is written is read back, for frames of any length.        *)

Bytes == [frame : Nat, at : Nat, val : Nat]

(* The bytes of frame i, and those of the first k frames. *)
Frame(lens, i) == <<Header(i, lens[i])>> \o Data(i, lens[i])
First(lens, k) == Written(SubSeq(lens, 1, k))
Size(lens, k)   == Len(First(lens, k))

(* The length a header announces. *)
LEMMA Announced ==
  ASSUME NEW n \in Nat
  PROVE  /\ n % LenMod \in Nat /\ n % LenMod < LenMod
         /\ n < LenMod => n % LenMod = n
<1>1. LenMod \in Nat /\ LenMod > 0
      BY FramingAssumption
<1>2. n % LenMod \in 0..(LenMod - 1)
      BY <1>1
<1>3. QED BY <1>1, <1>2

LEMMA FrameType ==
  ASSUME NEW lens \in Seq(Nat), NEW i \in 1..Len(lens)
  PROVE  /\ Frame(lens, i) \in Seq(Bytes)
         /\ Len(Frame(lens, i)) = lens[i] + 1
         /\ Frame(lens, i)[1] = Header(i, lens[i])
         /\ \A j \in 1..lens[i] : Frame(lens, i)[j + 1] = Data(i, lens[i])[j]
         /\ Header(i, lens[i]).val = lens[i] % LenMod
         /\ Data(i, lens[i]) \in Seq(Bytes) /\ Len(Data(i, lens[i])) = lens[i]
         /\ \A j \in 1..lens[i] : Data(i, lens[i])[j].frame = i
<1> DEFINE n == lens[i]
<1>1. n \in Nat /\ i \in Nat
      BY LenProperties, ElementOfSeq
<1>2. Header(i, n) \in Bytes /\ Header(i, n).val = n % LenMod
      BY <1>1, Announced DEF Header, Bytes
<1>3. \A j \in 1..n : [frame |-> i, at |-> j, val |-> 0] \in Bytes
      BY <1>1 DEF Bytes
<1>4. /\ Data(i, n) \in Seq(Bytes) /\ Len(Data(i, n)) = n
      /\ \A j \in 1..n : Data(i, n)[j].frame = i
      BY <1>1, <1>3, SeqDef DEF Data
<1> HIDE DEF n
<1>5. <<Header(i, n)>> \in Seq(Bytes) /\ Len(<<Header(i, n)>>) = 1 /\ <<Header(i, n)>>[1] = Header(i, n)
      BY <1>2
<1>6. /\ <<Header(i, n)>> \o Data(i, n) \in Seq(Bytes)
      /\ Len(<<Header(i, n)>> \o Data(i, n)) = 1 + n
      /\ \A k \in 1..(1 + n) : (<<Header(i, n)>> \o Data(i, n))[k] =
           IF k <= 1 THEN <<Header(i, n)>>[k] ELSE Data(i, n)[k - 1]
      BY <1>4, <1>5, ConcatProperties
<1>7. (<<Header(i, n)>> \o Data(i, n))[1] = Header(i, n)
      BY <1>1, <1>5, <1>6
<1>8. ASSUME NEW j \in 1..n
      PROVE  (<<Header(i, n)>> \o Data(i, n))[j + 1] = Data(i, n)[j]
  <2>1. j + 1 \in 1..(1 + n) /\ ~(j + 1 <= 1) /\ (j + 1) - 1 = j
        BY <1>1
  <2>2. QED BY <2>1, <1>6
<1>9. QED BY <1>1, <1>2, <1>4, <1>6, <1>7, <1>8 DEF Frame, n

(* The first k frames are the first k of the sequences put together.       *)
Frames(lens) == [i \in 1..Len(lens) |-> Frame(lens, i)]

LEMMA FirstFrames ==
  ASSUME NEW lens \in Seq(Nat)
  PROVE  /\ Frames(lens) \in Seq(Seq(Bytes)) /\ Len(Frames(lens)) = Len(lens)
         /\ \A i \in 1..Len(lens) : Frames(lens)[i] = Frame(lens, i)
         /\ \A k \in 0..Len(lens) : /\ First(lens, k) = FlattenSeq(SubSeq(Frames(lens), 1, k))
                                   /\ First(lens, k) \in Seq(Bytes)
<1> DEFINE N == Len(lens)
           ff == Frames(lens)
<1>0. N \in Nat /\ \A i \in 1..N : lens[i] \in Nat
      BY LenProperties, ElementOfSeq
<1>1. /\ ff \in Seq(Seq(Bytes)) /\ Len(ff) = N
      /\ \A i \in 1..N : ff[i] = Frame(lens, i)
  <2>1. \A i \in 1..N : Frame(lens, i) \in Seq(Bytes)
        BY FrameType, <1>0
  <2>2. QED BY <2>1, <1>0, SeqDef DEF Frames
<1>2. ASSUME NEW k \in 0..N
      PROVE  First(lens, k) = FlattenSeq(SubSeq(ff, 1, k)) /\ SubSeq(ff, 1, k) \in Seq(Seq(Bytes))
  <2> DEFINE s == SubSeq(lens, 1, k)
             gg == SubSeq(ff, 1, k)
  <2>1. s \in Seq(Nat) /\ Len(s) = k /\ \A i \in 1..k : s[i] = lens[i]
        BY <1>0
  <2>2. gg \in Seq(Seq(Bytes)) /\ Len(gg) = k /\ \A i \in 1..k : gg[i] = ff[i]
    <3> HIDE DEF ff
    <3>1. QED BY <1>0, <1>1
  <2> HIDE DEF s, gg, ff
  <2>3. DOMAIN s = 1..k /\ \A i \in 1..k : i \in 1..N
        BY <2>1, <1>0, LenProperties
  <2>4. gg = [i \in 1..k |-> gg[i]]
        BY <2>2
  <2>5. \A i \in 1..k : gg[i] = <<Header(i, s[i])>> \o Data(i, s[i])
        BY <1>1, <2>1, <2>2, <2>3 DEF Frame
  <2>6. gg = [i \in DOMAIN s |-> <<Header(i, s[i])>> \o Data(i, s[i])]
        BY <2>3, <2>4, <2>5
  <2>7. First(lens, k) = FlattenSeq(gg)
        BY <2>6, Zenon DEF First, Written, s
  <2>8. QED BY <2>2, <2>7 DEF gg
<1>3. QED BY <1>1, <1>2, FlattenType

(* How much is written grows with the frames. *)
LEMMA Sizes ==
  ASSUME NEW lens \in Seq(Nat)
  PROVE  /\ Size(lens, 0) = 0
         /\ \A k \in 0..Len(lens) : Size(lens, k) \in Nat
         /\ \A k \in 1..Len(lens), m \in 1..Len(lens) : k <= m => Size(lens, k) <= Size(lens, m)
<1>1. Len(lens) \in Nat
      BY LenProperties
<1>2. /\ Frames(lens) \in Seq(Seq(Bytes)) /\ Len(Frames(lens)) = Len(lens)
      /\ \A k \in 0..Len(lens) : Size(lens, k) = EndOf(Frames(lens), k)
      BY FirstFrames DEF Size, EndOf
<1>3. /\ EndOf(Frames(lens), 0) = 0
      /\ \A k \in 0..Len(lens) : EndOf(Frames(lens), k) \in Nat
      BY <1>2, FlattenEnds
<1>4. \A k \in 1..Len(lens) : \A m \in k..Len(lens) : EndOf(Frames(lens), k) <= EndOf(Frames(lens), m)
      BY <1>2, FlattenAt
<1>5. QED BY <1>1, <1>2, <1>3, <1>4

(* What handleEventPipe does with the bytes from position p on. *)
Msg(b, p) == SubSeq(b, p + 1, p + b[p].val)
Takes(lens, b, p) ==
  b[p].val <= BufSize /\ p + b[p].val <= Len(b) /\ Decodes(lens, Msg(b, p))
ReadFrom(f, lens, b, p) ==
  IF p > Len(b) THEN <<>>
  ELSE IF Takes(lens, b, p) THEN <<Msg(b, p)[1].frame>> \o f[p + b[p].val + 1] ELSE <<>>

LEMMA MsgType ==
  ASSUME NEW lens, NEW b \in Seq(Bytes), NEW p \in 1..Len(b), Takes(lens, b, p)
  PROVE  /\ p + b[p].val + 1 \in 1..Len(b) + 1 /\ b[p].val \in Nat
         /\ <<Msg(b, p)[1].frame>> \in Seq(Nat)
<1>1. Len(b) \in Nat /\ b[p] \in Bytes /\ \A q \in 1..Len(b) : b[q] \in Bytes
      BY LenProperties, ElementOfSeq
<1>2. b[p].val \in Nat
      BY <1>1 DEF Bytes
<1>3. p + b[p].val + 1 \in 1..Len(b) + 1
      BY <1>1, <1>2 DEF Takes
<1>4. Msg(b, p) # <<>>
      BY DEF Takes, Decodes
<1>6. Msg(b, p) \in Seq(Bytes)
      BY <1>1, <1>2, Slice DEF Takes, Msg
<1>7. Msg(b, p)[1] \in Bytes
  <2>1. 1 \in 1..Len(Msg(b, p))
        BY <1>4, <1>6, EmptySeq
  <2>2. QED BY <2>1, <1>6, ElementOfSeq
<1>8. Msg(b, p)[1].frame \in Nat
      BY <1>7 DEF Bytes
<1>9. QED BY <1>2, <1>3, <1>8

(* The reader's loop, unfolded once. *)
LEMMA HandledUnfolds ==
  ASSUME NEW lens, NEW b \in Seq(Bytes)
  PROVE  \E f : /\ f = [p \in 1..Len(b) + 1 |-> ReadFrom(f, lens, b, p)]
                /\ Handled(lens, b) = f[1]
<1>0. Len(b) \in Nat /\ Len(b) + 1 \in Nat
      BY LenProperties
<1>a. Seq(Nat) # {} /\ <<>> \in Seq(Nat)
      BY EmptySeq
<1> DEFINE N == Len(b) + 1
           I == 1..N
           V == Seq(Nat)
           D == [g \in [I -> V] |-> [p \in I |-> ReadFrom(g, lens, b, p)]]
           rank == [p \in I |-> N - p]
<1>1. N \in Nat /\ Len(b) \in Nat /\ V # {} /\ <<>> \in V
      BY <1>0, <1>a, Zenon
<1>2. rank \in [I -> 0..N]
      BY <1>1
<1>3. ASSUME NEW p \in I, ~(p > Len(b)), Takes(lens, b, p)
      PROVE  /\ p + b[p].val + 1 \in I /\ rank[p + b[p].val + 1] < rank[p]
             /\ <<Msg(b, p)[1].frame>> \in Seq(Nat)
  <2>1. p \in 1..Len(b)
        BY <1>1, <1>3
  <2>2. /\ p + b[p].val + 1 \in I /\ b[p].val \in Nat
        /\ <<Msg(b, p)[1].frame>> \in Seq(Nat)
        BY <2>1, <1>3, MsgType
  <2>3. N - (p + b[p].val + 1) < N - p
        BY <2>1, <2>2, <1>1
  <2>4. QED BY <2>2, <2>3
<1>4. D \in [[I -> V] -> [I -> V]]
  <2> SUFFICES ASSUME NEW g \in [I -> V], NEW p \in I
               PROVE  ReadFrom(g, lens, b, p) \in V
      OBVIOUS
  <2>1. CASE p > Len(b) \/ ~Takes(lens, b, p)
        BY <2>1, <1>1 DEF ReadFrom
  <2>2. CASE ~(p > Len(b)) /\ Takes(lens, b, p)
    <3>1. g[p + b[p].val + 1] \in Seq(Nat) /\ <<Msg(b, p)[1].frame>> \in Seq(Nat)
          BY <2>2, <1>3
    <3>2. <<Msg(b, p)[1].frame>> \o g[p + b[p].val + 1] \in Seq(Nat)
          BY <3>1, ConcatProperties
    <3>3. QED BY <3>2, <2>2 DEF ReadFrom
  <2>3. QED BY <2>1, <2>2
<1>5. ASSUME NEW g \in [I -> V], NEW h \in [I -> V], NEW p \in I,
             \A q \in I : rank[q] < rank[p] => g[q] = h[q]
      PROVE  D[g][p] = D[h][p]
  <2>1. ~(p > Len(b)) /\ Takes(lens, b, p) => g[p + b[p].val + 1] = h[p + b[p].val + 1]
        BY <1>3, <1>5
  <2>2. ReadFrom(g, lens, b, p) = ReadFrom(h, lens, b, p)
        BY <2>1 DEF ReadFrom
  <2>3. D[g][p] = ReadFrom(g, lens, b, p) /\ D[h][p] = ReadFrom(h, lens, b, p)
        OBVIOUS
  <2>4. QED BY <2>2, <2>3
<1>6. PICK g \in [I -> V] : g = D[g]
  <2>1. \A g, h \in [I -> V], i \in I :
          (\A j \in I : rank[j] < rank[i] => g[j] = h[j]) => D[g][i] = D[h][i]
        BY <1>5
  <2> HIDE DEF I, V, N, D, rank
  <2>2. Descends(I, V, N, rank, D)
        BY <1>1, <1>2, <1>4, <2>1 DEF Descends
  <2>3. QED BY <2>2, Recursion
<1>7. g = [p \in I |-> ReadFrom(g, lens, b, p)]
      BY <1>6
<1> DEFINE f == CHOOSE h : h = [p \in I |-> ReadFrom(h, lens, b, p)]
<1>8. f = [p \in I |-> ReadFrom(f, lens, b, p)]
  <2> HIDE DEF I
  <2>1. QED BY <1>7
<1>9. Handled(lens, b) = f[1]
      BY Zenon DEF Handled, ReadFrom, Takes, Msg
<1> HIDE DEF f
<1>10. QED BY <1>8, <1>9

(* The bytes of frame k among all. *)
LEMMA FrameAt ==
  ASSUME NEW lens \in Seq(Nat), NEW k \in 1..Len(lens)
  PROVE  /\ Size(lens, k) = (Size(lens, k - 1) + 1) + lens[k]
         /\ Size(lens, k - 1) \in Nat /\ Size(lens, k) \in Nat /\ lens[k] \in Nat
         /\ Size(lens, k - 1) + 1 \in Nat /\ Size(lens, k - 1) + 1 >= 1
         /\ First(lens, Len(lens))[Size(lens, k - 1) + 1] = Header(k, lens[k])
         /\ \A q \in 1..lens[k] :
              First(lens, Len(lens))[Size(lens, k - 1) + 1 + q] = Data(k, lens[k])[q]
<1>1. /\ Len(lens) \in Nat /\ k - 1 \in 0..Len(lens) /\ k \in 0..Len(lens) /\ lens[k] \in Nat
      /\ Len(lens) \in 0..Len(lens) /\ Len(lens) \in k..Len(lens)
      BY LenProperties, ElementOfSeq
<1>2. /\ Frames(lens) \in Seq(Seq(Bytes)) /\ Len(Frames(lens)) = Len(lens)
      /\ Frames(lens)[k] = Frame(lens, k)
      /\ \A m \in 0..Len(lens) : /\ Size(lens, m) = EndOf(Frames(lens), m)
                                /\ First(lens, m) = FlattenSeq(SubSeq(Frames(lens), 1, m))
      BY FirstFrames DEF Size, EndOf
<1>3. /\ Len(Frame(lens, k)) = lens[k] + 1
      /\ Frame(lens, k)[1] = Header(k, lens[k])
      /\ \A q \in 1..lens[k] : Frame(lens, k)[q + 1] = Data(k, lens[k])[q]
      BY FrameType
<1> DEFINE a == Size(lens, k - 1)
           n == lens[k]
           all == First(lens, Len(lens))
<1>4. a \in Nat /\ Size(lens, k) \in Nat /\ n \in Nat
      BY <1>1, Sizes
<1>5. Size(lens, k) = a + (n + 1)
  <2>1. EndOf(Frames(lens), k) = EndOf(Frames(lens), k - 1) + Len(Frames(lens)[k])
        BY <1>2, FlattenEnds
  <2>2. QED BY <2>1, <1>1, <1>2, <1>3
<1>6. \A q \in 1..(n + 1) : all[a + q] = Frame(lens, k)[q]
  <2>1. \A q \in 1..Len(Frames(lens)[k]) :
          FlattenSeq(SubSeq(Frames(lens), 1, Len(lens)))[EndOf(Frames(lens), k - 1) + q] = Frames(lens)[k][q]
    <3> DEFINE ff == Frames(lens)
               N == Len(lens)
    <3>1. ff \in Seq(Seq(Bytes)) /\ k \in 1..Len(ff) /\ N \in k..Len(ff)
          BY <1>1, <1>2
    <3> HIDE DEF ff, N
    <3>2. \A q \in 1..Len(ff[k]) : FlattenSeq(SubSeq(ff, 1, N))[EndOf(ff, k - 1) + q] = ff[k][q]
          BY <3>1, FlattenAt
    <3>3. QED BY <3>2 DEF ff, N
  <2>2. QED BY <2>1, <1>1, <1>2, <1>3
<1> HIDE DEF a, n, all
<1>7. all[a + 1] = Header(k, n)
  <2>1. 1 \in 1..(n + 1)
        BY <1>4
  <2>2. QED BY <2>1, <1>3, <1>6 DEF n
<1>8. ASSUME NEW q \in 1..n
      PROVE  all[a + 1 + q] = Data(k, n)[q]
  <2>1. q + 1 \in 1..(n + 1) /\ a + 1 + q = a + (q + 1)
        BY <1>4
  <2>2. QED BY <2>1, <1>3, <1>6 DEF n
<1>9. Size(lens, k) = (a + 1) + n /\ a + 1 \in Nat /\ a + 1 >= 1 /\ Size(lens, k) \in Nat
      BY <1>4, <1>5
<1>10. QED BY <1>4, <1>7, <1>8, <1>9 DEF a, n, all

(* The bytes that got through before the pipe broke. *)
Cut(lens, cut, b) == b = SubSeq(First(lens, Len(lens)), 1, cut)

(* The reader takes a frame that fits its buffer and is there to the end,  *)
(* and nothing of any other.                                               *)
LEMMA TakesWhole ==
  ASSUME NEW lens \in Seq(Nat \ {0}), NEW k \in 1..Len(lens),
         NEW cut \in 0..Size(lens, Len(lens)), Size(lens, k - 1) + 1 <= cut,
         NEW b, Cut(lens, cut, b)
  PROVE  /\ Takes(lens, b, Size(lens, k - 1) + 1) <=> lens[k] <= BufSize /\ Size(lens, k) <= cut
         /\ Takes(lens, b, Size(lens, k - 1) + 1) =>
              /\ Msg(b, Size(lens, k - 1) + 1)[1].frame = k
              /\ Size(lens, k - 1) + 1 + b[Size(lens, k - 1) + 1].val + 1 = Size(lens, k) + 1
<1> DEFINE p == Size(lens, k - 1) + 1
           n == lens[k]
           all == First(lens, Len(lens))
<1>1. lens \in Seq(Nat) /\ Len(lens) \in Nat /\ Len(lens) \in 0..Len(lens)
      BY LenProperties, SeqMonotonic
<1>2. n \in Nat /\ n >= 1
      BY ElementOfSeq
<1>3. /\ Size(lens, k) = p + n /\ p \in Nat /\ p >= 1 /\ all[p] = Header(k, n)
      /\ \A q \in 1..n : all[p + q] = Data(k, n)[q]
      BY <1>1, FrameAt
<1>4. all \in Seq(Bytes) /\ cut \in 0..Len(all) /\ Len(all) \in Nat
  <2>1. all \in Seq(Bytes)
        BY <1>1, FirstFrames
  <2>2. QED BY <2>1, LenProperties DEF Size
<1>5. b \in Seq(Bytes) /\ Len(b) = cut /\ \A q \in 1..cut : b[q] = all[q]
  <2>1. \A q \in 1..cut : all[q] \in Bytes
        BY <1>4, ElementOfSeq
  <2>2. QED BY <2>1, <1>4, SubSeqProperties DEF Cut
<1>6. p <= cut /\ cut \in Nat
      BY <1>4
<1>7. /\ Data(k, n) \in Seq(Bytes) /\ Len(Data(k, n)) = n
      /\ \A q \in 1..n : Data(k, n)[q].frame = k
      /\ Header(k, n).val = n % LenMod
      BY <1>1, FrameType
<1> DEFINE v == n % LenMod
<1>8. v \in Nat /\ v < LenMod /\ (n < LenMod => v = n)
      BY <1>2, Announced
<1>9. b[p].val = v
      BY <1>3, <1>5, <1>6, <1>7
<1> HIDE DEF p, n, v, all
<1>10. LenMod \in Nat /\ BufSize \in Nat /\ BufSize < LenMod
       BY FramingAssumption
<1>11. v <= n
  <2>1. n < LenMod => v = n
        BY <1>8
  <2>2. ~(n < LenMod) => v < LenMod /\ LenMod <= n
        BY <1>2, <1>8, <1>10
  <2>3. QED BY <2>1, <2>2, <1>2, <1>8, <1>10
<1>12. ASSUME p + v <= cut
       PROVE  /\ Msg(b, p) \in Seq(Bytes) /\ Len(Msg(b, p)) = v
              /\ \A q \in 1..v : Msg(b, p)[q] = Data(k, n)[q]
  <2>1. /\ SubSeq(b, p + 1, p + v) \in Seq(Bytes)
        /\ Len(SubSeq(b, p + 1, p + v)) = v
        /\ \A q \in 1..v : SubSeq(b, p + 1, p + v)[q] = b[p + q]
        BY <1>3, <1>5, <1>8, <1>12, Slice
  <2>2. ASSUME NEW q \in 1..v
        PROVE  SubSeq(b, p + 1, p + v)[q] = Data(k, n)[q]
    <3>1. p + q \in 1..cut /\ q \in 1..n
          BY <1>2, <1>3, <1>6, <1>8, <1>11, <1>12
    <3>2. SubSeq(b, p + 1, p + v)[q] = b[p + q] /\ b[p + q] = all[p + q]
          BY <3>1, <2>1, <1>5
    <3>3. QED BY <3>1, <3>2, <1>3
  <2>3. QED BY <2>1, <2>2, <1>9 DEF Msg
<1>13. CASE n <= BufSize /\ p + n <= cut
  <2>1. v = n
        BY <1>13, <1>2, <1>8, <1>10
  <2>2. Msg(b, p) = Data(k, n)
        BY <2>1, <1>7, <1>12, <1>13, SeqEqual
  <2>3. Msg(b, p)[1].frame = k /\ Msg(b, p) # <<>>
        BY <2>2, <1>2, <1>7, EmptySeq
  <2>4. Decodes(lens, Msg(b, p))
        BY <2>2, <2>3 DEF Decodes, n
  <2>5. Takes(lens, b, p)
        BY <2>1, <2>4, <1>5, <1>9, <1>13 DEF Takes
  <2>6. QED BY <2>1, <2>3, <2>5, <1>3, <1>9, <1>13 DEF p, n
<1>14. CASE ~(n <= BufSize /\ p + n <= cut)
  <2> SUFFICES ASSUME Takes(lens, b, p)
               PROVE  FALSE
      BY <1>3, <1>14 DEF p, n
  <2>1. v <= BufSize /\ p + v <= cut /\ Msg(b, p) # <<>>
        BY <1>5, <1>9 DEF Takes, Decodes
  <2>2. Msg(b, p) = Data(Msg(b, p)[1].frame, lens[Msg(b, p)[1].frame])
        BY DEF Takes, Decodes
  <2>3. v >= 1
        BY <2>1, <1>8, <1>12, EmptySeq
  <2>4. Msg(b, p)[1].frame = k
    <3>1. 1 \in 1..v /\ 1 \in 1..n
          BY <2>3, <1>2, <1>8
    <3>2. QED BY <3>1, <2>1, <1>7, <1>12
  <2>5. Len(Msg(b, p)) = n
        BY <2>2, <2>4, <1>7 DEF n
  <2>6. v = n
        BY <2>1, <2>5, <1>12
  <2>7. QED BY <2>1, <2>6, <1>14
<1>15. QED BY <1>13, <1>14

(* The n numbers from k on. *)
UpFrom(k, n) == [i \in 1..n |-> (k - 1) + i]

LEMMA OneMore ==
  ASSUME NEW k \in Nat \ {0}, NEW n \in Nat
  PROVE  <<k>> \o UpFrom(k + 1, n) = UpFrom(k, n + 1)
<1> DEFINE g == UpFrom(k + 1, n)
           h == UpFrom(k, n + 1)
<1>1. g \in Seq(Nat) /\ Len(g) = n /\ \A i \in 1..n : g[i] = k + i
  <2>1. \A i \in 1..n : ((k + 1) - 1) + i = k + i /\ ((k + 1) - 1) + i \in Nat
        OBVIOUS
  <2>2. QED BY <2>1, SeqDef DEF UpFrom
<1>2. h \in Seq(Nat) /\ Len(h) = n + 1 /\ \A i \in 1..n + 1 : h[i] = (k - 1) + i
  <2>1. \A i \in 1..n + 1 : (k - 1) + i \in Nat
        OBVIOUS
  <2>2. n + 1 \in Nat
        OBVIOUS
  <2>3. QED BY <2>1, <2>2, SeqDef DEF UpFrom
<1>3. <<k>> \in Seq(Nat) /\ Len(<<k>>) = 1 /\ <<k>>[1] = k
      OBVIOUS
<1> HIDE DEF g, h
<1>4. /\ <<k>> \o g \in Seq(Nat) /\ Len(<<k>> \o g) = 1 + n
      /\ \A i \in 1..1 + n : (<<k>> \o g)[i] = IF i <= 1 THEN <<k>>[i] ELSE g[i - 1]
      BY <1>1, <1>3, ConcatProperties
<1>5. ASSUME NEW i \in 1..Len(h)
      PROVE  (<<k>> \o g)[i] = h[i]
  <2>1. i \in 1..n + 1 /\ i \in 1..1 + n /\ h[i] = (k - 1) + i
        BY <1>2
  <2>2. CASE i <= 1
    <3>1. i = 1 /\ (k - 1) + i = k
          BY <2>1, <2>2
    <3>2. QED BY <3>1, <2>1, <2>2, <1>4, <1>3
  <2>3. CASE ~(i <= 1)
    <3>1. i - 1 \in 1..n /\ k + (i - 1) = (k - 1) + i
          BY <2>1, <2>3
    <3>2. QED BY <3>1, <2>1, <2>3, <1>4, <1>1
  <2>4. QED BY <2>2, <2>3
<1>6. Len(h) = Len(<<k>> \o g)
      BY <1>2, <1>4
<1>7. <<k>> \o g = h
      BY <1>2, <1>4, <1>5, <1>6, SeqEqual
<1>8. QED BY <1>7 DEF g, h

(* From frame k on: what arrived, and what the reader takes.               *)
Arrived(lens, cut, k, j) ==
  (\A i \in k..j : lens[i] <= BufSize) /\ Size(lens, j) <= cut
Got(f, lens, cut, k, m) ==
  /\ m \in Nat /\ k - 1 <= m /\ m <= Len(lens)
  /\ f[Size(lens, k - 1) + 1] = UpFrom(k, (m - k) + 1)
  /\ \A j \in k..Len(lens) : j <= m <=> Arrived(lens, cut, k, j)

LEMMA GotNone ==
  ASSUME NEW lens \in Seq(Nat), NEW k \in 1..Len(lens) + 1, NEW cut \in Nat, NEW f,
         f[Size(lens, k - 1) + 1] = <<>>,
         k <= Len(lens) => lens[k] > BufSize \/ Size(lens, k) > cut
  PROVE  Got(f, lens, cut, k, k - 1)
<1>1. Len(lens) \in Nat /\ \A i \in 1..Len(lens) : lens[i] \in Nat
      BY LenProperties, ElementOfSeq
<1>2. k \in Nat /\ k - 1 \in Nat /\ k - 1 <= Len(lens) /\ ((k - 1) - k) + 1 = 0
      BY <1>1
<1>3. UpFrom(k, ((k - 1) - k) + 1) = <<>>
  <2>1. UpFrom(k, 0) = <<>>
        BY DEF UpFrom
  <2>2. QED BY <2>1, <1>2
<1>4. ASSUME NEW j \in k..Len(lens)
      PROVE  ~(j <= k - 1) /\ ~Arrived(lens, cut, k, j)
  <2>1. j \in Nat /\ k <= j /\ k \in 1..Len(lens) /\ k \in 0..Len(lens) /\ k \in k..j
        BY <1>1, <1>2
  <2>2. Size(lens, k) <= Size(lens, j) /\ Size(lens, j) \in Nat /\ Size(lens, k) \in Nat
    <3>1. j \in 1..Len(lens) /\ j \in 0..Len(lens)
          BY <2>1, <1>1
    <3>2. QED BY <3>1, <2>1, Sizes
  <2>3. Size(lens, k) > cut => ~(Size(lens, j) <= cut)
        BY <2>1, <2>2, <1>2
  <2>4. BufSize \in Nat /\ lens[k] \in Nat
        BY <1>1, <2>1, FramingAssumption
  <2>5. lens[k] > BufSize => ~(lens[k] <= BufSize)
        BY <2>4
  <2>6. ~(j <= k - 1)
        BY <2>1, <1>2
  <2>7. QED BY <2>1, <2>3, <2>5, <2>6 DEF Arrived
<1>5. QED BY <1>2, <1>3, <1>4 DEF Got

LEMMA GotOne ==
  ASSUME NEW lens \in Seq(Nat), NEW k \in 1..Len(lens), NEW cut \in Nat, NEW f, NEW m,
         Got(f, lens, cut, k + 1, m), lens[k] <= BufSize, Size(lens, k) <= cut,
         f[Size(lens, k - 1) + 1] = <<k>> \o f[Size(lens, k) + 1]
  PROVE  Got(f, lens, cut, k, m)
<1>1. Len(lens) \in Nat /\ k \in Nat /\ (k + 1) - 1 = k
      BY LenProperties
<1>2. m \in Nat /\ k <= m /\ m <= Len(lens)
      BY <1>1 DEF Got
<1>3. m - k \in Nat /\ (m - (k + 1)) + 1 = m - k /\ k - 1 <= m
      BY <1>1, <1>2
<1>4. f[Size(lens, k) + 1] = UpFrom(k + 1, m - k)
      BY <1>1, <1>3 DEF Got
<1>5. <<k>> \o UpFrom(k + 1, m - k) = UpFrom(k, (m - k) + 1)
  <2> DEFINE n == m - k
  <2>1. n \in Nat /\ k \in Nat \ {0}
        BY <1>1, <1>3
  <2> HIDE DEF n
  <2>2. <<k>> \o UpFrom(k + 1, n) = UpFrom(k, n + 1)
        BY <2>1, OneMore
  <2>3. QED BY <2>2 DEF n
<1>9. ASSUME NEW j \in k..Len(lens)
      PROVE  j <= m <=> Arrived(lens, cut, k, j)
  <2>1. CASE j = k
    <3>1. \A i \in k..j : i = k
          BY <2>1, <1>1
    <3>2. QED BY <2>1, <3>1, <1>2 DEF Arrived
  <2>2. CASE j # k
    <3>1. j \in k + 1..Len(lens) /\ \A i \in k..j : i = k \/ i \in k + 1..j
          BY <2>2, <1>1
    <3>2. \A i \in k + 1..j : i \in k..j
          BY <1>1
    <3>3. Arrived(lens, cut, k + 1, j) <=> Arrived(lens, cut, k, j)
          BY <3>1, <3>2 DEF Arrived
    <3>4. QED BY <3>1, <3>3 DEF Got
  <2>3. QED BY <2>1, <2>2
<1>10. f[Size(lens, k - 1) + 1] = UpFrom(k, (m - k) + 1)
       BY <1>4, <1>5
<1>11. QED BY <1>2, <1>3, <1>9, <1>10 DEF Got

(* Any number of frames of any lengths, wherever the pipe broke, are read  *)
(* back up to the first that is longer than the buffer or was cut.         *)
THEOREM ReadsWritten ==
  ASSUME NEW lens \in Seq(Nat \ {0})
  PROVE  ReadBack(lens)
<1> DEFINE N == Len(lens)
<1>1. lens \in Seq(Nat) /\ N \in Nat /\ \A i \in 1..N : lens[i] \in Nat
      BY LenProperties, SeqMonotonic, ElementOfSeq
<1>2. Written(lens) = First(lens, N)
      BY <1>1, SubSeqFull DEF First
<1>3. \A k \in 0..N : First(lens, k) \in Seq(Bytes) /\ Size(lens, k) \in Nat
      BY <1>1, FirstFrames, Sizes
<1>4. First(lens, N) \in Seq(Bytes) /\ Size(lens, N) \in Nat /\ Size(lens, 0) = 0
      BY <1>1, <1>3, Sizes
<1>5. ASSUME NEW cut \in 0..Size(lens, N), NEW b, Cut(lens, cut, b)
      PROVE  \E m \in 0..N : /\ Handled(lens, b) = [i \in 1..m |-> i]
                            /\ \A j \in 1..N : j <= m <=> Arrived(lens, cut, 1, j)
  <2>1. b \in Seq(Bytes) /\ Len(b) = cut /\ cut \in Nat
    <3> DEFINE all == First(lens, N)
    <3>1. all \in Seq(Bytes) /\ cut \in Nat /\ 0 + cut <= Len(all) /\ b = SubSeq(all, 0 + 1, 0 + cut)
          BY <1>4, <1>5 DEF Cut, Size
    <3> HIDE DEF all
    <3>2. QED BY <3>1, 0 \in Nat, Slice
  <2>2. PICK f : /\ f = [p \in 1..Len(b) + 1 |-> ReadFrom(f, lens, b, p)]
                 /\ Handled(lens, b) = f[1]
        BY <2>1, HandledUnfolds
  <2>3. \A p \in 1..cut + 1 : f[p] = ReadFrom(f, lens, b, p)
        BY <2>1, <2>2
  <2> DEFINE At(d) == N + 1 - d
             Bad == {d \in 0..N : /\ Size(lens, At(d) - 1) <= cut
                                  /\ ~\E m \in Nat : Got(f, lens, cut, At(d), m)}
  <2>4. ASSUME NEW d \in Bad, \A m \in Nat : m < d => m \notin Bad
        PROVE  FALSE
    <3> DEFINE k == At(d)
    <3>1. /\ k \in 1..N + 1 /\ k \in Nat /\ k - 1 \in 0..N /\ k - 1 \in Nat /\ d \in Nat
          /\ k # N + 1 => k \in 1..N /\ k \in 0..N /\ d - 1 \in 0..N /\ d - 1 < d /\ At(d - 1) = k + 1
          BY <1>1
    <3>2. Size(lens, k - 1) <= cut /\ ~\E m \in Nat : Got(f, lens, cut, k, m)
          OBVIOUS
    <3>3. ASSUME k # N + 1, Size(lens, k) <= cut
          PROVE  \E m \in Nat : Got(f, lens, cut, k + 1, m)
      <4>1. (k + 1) - 1 = k /\ d - 1 \in 0..N /\ d - 1 \in Nat /\ d - 1 < d /\ At(d - 1) = k + 1
            BY <3>1, <3>3
      <4>2. d - 1 \notin Bad
            BY <4>1, <2>4
      <4>3. Size(lens, At(d - 1) - 1) <= cut
            BY <4>1, <3>3, Zenon
      <4>4. \E m \in Nat : Got(f, lens, cut, At(d - 1), m)
            BY <4>1, <4>2, <4>3, Zenon
      <4>5. QED BY <4>1, <4>4, Zenon
    <3> DEFINE p == Size(lens, k - 1) + 1
    <3> HIDE DEF k, Bad, At
    <3>4. Size(lens, k - 1) \in Nat /\ p \in Nat /\ p \in 1..cut + 1 /\ (p > Len(b) <=> p = cut + 1)
      <4>1. Size(lens, k - 1) \in Nat
            BY <3>1, <1>3
      <4>2. QED BY <4>1, <3>2, <2>1
    <3>5. f[p] = ReadFrom(f, lens, b, p)
          BY <3>4, <2>3
    <3>6. SUFFICES ASSUME f[p] = <<>> => k <= N /\ lens[k] <= BufSize /\ Size(lens, k) <= cut
                   PROVE  FALSE
      <4>1. \A x, y \in Nat : ~(x <= y) => x > y
            OBVIOUS
      <4>2. BufSize \in Nat /\ (k <= N => lens[k] \in Nat /\ Size(lens, k) \in Nat)
            BY <3>1, <1>1, <1>3, FramingAssumption
      <4>3. f[p] = <<>> /\ ~(k <= N /\ lens[k] <= BufSize /\ Size(lens, k) <= cut)
              => Got(f, lens, cut, k, k - 1)
            BY <4>1, <4>2, <3>1, <1>1, <2>1, GotNone
      <4>4. QED BY <4>3, <3>1, <3>2
    <3>7. CASE p > Len(b)
      <4>1. f[p] = <<>> /\ Size(lens, k - 1) = cut
            BY <3>4, <3>5, <3>7, <2>1 DEF ReadFrom
      <4>2. k <= N /\ Size(lens, k) <= cut
            BY <4>1, <3>6
      <4>3. k \in 1..N
            BY <4>2, <3>1, <1>1
      <4>4. Size(lens, k) = (Size(lens, k - 1) + 1) + lens[k] /\ lens[k] \in Nat
            BY <4>3, <1>1, FrameAt
      <4>5. QED BY <4>1, <4>2, <4>4, <2>1
    <3>8. CASE ~(p > Len(b))
      <4>1. k # N + 1 /\ k \in 1..N /\ p <= cut
        <5>1. p <= cut
              BY <3>4, <3>8, <2>1
        <5>2. k # N + 1
          <6> SUFFICES ASSUME k = N + 1 PROVE FALSE
              OBVIOUS
          <6>1. k - 1 = N
                BY <1>1
          <6>2. QED BY <6>1, <5>1, <1>4, <2>1
        <5>3. QED BY <5>1, <5>2, <3>1
      <4>2. /\ Takes(lens, b, p) <=> lens[k] <= BufSize /\ Size(lens, k) <= cut
            /\ Takes(lens, b, p) => Msg(b, p)[1].frame = k /\ p + b[p].val + 1 = Size(lens, k) + 1
            BY <4>1, <1>5, TakesWhole
      <4>3. Takes(lens, b, p)
            BY <4>2, <3>5, <3>6, <3>8 DEF ReadFrom
      <4>4. f[p] = <<k>> \o f[Size(lens, k) + 1]
            BY <4>2, <4>3, <3>5, <3>8 DEF ReadFrom
      <4>5. PICK m \in Nat : Got(f, lens, cut, k + 1, m)
            BY <4>1, <4>2, <4>3, <3>3
      <4>6. Got(f, lens, cut, k, m)
            BY <4>1, <4>2, <4>3, <4>4, <4>5, <1>1, <2>1, GotOne
      <4>7. QED BY <4>6, <3>2
    <3>9. QED BY <3>7, <3>8
  <2>5. Bad = {}
    <3>1. Bad \subseteq Nat
          BY <1>1
    <3> HIDE DEF Bad
    <3>2. QED BY <3>1, <2>4, NoneBad
  <2>6. N \in 0..N /\ At(N) = 1 /\ At(N) - 1 = 0
        BY <1>1
  <2>7. PICK m \in Nat : Got(f, lens, cut, 1, m)
        BY <2>1, <2>5, <2>6, <1>4
  <2>8. /\ m <= N /\ 1 - 1 = 0 /\ (m - 1) + 1 = m /\ m \in 0..N
        BY <2>7, <1>1 DEF Got
  <2>9. f[1] = [i \in 1..m |-> i]
    <3>1. f[1] = UpFrom(1, m)
      <4>1. f[Size(lens, 1 - 1) + 1] = UpFrom(1, (m - 1) + 1)
            BY <2>7 DEF Got
      <4>2. Size(lens, 1 - 1) + 1 = 1 /\ (m - 1) + 1 = m
            BY <2>8, <1>4
      <4>3. QED BY <4>1, <4>2, Zenon
    <3>2. \A i \in 1..m : (1 - 1) + i = i
          OBVIOUS
    <3>3. QED BY <3>1, <3>2 DEF UpFrom
  <2>10. QED BY <2>2, <2>7, <2>8, <2>9 DEF Got
<1>6. ASSUME NEW cut \in 0..Len(Written(lens))
      PROVE  LET got == Handled(lens, SubSeq(Written(lens), 1, cut)) IN
               /\ got = [i \in 1..Len(got) |-> i]
               /\ \A k \in 1..N : k <= Len(got) <=>
                    /\ \A i \in 1..k : lens[i] <= BufSize
                    /\ Len(Written(SubSeq(lens, 1, k))) <= cut
  <2> DEFINE b == SubSeq(Written(lens), 1, cut)
  <2>1. cut \in 0..Size(lens, N) /\ Cut(lens, cut, b)
        BY <1>2 DEF Cut, Size
  <2> HIDE DEF b
  <2>2. PICK m \in 0..N : /\ Handled(lens, b) = [i \in 1..m |-> i]
                          /\ \A j \in 1..N : j <= m <=> Arrived(lens, cut, 1, j)
        BY <2>1, <1>5
  <2>3. Len(Handled(lens, b)) = m
        BY <2>2
  <2>4. QED BY <2>2, <2>3 DEF Arrived, Size, First, b
<1>7. QED BY <1>6, Zenon DEF ReadBack

(* What the clients write to their pipes, whatever its lengths, the DLL    *)
(* reads back, up to the first event that is longer than its buffer.       *)
THEOREM PipeReadBackCorrect == Spec => []PipeReadBack
<1>1. ASSUME BrokerTheorems!IInv
      PROVE  PipeReadBack
  <2> SUFFICES ASSUME NEW c \in Clients
               PROVE  ReadsBack[Len(written[c])]
      BY DEF PipeReadBack
  <2> DEFINE n == Len(written[c])
  <2>1. n \in 0..MaxPublished
        BY <1>1, BrokerAssumed, BrokerTheorems!WrittenBounded
  <2>2. ASSUME NEW lens \in [1..n -> Lengths]
        PROVE  ReadBack(lens)
    <3>1. n \in Nat
          BY <2>1, ConnectorAssumption
    <3> HIDE DEF n
    <3>2. \A i \in 1..n : lens[i] \in Nat \ {0}
          BY ConnectorAssumption
    <3>3. lens = [i \in 1..n |-> lens[i]]
          OBVIOUS
    <3>4. lens \in Seq(Nat \ {0})
          BY <3>1, <3>2, <3>3, SeqDef
    <3>5. QED BY <3>4, ReadsWritten
  <2> HIDE DEF n
  <2>3. ReadsBack[n]
        BY <2>1, <2>2 DEF ReadsBack
  <2>4. QED BY <2>3 DEF n
<1>2. QED BY <1>1, BrokerInvariant, PTL
=============================================================================
