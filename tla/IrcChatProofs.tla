--------------------------- MODULE IrcChatProofs ---------------------------
(***************************************************************************)
(* Theorems about IrcChat, for any number of connections and messages, any *)
(* capacities and any faults.                                              *)
(***************************************************************************)
EXTENDS IrcLines, SequenceInduction

UpStates == {"new", "up", "dropped", "closed"}
ListenerPlaces == {"off", "call", "read", "handle", "internal", "public", "exit", "signal", "gone"}

ConnType ==
  /\ main \in MainStates
  /\ conns \in 0..MaxConns
  /\ connField \in 0..conns

NetType ==
  /\ up \in [Conns -> UpStates]
  /\ wire \in [Conns -> Seq(Messages)]
  /\ asked \in [Conns -> SUBSET {"cap", "nick", "join", "member"}]
  /\ chats \in 0..MaxChats
  /\ noise \in 0..MaxNoise

(* handlerMtx belongs to the listener that delivers, and to no other. *)
ReadType ==
  /\ lpc \in [Conns -> ListenerPlaces]
  /\ lconn \in [Conns -> 0..conns]
  /\ lmsg \in [Conns -> Messages]
  /\ lock \in 0..conns
  /\ token \in {0, 1}
  /\ \A k \in Conns : /\ lpc[k] = "read" => lconn[k] # 0
                      /\ lpc[k] \in {"internal", "public"} => lock = k
                      /\ lpc[k] = "public" => lmsg[k].kind = "chat"

(* A connection that was not dialled has no listener and no messages, and  *)
(* the listener of the last one starts after its dial.                     *)
Dialled ==
  /\ \A k \in Conns :
       k > conns => lpc[k] = "off" /\ wire[k] = <<>> /\ lmsg[k] = NoMsg /\ up[k] = "new"
  /\ main \in {"addopen", "listen"} => conns # 0 /\ connField = conns /\ lpc[conns] = "off"

(* Only chat reaches the goroutine of OnMessage. *)
PubType ==
  /\ IsChan(pub)
  /\ \A i \in DOMAIN pub.buf : pub.buf[i].kind = "chat"
  /\ hpc \in {"off", "range", "publish", "remove", "gone"}
  /\ hmsg \in 0..MaxChats
  /\ hpc = "publish" => hmsg # 0
  /\ published \in Seq(1..MaxChats)

FlagType ==
  /\ ctxDone \in BOOLEAN /\ brokerStuck \in BOOLEAN /\ crashed \in BOOLEAN
  /\ unwinding \subseteq Conns \cup {None}

TypeInv ==
  ConnType /\ NetType /\ ReadType /\ Dialled /\ IsChan(hand) /\ PubType /\ FlagType

LEMMA Constants ==
  /\ MaxConns \in Nat /\ MaxChats \in Nat /\ MaxNoise \in Nat
  /\ HandCap \in Nat \ {0} /\ Conns = 1..MaxConns /\ None = 0
BY IrcAssumption DEF Conns, None

LEMMA MessageKinds ==
  /\ \A m \in Messages : m.kind = "chat" => m.id \in 1..MaxChats
  /\ \A n \in 1..MaxChats : Chat(n) \in Messages /\ Chat(n).kind = "chat" /\ Chat(n).id = n
  /\ NoMsg \in Messages /\ NoMsg.kind = "none"
  /\ Msg("ping") \in Messages /\ Msg("system") \in Messages
  /\ \A r \in DOMAIN Reply : \A a \in Reply[r] : Msg(a) \in Messages
  /\ \A a \in Kinds : Msg(a).kind # "chat"
<1>1. \A m \in Messages : m.kind = "chat" => m.id \in 1..MaxChats
      BY DEF Messages, Kinds
<1>2. \A n \in 1..MaxChats : Chat(n) \in Messages /\ Chat(n).kind = "chat" /\ Chat(n).id = n
      BY DEF Messages, Chat
<1>3. \A a \in Kinds : Msg(a) \in Messages /\ Msg(a).kind # "chat"
      BY DEF Messages, Msg, Kinds
<1>4. NoMsg \in Messages /\ NoMsg.kind = "none" /\ Msg("ping") \in Messages /\ Msg("system") \in Messages
      BY <1>3 DEF Kinds, NoMsg, Msg
<1>5. \A r \in DOMAIN Reply : \A a \in Reply[r] : a \in Kinds
      BY DEF Reply, Kinds
<1>6. QED BY <1>1, <1>2, <1>3, <1>4, <1>5

(* What becomes of a channel. *)
LEMMA ChanMade == IsChan(NewChan) /\ IsChan(NoChan)
<1>1. <<>> \in Seq(Messages) /\ Len(<<>>) <= HandCap
      BY Constants
<1>2. NewChan \in [buf : Seq(Messages), reg : BOOLEAN, open : BOOLEAN] /\ NewChan.buf = <<>>
      BY <1>1, Zenon DEF NewChan
<1>3. NoChan \in [buf : Seq(Messages), reg : BOOLEAN, open : BOOLEAN] /\ NoChan.buf = <<>>
      BY <1>1, Zenon DEF NoChan
<1>4. QED BY <1>1, <1>2, <1>3 DEF IsChan

LEMMA ChanClosed ==
  ASSUME NEW ch, IsChan(ch)
  PROVE  /\ IsChan(CloseChan(ch))
         /\ CloseChan(ch).buf = ch.buf /\ CloseChan(ch).reg = ch.reg
         /\ CloseChan(ch).open = (ch.open /\ ~ch.reg)
<1>1. (ch.open /\ ~ch.reg) \in BOOLEAN
      OBVIOUS
<1>2. ASSUME NEW b \in BOOLEAN
      PROVE  [ch EXCEPT !.open = b] \in [buf : Seq(Messages), reg : BOOLEAN, open : BOOLEAN]
      BY <1>2 DEF IsChan
<1>3. CloseChan(ch) \in [buf : Seq(Messages), reg : BOOLEAN, open : BOOLEAN]
      BY <1>1, <1>2, Zenon DEF CloseChan
<1>4. QED BY <1>3 DEF IsChan, CloseChan

LEMMA ChanFilled ==
  ASSUME NEW ch, IsChan(ch), NEW s \in Seq(Messages), Len(s) <= HandCap
  PROVE  /\ IsChan([ch EXCEPT !.buf = s])
         /\ [ch EXCEPT !.buf = s].buf = s
         /\ [ch EXCEPT !.buf = s].open = ch.open
         /\ [ch EXCEPT !.buf = s].reg = ch.reg
BY DEF IsChan

LEMMA TypeInit == Init => TypeInv
<1> SUFFICES ASSUME Init
             PROVE  TypeInv
    OBVIOUS
<1>1. ConnType
      BY Constants DEF Init, ConnType, MainStates
<1>2. NetType
  <2>1. <<>> \in Seq(Messages)
        OBVIOUS
  <2>2. wire \in [Conns -> Seq(Messages)]
        BY <2>1, Zenon DEF Init
  <2>3. QED BY <2>2, Constants DEF Init, NetType, UpStates
<1>3. ReadType
      BY Constants, MessageKinds DEF Init, ReadType, ListenerPlaces
<1>4. Dialled
      BY DEF Init, Dialled
<1>5. IsChan(hand) /\ IsChan(pub)
      BY ChanMade DEF Init
<1>6. PubType
      BY <1>5, Constants DEF Init, PubType, NoChan
<1>7. FlagType
      BY DEF Init, FlagType
<1>8. QED BY <1>1, <1>2, <1>3, <1>4, <1>5, <1>6, <1>7 DEF TypeInv

(* What a step leaves alone keeps its type. *)
LEMMA TypeKept ==
  ASSUME TypeInv
  PROVE  /\ UNCHANGED mainVars => ConnType'
         /\ UNCHANGED netVars => NetType'
         /\ UNCHANGED <<readVars, conns>> => ReadType'
         /\ UNCHANGED <<mainVars, lpc, wire, lmsg, up>> => Dialled'
         /\ UNCHANGED hand => IsChan(hand)'
         /\ UNCHANGED pubVars => PubType'
         /\ UNCHANGED <<ctxVars, panicVars>> => FlagType'
<1>1. UNCHANGED netVars => NetType'
      BY DEF TypeInv, NetType, netVars
<1>2. UNCHANGED <<readVars, conns>> => ReadType'
      BY DEF TypeInv, ReadType, readVars
<1>3. UNCHANGED <<mainVars, lpc, wire, lmsg, up>> => Dialled'
      BY DEF TypeInv, Dialled, mainVars
<1>4. UNCHANGED hand => IsChan(hand)'
      BY DEF TypeInv, IsChan
<1>5. UNCHANGED pubVars => PubType'
      BY DEF TypeInv, PubType, IsChan, pubVars
<1>6. UNCHANGED mainVars => ConnType'
      BY DEF TypeInv, ConnType, mainVars
<1>7. UNCHANGED <<ctxVars, panicVars>> => FlagType'
      BY DEF TypeInv, FlagType, ctxVars, panicVars
<1>8. QED BY <1>1, <1>2, <1>3, <1>4, <1>5, <1>6, <1>7

(* The service goroutine goes on, and dials no connection. *)
LEMMA MainMoves ==
  ASSUME TypeInv, main' \in MainStates \ {"addopen", "listen"}, UNCHANGED <<conns, connField>>,
         UNCHANGED <<lpc, lmsg>>,
         \A k \in Conns : k > conns => up'[k] = up[k] /\ wire'[k] = wire[k]
  PROVE  ConnType' /\ Dialled'
BY DEF TypeInv, ConnType, Dialled

(* A goroutine that panics. *)
LEMMA TypePanics ==
  ASSUME TypeInv, NEW k \in Conns \cup {None}, Panics(k), UNCHANGED ctxVars
  PROVE  FlagType'
<1>1. unwinding' = unwinding \cup {k} /\ crashed' = crashed
      BY DEF Panics
<1>2. unwinding' \subseteq Conns \cup {None}
      BY <1>1 DEF TypeInv, FlagType
<1>3. QED BY <1>1, <1>2 DEF TypeInv, FlagType, ctxVars

(* A connection that is closed was dialled, if it is one. *)
LEMMA ShutDialled ==
  ASSUME TypeInv, NEW k \in 0..conns, Shut(k), UNCHANGED <<chats, noise>>
  PROVE  /\ NetType'
         /\ \A j \in Conns : j > conns => up'[j] = up[j] /\ wire'[j] = wire[j]
<1>1. <<>> \in Seq(Messages) /\ conns \in Nat
      BY Constants DEF TypeInv, ConnType
<1>2. up' \in [Conns -> UpStates]
      BY DEF Shut, TypeInv, NetType, UpStates
<1>3. wire' \in [Conns -> Seq(Messages)]
      BY <1>1 DEF Shut, TypeInv, NetType
<1>4. asked' \in [Conns -> SUBSET {"cap", "nick", "join", "member"}]
      BY DEF Shut, TypeInv, NetType
<1>5. \A j \in Conns : j # k => up'[j] = up[j] /\ wire'[j] = wire[j]
      BY DEF Shut
<1>6. \A j \in Conns : j > conns => j # k
      BY <1>1, Constants
<1>7. QED BY <1>2, <1>3, <1>4, <1>5, <1>6 DEF TypeInv, NetType

LEMMA WaitStates ==
  /\ DOMAIN Answers = {"waitcap", "waitauth", "waitjoin"}
  /\ DOMAIN Cancelled = {"waitcap", "waitauth", "waitjoin"}
BY DEF Answers, Cancelled

(* A step of the service goroutine on the internal channel. *)
LEMMA MainOnHand ==
  ASSUME TypeInv, main' \in MainStates \ {"addopen", "listen"}, UNCHANGED <<conns, connField>>,
         IsChan(hand)', UNCHANGED <<netVars, readVars, pubVars>>, FlagType'
  PROVE  TypeInv'
<1>1. UNCHANGED <<lpc, wire, lmsg, up>>
      BY DEF netVars, readVars
<1>2. ConnType' /\ Dialled'
      BY <1>1, MainMoves
<1>3. QED BY <1>2, TypeKept DEF TypeInv

LEMMA TypeValidate == TypeInv /\ Validate => TypeInv'
<1> SUFFICES ASSUME TypeInv, Validate
             PROVE  TypeInv'
    OBVIOUS
<1>1. UNCHANGED <<netVars, readVars, hand, ctxVars, panicVars>>
      BY DEF Validate, Validated, ValidateFails
<1>2. main' \in MainStates \ {"addopen", "listen"} /\ UNCHANGED <<conns, connField>>
      BY DEF Validate, Validated, ValidateFails, Goto, MainStates
<1>3. ConnType' /\ Dialled'
      BY <1>1, <1>2, MainMoves DEF netVars, readVars
<1>4. PubType'
  <2>1. CASE Validated
    <3>1. IsChan(pub)' /\ pub'.buf = <<>>
          BY <2>1, ChanMade DEF Validated, NewChan
    <3>2. hpc' = "range" /\ UNCHANGED <<hmsg, published>>
          BY <2>1 DEF Validated
    <3>3. QED BY <3>1, <3>2 DEF TypeInv, PubType
  <2>2. CASE ValidateFails
        BY <2>2, TypeKept DEF ValidateFails
  <2>3. QED BY <2>1, <2>2 DEF Validate
<1>5. QED BY <1>1, <1>2, <1>3, <1>4, TypeKept DEF TypeInv

LEMMA TypeOpen == TypeInv /\ OpenContext => TypeInv'
<1> SUFFICES ASSUME TypeInv, OpenContext
             PROVE  TypeInv'
    OBVIOUS
<1>1. CASE ResetHandlers
  <2>1. IsChan(hand)'
        BY <1>1, ChanMade DEF ResetHandlers
  <2>2. QED BY <1>1, <2>1, TypeKept, MainOnHand DEF ResetHandlers, Goto, MainStates
<1>2. CASE CloseOld
  <2>1. Shut(connField) /\ connField \in 0..conns /\ UNCHANGED <<chats, noise>>
        BY <1>2 DEF CloseOld, TypeInv, ConnType
  <2>2. NetType' /\ \A k \in Conns : k > conns => up'[k] = up[k] /\ wire'[k] = wire[k]
        BY <2>1, ShutDialled
  <2>3. ConnType' /\ Dialled'
        BY <1>2, <2>2, MainMoves DEF CloseOld, Goto, readVars, MainStates
  <2>4. QED BY <1>2, <2>2, <2>3, TypeKept DEF CloseOld, Goto, TypeInv
<1>3. CASE Dial
  <2>1. conns' = conns + 1 /\ conns' \in Conns /\ conns \in Nat /\ connField' = conns'
        BY <1>3, Constants DEF Dial, TypeInv, ConnType
  <2>2. ConnType'
        BY <1>3, <2>1, Constants DEF Dial, ConnType, MainStates
  <2>3. NetType'
        BY <1>3, <2>1 DEF Dial, TypeInv, NetType, UpStates
  <2>4. ReadType'
    <3>1. lconn' \in [Conns -> 0..conns'] /\ lock' \in 0..conns'
          BY <1>3, <2>1 DEF Dial, readVars, TypeInv, ReadType
    <3>2. QED BY <1>3, <3>1 DEF Dial, readVars, TypeInv, ReadType
  <2>5. Dialled'
    <3>1. \A k \in Conns : k > conns' => k > conns /\ up'[k] = up[k]
          BY <1>3, <2>1, Constants DEF Dial, TypeInv, NetType
    <3>2. conns' > conns
          BY <2>1
    <3>3. QED BY <1>3, <2>1, <3>1, <3>2 DEF Dial, readVars, TypeInv, Dialled
  <2>6. QED BY <1>3, <2>2, <2>3, <2>4, <2>5, TypeKept DEF Dial, TypeInv
<1>4. CASE DialFails \/ DialCancelled
  <2>1. main' \in MainStates \ {"addopen", "listen"} /\ UNCHANGED <<conns, connField, hand>>
        BY <1>4 DEF DialFails, DialCancelled, Goto, MainStates
  <2>2. QED BY <1>4, <2>1, TypeKept, MainOnHand DEF DialFails, DialCancelled
<1>5. CASE AddOpenHandler
  <2>1. IsChan(hand)'
        BY <1>5, ChanMade DEF AddOpenHandler
  <2>2. UNCHANGED <<conns, connField, lpc, wire, lmsg, up>>
        BY <1>5 DEF AddOpenHandler, Goto, netVars, readVars
  <2>3. ConnType' /\ Dialled'
        BY <1>5, <2>2 DEF AddOpenHandler, Goto, MainStates, TypeInv, ConnType, Dialled
  <2>4. QED BY <1>5, <2>1, <2>2, <2>3, TypeKept DEF AddOpenHandler, TypeInv
<1>6. CASE Listen
  <2>1. connField \in Conns /\ connField = conns /\ lpc[connField] = "off" /\ UNCHANGED conns
        BY <1>6, Constants DEF Listen, Goto, TypeInv, ConnType, Dialled
  <2>2. ConnType'
        BY <1>6 DEF Listen, Goto, MainStates, TypeInv, ConnType
  <2>3. ReadType'
        BY <1>6, <2>1 DEF Listen, TypeInv, ReadType, ListenerPlaces
  <2>4. Dialled'
    <3>1. \A k \in Conns : k > conns => lpc'[k] = lpc[k]
          BY <1>6, <2>1, Constants DEF Listen, TypeInv, ReadType
    <3>2. main' = "cap" /\ UNCHANGED <<conns, wire, lmsg, up>>
          BY <1>6 DEF Listen, Goto, netVars
    <3>3. QED BY <3>1, <3>2 DEF TypeInv, Dialled
  <2>5. QED BY <1>6, <2>2, <2>3, <2>4, TypeKept DEF Listen, TypeInv
<1>7. CASE SendCap \/ SendNick
  <2>1. NetType'
        BY <1>7 DEF SendCap, SendNick, SendRequest, TypeInv, NetType
  <2>2. ConnType' /\ Dialled' /\ UNCHANGED conns
        BY <1>7, MainMoves DEF SendCap, SendNick, SendRequest, Goto, readVars, MainStates, Answers
  <2>3. QED BY <1>7, <2>1, <2>2, TypeKept DEF SendCap, SendNick, SendRequest, TypeInv
<1>8. CASE SendFails
  <2>1. main' \in MainStates \ {"addopen", "listen"} /\ UNCHANGED <<conns, connField, hand>>
        BY <1>8 DEF SendFails, Goto, MainStates
  <2>2. QED BY <1>8, <2>1, TypeKept, MainOnHand DEF SendFails
<1>9. QED BY <1>1, <1>2, <1>3, <1>4, <1>5, <1>6, <1>7, <1>8 DEF OpenContext

LEMMA TypeWait == TypeInv /\ WaitForReply => TypeInv'
<1> SUFFICES ASSUME TypeInv, WaitForReply
             PROVE  TypeInv'
    OBVIOUS
<1>1. CASE WaitReceive
  <2>1. main' \in {main, "nick", "opened", "openfailed", "joined"} /\ main \in DOMAIN Answers
    <3>1. CASE main = "waitcap"
          BY <1>1, <3>1 DEF WaitReceive, Answers
    <3>2. CASE main = "waitauth"
          BY <1>1, <3>2 DEF WaitReceive, Answers
    <3>3. CASE main = "waitjoin"
          BY <1>1, <3>3 DEF WaitReceive, Answers
    <3>4. QED BY <1>1, <3>1, <3>2, <3>3, WaitStates DEF WaitReceive
  <2>2. main' \in MainStates \ {"addopen", "listen"}
        BY <2>1, WaitStates DEF MainStates
  <2>3. hand.buf \in Seq(Messages) /\ hand.buf # <<>> /\ Len(hand.buf) <= HandCap
        BY <1>1 DEF WaitReceive, TypeInv, IsChan
  <2>4. Tail(hand.buf) \in Seq(Messages) /\ Len(Tail(hand.buf)) <= HandCap
        BY <2>3, Constants
  <2>5. IsChan(hand)'
        BY <1>1, <2>4, ChanFilled DEF WaitReceive, TypeInv
  <2>6. QED BY <1>1, <2>2, <2>5, TypeKept, MainOnHand DEF WaitReceive
<1>2. CASE WaitPanics
  <2>1. main' \in MainStates \ {"addopen", "listen"}
        BY <1>2 DEF WaitPanics, Cancelled, MainStates
  <2>2. FlagType'
        BY <1>2, TypePanics DEF WaitPanics
  <2>3. QED BY <1>2, <2>1, <2>2, TypeKept, MainOnHand DEF WaitPanics
<1>3. CASE ReplyCancelled \/ ReplyTimeout
  <2>1. main' \in {"opencancelled", "joincancelled", "openfailed", "joinfailed"}
        BY <1>3 DEF ReplyCancelled, ReplyTimeout, Cancelled
  <2>2. QED BY <1>3, <2>1, TypeKept, MainOnHand DEF ReplyCancelled, ReplyTimeout, MainStates
<1>4. QED BY <1>1, <1>2, <1>3 DEF WaitForReply

LEMMA TypeJoin == TypeInv /\ JoinAndClose => TypeInv'
<1> SUFFICES ASSUME TypeInv, JoinAndClose
             PROVE  TypeInv'
    OBVIOUS
<1>1. CASE RemoveHandler \/ AddJoinHandler \/ Joined \/ Leave
  <2>1. IsChan(hand)'
        BY <1>1, ChanMade DEF RemoveHandler, AddJoinHandler, Joined, Leave
  <2>2. main' \in MainStates \ {"addopen", "listen"} /\ UNCHANGED <<conns, connField>>
        BY <1>1 DEF RemoveHandler, AddJoinHandler, Joined, Leave, Goto, MainStates
  <2>3. QED BY <1>1, <2>1, <2>2, TypeKept, MainOnHand DEF RemoveHandler, AddJoinHandler, Joined, Leave
<1>2. CASE SendJoin
  <2>1. NetType'
        BY <1>2 DEF SendJoin, TypeInv, NetType
  <2>2. ConnType' /\ Dialled' /\ UNCHANGED conns
        BY <1>2, MainMoves DEF SendJoin, Goto, readVars, MainStates, Answers
  <2>3. QED BY <1>2, <2>1, <2>2, TypeKept DEF SendJoin, TypeInv
<1>3. CASE ServiceDone \/ CloseTimeout
  <2>1. main' \in MainStates \ {"addopen", "listen"} /\ UNCHANGED <<conns, connField, hand>>
        BY <1>3 DEF ServiceDone, CloseTimeout, Goto, MainStates
  <2>2. QED BY <1>3, <2>1, TypeKept, MainOnHand DEF ServiceDone, CloseTimeout
<1>4. CASE CloseConn \/ CloseConnFails
  <2>1. Shut(connField) /\ connField \in 0..conns /\ UNCHANGED <<chats, noise>>
        BY <1>4 DEF CloseConn, CloseConnFails, Goto, TypeInv, ConnType
  <2>2. NetType' /\ \A k \in Conns : k > conns => up'[k] = up[k] /\ wire'[k] = wire[k]
        BY <2>1, ShutDialled
  <2>3. /\ main' \in MainStates \ {"addopen", "listen"}
        /\ UNCHANGED <<conns, lpc, lmsg>> /\ connField' \in {0, connField}
        BY <1>4 DEF CloseConn, CloseConnFails, Goto, readVars, MainStates, None
  <2>4. ConnType' /\ Dialled'
        BY <2>2, <2>3, Constants DEF TypeInv, ConnType, Dialled
  <2>5. QED BY <1>4, <2>2, <2>3, <2>4, TypeKept DEF CloseConn, CloseConnFails, TypeInv
<1>5. CASE CloseWaits
  <2>1. ReadType'
        BY <1>5 DEF CloseWaits, Goto, TypeInv, ReadType
  <2>2. ConnType' /\ Dialled'
        BY <1>5, MainMoves DEF CloseWaits, Goto, netVars, MainStates
  <2>3. QED BY <1>5, <2>1, <2>2, TypeKept DEF CloseWaits, TypeInv
<1>6. QED BY <1>1, <1>2, <1>3, <1>4, <1>5 DEF JoinAndClose

(* A listener that goes on was started on a connection that was dialled. *)
LEMMA ListenerMoves ==
  ASSUME TypeInv, NEW k \in Conns, lpc[k] # "off", NEW to \in ListenerPlaces,
         lpc' = [lpc EXCEPT ![k] = to],
         NEW m \in Messages, lmsg' = [lmsg EXCEPT ![k] = m],
         NEW c \in 0..conns, lconn' = [lconn EXCEPT ![k] = c],
         UNCHANGED <<mainVars, wire, up>>, lock' \in 0..conns, token' \in {0, 1},
         to = "read" => c # 0,
         to \in {"internal", "public"} => lock' = k,
         to = "public" => m.kind = "chat",
         \A j \in Conns \ {k} : lpc[j] \in {"internal", "public"} => lock' = j
  PROVE  ReadType' /\ Dialled' /\ ConnType'
<1>1. UNCHANGED <<main, conns, connField>>
      BY DEF mainVars
<1>2. k <= conns /\ k # 0
      BY Constants DEF TypeInv, Dialled, ConnType
<1>3. /\ lpc' \in [Conns -> ListenerPlaces] /\ lmsg' \in [Conns -> Messages]
      /\ lconn' \in [Conns -> 0..conns]
      /\ lpc'[k] = to /\ lmsg'[k] = m /\ lconn'[k] = c
      /\ \A j \in Conns \ {k} : lpc'[j] = lpc[j] /\ lmsg'[j] = lmsg[j] /\ lconn'[j] = lconn[j]
      BY DEF TypeInv, ReadType
<1>4. ReadType'
  <2> SUFFICES ASSUME NEW j \in Conns
               PROVE  /\ lpc'[j] = "read" => lconn'[j] # 0
                      /\ lpc'[j] \in {"internal", "public"} => lock' = j
                      /\ lpc'[j] = "public" => lmsg'[j].kind = "chat"
      BY <1>1, <1>3 DEF ReadType
  <2>1. CASE j = k
        BY <2>1, <1>3
  <2>2. CASE j # k
        BY <2>2, <1>3 DEF TypeInv, ReadType
  <2>3. QED BY <2>1, <2>2
<1>5. Dialled'
  <2>1. ASSUME NEW j \in Conns, j > conns
        PROVE  lpc'[j] = "off" /\ wire'[j] = <<>> /\ lmsg'[j] = NoMsg /\ up'[j] = "new"
    <3>1. j # k
          BY <2>1, <1>2, Constants DEF TypeInv, ConnType
    <3>2. QED BY <2>1, <3>1, <1>3 DEF TypeInv, Dialled
  <2>2. ASSUME main \in {"addopen", "listen"}
        PROVE  conns # 0 /\ connField = conns /\ lpc'[conns] = "off"
    <3>1. conns # 0 /\ connField = conns /\ lpc[conns] = "off" /\ conns \in Conns
          BY <2>2, Constants DEF TypeInv, Dialled, ConnType
    <3>2. QED BY <3>1, <1>3
  <2>3. QED BY <2>1, <2>2, <1>1 DEF Dialled
<1>6. QED BY <1>1, <1>4, <1>5 DEF TypeInv, ConnType

LEMMA TypeListener ==
  ASSUME TypeInv, NEW k \in Conns, ListenerStep(k)
  PROVE  TypeInv'
<1>0. /\ conns \in Nat /\ connField \in 0..conns /\ lock \in 0..conns /\ token \in {0, 1}
      /\ 0 \in 0..conns /\ lconn[k] \in 0..conns /\ lmsg[k] \in Messages
      /\ lconn = [lconn EXCEPT ![k] = lconn[k]] /\ lmsg = [lmsg EXCEPT ![k] = lmsg[k]]
      BY Constants DEF TypeInv, ConnType, ReadType
<1>1. \A j \in Conns : lpc[j] \in {"internal", "public"} => lock = j
      BY DEF TypeInv, ReadType
<1>2. CASE ReadCallPanics(k) \/ AnswerPingPanics(k) \/ DeliverPanics(k)
  <2>1. FlagType'
        BY <1>2, TypePanics DEF ReadCallPanics, AnswerPingPanics, DeliverPanics
  <2>2. PICK m \in Messages : lmsg' = [lmsg EXCEPT ![k] = m]
        BY <1>2, <1>0, MessageKinds DEF ReadCallPanics, AnswerPingPanics, DeliverPanics
  <2>3. /\ lpc[k] # "off" /\ lpc' = [lpc EXCEPT ![k] = "exit"]
        /\ UNCHANGED <<mainVars, netVars, lconn, lock, token, hand, pubVars>>
        BY <1>2 DEF ReadCallPanics, AnswerPingPanics, DeliverPanics
  <2>4. ReadType' /\ Dialled' /\ ConnType'
        BY <2>2, <2>3, <1>0, <1>1, ListenerMoves DEF netVars, ListenerPlaces
  <2>5. QED BY <2>1, <2>3, <2>4, TypeKept DEF TypeInv
<1>3. CASE ReadCall(k)
  <2>1. ReadType' /\ Dialled' /\ ConnType'
        BY <1>3, <1>0, <1>1, ListenerMoves DEF ReadCall, netVars, ListenerPlaces, None
  <2>2. QED BY <1>3, <2>1, TypeKept DEF ReadCall, TypeInv
<1>4. CASE ReadMessage(k)
  <2>1. lconn[k] \in Conns /\ lconn[k] <= conns
        BY <1>4, <1>0, Constants DEF ReadMessage, TypeInv, ReadType, ConnType
  <2>2. /\ wire[lconn[k]] \in Seq(Messages) /\ wire[lconn[k]] # <<>>
        BY <1>4, <2>1 DEF ReadMessage, TypeInv, NetType
  <2>3. Head(wire[lconn[k]]) \in Messages /\ Tail(wire[lconn[k]]) \in Seq(Messages)
        BY <2>2
  <2>4. NetType'
    <3>1. wire' \in [Conns -> Seq(Messages)]
          BY <1>4, <2>1, <2>3 DEF ReadMessage, TypeInv, NetType
    <3>2. QED BY <1>4, <3>1 DEF ReadMessage, TypeInv, NetType
  <2>5. \A j \in Conns : j > conns => wire'[j] = wire[j]
        BY <1>4, <2>1, <1>0, Constants DEF ReadMessage, TypeInv, NetType
  <2>6. /\ lpc' = [lpc EXCEPT ![k] = "handle"] /\ lmsg' = [lmsg EXCEPT ![k] = Head(wire[lconn[k]])]
        /\ lconn' = [lconn EXCEPT ![k] = 0] /\ lpc[k] = "read"
        /\ UNCHANGED <<mainVars, up, lock, token>>
        BY <1>4 DEF ReadMessage, None
  <2>7. ReadType' /\ Dialled' /\ ConnType'
    <3>1. k <= conns
          BY <2>6, Constants DEF TypeInv, Dialled, ConnType
    <3>2. ReadType'
      <4>1. /\ lpc' \in [Conns -> ListenerPlaces] /\ lmsg' \in [Conns -> Messages]
            /\ lconn' \in [Conns -> 0..conns]
            BY <2>3, <2>6, <1>0 DEF TypeInv, ReadType, ListenerPlaces
      <4>2. \A j \in Conns : /\ lpc'[j] = "read" => lpc[j] = "read" /\ lconn'[j] = lconn[j]
                             /\ lpc'[j] \in {"internal", "public"} => lpc'[j] = lpc[j] /\ lmsg'[j] = lmsg[j]
            BY <2>6, <1>0 DEF TypeInv, ReadType
      <4>3. UNCHANGED <<conns, lock, token>>
            BY <2>6 DEF mainVars
      <4>4. QED BY <4>1, <4>2, <4>3 DEF TypeInv, ReadType
    <3>3. Dialled'
      <4>1. \A j \in Conns : j > conns => j # k
            BY <3>1, <1>0, Constants
      <4>2. \A j \in Conns : j # k => lpc'[j] = lpc[j] /\ lmsg'[j] = lmsg[j]
            BY <2>6 DEF TypeInv, ReadType
      <4>3. ASSUME main \in {"addopen", "listen"}
            PROVE  lpc'[conns] = "off"
        <5>1. conns \in Conns /\ lpc[conns] = "off" /\ conns # k
              BY <4>3, <2>6, Constants DEF TypeInv, Dialled, ConnType
        <5>2. QED BY <5>1, <4>2 DEF TypeInv, Dialled
      <4>4. UNCHANGED <<main, conns, connField, up>>
            BY <2>6 DEF mainVars
      <4>5. QED BY <4>1, <4>2, <4>3, <4>4, <2>5 DEF TypeInv, Dialled
    <3>4. ConnType'
          BY <2>6 DEF mainVars, TypeInv, ConnType
    <3>5. QED BY <3>2, <3>3, <3>4
  <2>8. QED BY <1>4, <2>4, <2>7, TypeKept DEF ReadMessage, TypeInv
<1>5. CASE ReadFails(k)
  <2>1. lconn[k] \in Conns /\ lconn[k] <= conns
    <3>1. lpc[k] = "read"
          BY <1>5 DEF ReadFails
    <3>2. lconn[k] # 0
          BY <3>1 DEF TypeInv, ReadType
    <3>3. QED BY <3>2, <1>0, Constants DEF TypeInv, ConnType
  <2>2. lconn[k] \in 0..conns /\ Shut(lconn[k]) /\ UNCHANGED <<chats, noise>>
        BY <1>5, <1>0 DEF ReadFails
  <2>3. NetType' /\ \A j \in Conns : j > conns => up'[j] = up[j] /\ wire'[j] = wire[j]
        BY <2>2, ShutDialled
  <2>4. /\ lpc' = [lpc EXCEPT ![k] = "exit"] /\ lconn' = [lconn EXCEPT ![k] = 0] /\ lpc[k] = "read"
        /\ UNCHANGED <<mainVars, lmsg, lock, token>>
        BY <1>5 DEF ReadFails, None
  <2>5. k <= conns
        BY <2>4, Constants DEF TypeInv, Dialled, ConnType
  <2>6. ReadType'
    <3>1. lpc' \in [Conns -> ListenerPlaces] /\ lconn' \in [Conns -> 0..conns]
          BY <2>4, <1>0 DEF TypeInv, ReadType, ListenerPlaces
    <3>2. \A j \in Conns : /\ lpc'[j] = "read" => lpc[j] = "read" /\ lconn'[j] = lconn[j]
                           /\ lpc'[j] \in {"internal", "public"} => lpc'[j] = lpc[j]
          BY <2>4, <1>0 DEF TypeInv, ReadType
    <3>3. UNCHANGED <<conns, lock, token, lmsg>>
          BY <2>4 DEF mainVars
    <3>4. QED BY <3>1, <3>2, <3>3 DEF TypeInv, ReadType
  <2>7. Dialled'
    <3>1. \A j \in Conns : j > conns => j # k
          BY <2>5, <1>0, Constants
    <3>2. \A j \in Conns : j # k => lpc'[j] = lpc[j]
          BY <2>4 DEF TypeInv, ReadType
    <3>3. ASSUME main \in {"addopen", "listen"}
          PROVE  lpc'[conns] = "off"
      <4>1. conns \in Conns /\ lpc[conns] = "off" /\ conns # k
            BY <3>3, <2>4, Constants DEF TypeInv, Dialled, ConnType
      <4>2. QED BY <4>1, <3>2
    <3>4. UNCHANGED <<main, conns, connField, lmsg>>
          BY <2>4 DEF mainVars
    <3>5. QED BY <3>1, <3>2, <3>3, <3>4, <2>3 DEF TypeInv, Dialled
  <2>8. ConnType'
        BY <2>4 DEF mainVars, TypeInv, ConnType
  <2>9. QED BY <1>5, <2>3, <2>6, <2>7, <2>8, TypeKept DEF ReadFails, TypeInv
<1>6. CASE Discard(k) \/ AnswerPing(k) \/ Improper(k)
  <2>1. PICK to \in {"call", "exit"} : lpc' = [lpc EXCEPT ![k] = to]
        BY <1>6 DEF Discard, AnswerPing, Improper
  <2>2. /\ lmsg' = [lmsg EXCEPT ![k] = NoMsg] /\ lconn' = [lconn EXCEPT ![k] = lconn[k]]
        /\ lpc[k] = "handle" /\ UNCHANGED <<mainVars, netVars, lock, token>>
        BY <1>6, <1>0 DEF Discard, AnswerPing, Improper
  <2>3. /\ to \in ListenerPlaces \ {"read", "internal", "public"} /\ lpc[k] # "off"
        /\ NoMsg \in Messages /\ UNCHANGED <<mainVars, wire, up, lock, token>>
        BY <2>2, MessageKinds DEF netVars, ListenerPlaces
  <2>4. ReadType' /\ Dialled' /\ ConnType'
        BY <2>1, <2>2, <2>3, <1>0, <1>1, ListenerMoves
  <2>5. QED BY <1>6, <2>4, TypeKept DEF Discard, AnswerPing, Improper, TypeInv
<1>7. CASE DeliverLock(k)
  <2>1. k \in 0..conns
        BY <1>7, <1>0, Constants DEF DeliverLock, TypeInv, Dialled
  <2>2. \A j \in Conns : lpc[j] \notin {"internal", "public"}
        BY <1>7, <1>1, Constants DEF DeliverLock
  <2>3. ReadType' /\ Dialled' /\ ConnType'
        BY <1>7, <2>1, <2>2, <1>0, ListenerMoves DEF DeliverLock, netVars, ListenerPlaces
  <2>4. QED BY <1>7, <2>3, TypeKept DEF DeliverLock, TypeInv
<1>8. CASE DeliverInternal(k)
  <2>1. \A j \in Conns \ {k} : lpc[j] \notin {"internal", "public"}
        BY <1>8, <1>1 DEF DeliverInternal
  <2>2. IsChan(hand)'
    <3>1. CASE hand.reg
      <4>1. hand.buf \in Seq(Messages) /\ Len(hand.buf) < HandCap
            BY <1>8, <3>1 DEF DeliverInternal, TypeInv, IsChan
      <4>2. Append(hand.buf, lmsg[k]) \in Seq(Messages) /\ Len(Append(hand.buf, lmsg[k])) <= HandCap
            BY <4>1, <1>0, Constants
      <4>3. QED BY <1>8, <3>1, <4>2, ChanFilled DEF DeliverInternal, TypeInv
    <3>2. CASE ~hand.reg
          BY <1>8, <3>2, TypeKept DEF DeliverInternal
    <3>3. QED BY <3>1, <3>2
  <2>3. ReadType' /\ Dialled' /\ ConnType'
    <3>1. CASE lmsg[k].kind = "chat"
          BY <1>8, <3>1, <2>1, <1>0, <1>1, ListenerMoves DEF DeliverInternal, netVars, ListenerPlaces
    <3>2. CASE lmsg[k].kind # "chat"
          BY <1>8, <3>2, <2>1, <1>0, MessageKinds, ListenerMoves
          DEF DeliverInternal, Delivered, netVars, ListenerPlaces, None
    <3>3. QED BY <3>1, <3>2
  <2>4. QED BY <1>8, <2>2, <2>3, TypeKept DEF DeliverInternal, TypeInv
<1>9. CASE DeliverPublic(k)
  <2>1. \A j \in Conns \ {k} : lpc[j] \notin {"internal", "public"}
        BY <1>9, <1>1 DEF DeliverPublic
  <2>2. PubType'
    <3>1. CASE pub.reg
      <4>1. pub.buf \in Seq(Messages) /\ Len(pub.buf) < HandCap /\ lmsg[k].kind = "chat"
            BY <1>9, <3>1 DEF DeliverPublic, TypeInv, PubType, IsChan, ReadType
      <4>2. Append(pub.buf, lmsg[k]) \in Seq(Messages)
            BY <4>1, <1>0
      <4>3. PICK s \in Seq(Messages) : s = Append(pub.buf, lmsg[k])
            BY <4>2
      <4>4. Len(s) <= HandCap /\ \A i \in DOMAIN s : s[i].kind = "chat"
            BY <4>1, <4>3, <1>0, Constants DEF TypeInv, PubType
      <4>5. pub' = [pub EXCEPT !.buf = s]
            BY <1>9, <3>1, <4>3 DEF DeliverPublic
      <4>6. IsChan(pub)' /\ pub'.buf = s
        <5>1. IsChan([pub EXCEPT !.buf = s]) /\ [pub EXCEPT !.buf = s].buf = s
              BY <4>4, ChanFilled DEF TypeInv, PubType
        <5>2. QED BY <4>5, <5>1 DEF IsChan
      <4>7. QED BY <1>9, <4>4, <4>6 DEF DeliverPublic, TypeInv, PubType
    <3>2. CASE ~pub.reg
          BY <1>9, <3>2, TypeKept DEF DeliverPublic, pubVars
    <3>3. QED BY <3>1, <3>2
  <2>3. ReadType' /\ Dialled' /\ ConnType'
        BY <1>9, <2>1, <1>0, MessageKinds, ListenerMoves
        DEF DeliverPublic, Delivered, netVars, ListenerPlaces, None
  <2>4. QED BY <1>9, <2>2, <2>3, TypeKept DEF DeliverPublic, TypeInv
<1>10. CASE ListenerClose(k) \/ ListenerClosePanics(k)
  <2>1. IsChan(hand)' /\ IsChan(pub)' /\ pub'.buf = pub.buf
        BY <1>10, ChanClosed, TypeKept DEF ListenerClose, ListenerClosePanics, TypeInv, PubType
  <2>2. PubType'
        BY <1>10, <2>1 DEF ListenerClose, ListenerClosePanics, TypeInv, PubType
  <2>3. ReadType' /\ Dialled' /\ ConnType'
        BY <1>10, <1>0, <1>1, ListenerMoves
        DEF ListenerClose, ListenerClosePanics, netVars, ListenerPlaces
  <2>4. FlagType'
        BY <1>10, TypePanics, TypeKept DEF ListenerClose, ListenerClosePanics
  <2>5. QED BY <1>10, <2>1, <2>2, <2>3, <2>4, TypeKept
        DEF ListenerClose, ListenerClosePanics, TypeInv
<1>11. CASE Signal(k)
  <2>1. ReadType' /\ Dialled' /\ ConnType'
        BY <1>11, <1>0, <1>1, ListenerMoves DEF Signal, netVars, ListenerPlaces
  <2>2. QED BY <1>11, <2>1, TypeKept DEF Signal, TypeInv
<1>12. QED BY <1>2, <1>3, <1>4, <1>5, <1>6, <1>7, <1>8, <1>9, <1>10, <1>11 DEF ListenerStep

LEMMA TypeHandler == TypeInv /\ HandlerStep => TypeInv'
<1> SUFFICES ASSUME TypeInv, HandlerStep
             PROVE  TypeInv'
    OBVIOUS
<1>1. UNCHANGED <<mainVars, netVars, readVars, hand, ctxVars, panicVars>>
      BY DEF HandlerStep, HandlerTake, HandlerPublish, HandlerEnd, HandlerRemove
<1>2. UNCHANGED <<mainVars, lpc, wire, lmsg, up>> /\ UNCHANGED conns
      BY <1>1 DEF mainVars, netVars, readVars
<1>3. PubType'
  <2>1. CASE HandlerTake
    <3>1. /\ pub.buf \in Seq(Messages) /\ pub.buf # <<>> /\ Len(pub.buf) <= HandCap
          /\ \A i \in DOMAIN pub.buf : pub.buf[i].kind = "chat"
          BY <2>1 DEF HandlerTake, TypeInv, PubType, IsChan
    <3>2. Tail(pub.buf) \in Seq(Messages) /\ Head(pub.buf) \in Messages
          BY <3>1
    <3>3. PICK s \in Seq(Messages) : s = Tail(pub.buf)
          BY <3>2
    <3>4. Len(s) <= HandCap /\ \A i \in DOMAIN s : s[i].kind = "chat"
          BY <3>1, <3>3, Constants
    <3>5. IsChan([pub EXCEPT !.buf = s]) /\ [pub EXCEPT !.buf = s].buf = s
          BY <3>4, ChanFilled DEF TypeInv, PubType
    <3>6. pub' = [pub EXCEPT !.buf = s]
          BY <2>1, <3>3 DEF HandlerTake
    <3>7. IsChan(pub)' /\ pub'.buf = s
          BY <3>5, <3>6 DEF IsChan
    <3>8. Head(pub.buf).kind = "chat"
          BY <3>1
    <3>9. hmsg' \in 1..MaxChats
          BY <2>1, <3>2, <3>8, MessageKinds DEF HandlerTake
    <3>10. /\ published' = published /\ hpc' = "publish"
           /\ hmsg' \in 0..MaxChats /\ hmsg' # 0
      <4>1. published' = published /\ hpc' = "publish"
            BY <2>1 DEF HandlerTake
      <4>2. QED BY <3>9, <4>1, Constants
    <3>11. \A i \in DOMAIN pub'.buf : pub'.buf[i].kind = "chat"
           BY <3>4, <3>7
    <3>12. QED BY <3>7, <3>10, <3>11 DEF TypeInv, PubType
  <2>2. CASE HandlerPublish
    <3>1. hmsg \in 1..MaxChats
          BY <2>2, Constants DEF HandlerPublish, TypeInv, PubType
    <3>2. Append(published, hmsg) \in Seq(1..MaxChats)
          BY <3>1 DEF TypeInv, PubType
    <3>3. IsChan(pub)' /\ pub' = pub
          BY <2>2 DEF HandlerPublish, TypeInv, PubType, IsChan
    <3>4. QED BY <2>2, <3>2, <3>3, Constants DEF HandlerPublish, TypeInv, PubType
  <2>3. CASE HandlerEnd
        BY <2>3 DEF HandlerEnd, TypeInv, PubType, IsChan
  <2>4. CASE HandlerRemove
    <3>1. IsChan(pub)' /\ pub'.buf = <<>>
          BY <2>4, ChanMade DEF HandlerRemove, NoChan
    <3>2. QED BY <2>4, <3>1 DEF HandlerRemove, TypeInv, PubType
  <2>5. QED BY <2>1, <2>2, <2>3, <2>4 DEF HandlerStep
<1>4. QED BY <1>1, <1>2, <1>3, TypeKept DEF TypeInv

(* The server puts a message on a wire that was dialled. *)
LEMMA ServerSends ==
  ASSUME TypeInv, NEW k \in Conns, up[k] = "up", NEW m \in Messages,
         wire' = [wire EXCEPT ![k] = Append(@, m)], UNCHANGED <<mainVars, up, lpc, lmsg>>
  PROVE  wire' \in [Conns -> Seq(Messages)] /\ Dialled'
<1>1. Append(wire[k], m) \in Seq(Messages)
      BY DEF TypeInv, NetType
<1>2. /\ wire' \in [Conns -> Seq(Messages)]
      /\ \A j \in Conns \ {k} : wire'[j] = wire[j]
      BY <1>1 DEF TypeInv, NetType
<1>3. ~(k > conns)
      BY DEF TypeInv, Dialled
<1>4. QED BY <1>2, <1>3 DEF TypeInv, Dialled, mainVars

LEMMA TypeServer ==
  ASSUME TypeInv, NEW k \in Conns, Server(k)
  PROVE  TypeInv'
<1>1. UNCHANGED <<mainVars, readVars, hand, pubVars, ctxVars, panicVars>>
      BY DEF Server, ServerReplies, ServerChats, ServerNoise, ServerDrops
<1>2. UNCHANGED <<mainVars, lpc, lmsg>> /\ UNCHANGED conns
      BY <1>1 DEF mainVars, readVars
<1>3. NetType' /\ Dialled'
  <2>1. CASE ServerReplies(k)
    <3>1. PICK r \in asked[k] \cap DOMAIN Reply : \E a \in Reply[r] :
            /\ wire' = [wire EXCEPT ![k] = Append(@, Msg(a))]
            /\ asked' = [asked EXCEPT ![k] = (@ \ {r}) \cup (IF r = "join" THEN {"member"} ELSE {})]
          BY <2>1 DEF ServerReplies
    <3>2. PICK a \in Reply[r] :
            /\ wire' = [wire EXCEPT ![k] = Append(@, Msg(a))]
            /\ asked' = [asked EXCEPT ![k] = (@ \ {r}) \cup (IF r = "join" THEN {"member"} ELSE {})]
          BY <3>1
    <3>3. Msg(a) \in Messages
          BY MessageKinds
    <3>4. up[k] = "up" /\ UNCHANGED <<up, chats, noise>>
          BY <2>1 DEF ServerReplies, Carries
    <3>5. wire' \in [Conns -> Seq(Messages)] /\ Dialled'
          BY <3>2, <3>3, <3>4, <1>2, ServerSends
    <3>6. asked' \in [Conns -> SUBSET {"cap", "nick", "join", "member"}]
          BY <3>2 DEF TypeInv, NetType
    <3>7. QED BY <3>4, <3>5, <3>6 DEF TypeInv, NetType
  <2>2. CASE ServerChats(k)
    <3>1. chats + 1 \in 1..MaxChats /\ chats' = chats + 1
          BY <2>2, Constants DEF ServerChats, TypeInv, NetType
    <3>2. Chat(chats + 1) \in Messages
          BY <3>1, MessageKinds
    <3>3. wire' \in [Conns -> Seq(Messages)] /\ Dialled'
          BY <2>2, <3>2, <1>2, ServerSends DEF ServerChats, Carries
    <3>4. QED BY <2>2, <3>1, <3>3, Constants DEF ServerChats, TypeInv, NetType
  <2>3. CASE ServerNoise(k)
    <3>1. PICK a \in {"ping", "system"} : wire' = [wire EXCEPT ![k] = Append(@, Msg(a))]
          BY <2>3 DEF ServerNoise
    <3>2. Msg(a) \in Messages
          BY MessageKinds
    <3>3. wire' \in [Conns -> Seq(Messages)] /\ Dialled'
          BY <2>3, <3>1, <3>2, <1>2, ServerSends DEF ServerNoise, Carries
    <3>4. QED BY <2>3, <3>3, Constants DEF ServerNoise, TypeInv, NetType
  <2>4. CASE ServerDrops(k)
    <3>1. NetType'
          BY <2>4 DEF ServerDrops, TypeInv, NetType, UpStates
    <3>2. ~(k > conns)
          BY <2>4 DEF ServerDrops, TypeInv, Dialled
    <3>3. Dialled'
          BY <2>4, <3>2, <1>2 DEF ServerDrops, TypeInv, Dialled, NetType, mainVars
    <3>4. QED BY <3>1, <3>3
  <2>5. QED BY <2>1, <2>2, <2>3, <2>4 DEF Server
<1>4. QED BY <1>1, <1>2, <1>3, TypeKept DEF TypeInv

LEMMA TypeStep == TypeInv /\ [Next]_vars => TypeInv'
<1> SUFFICES ASSUME TypeInv, [Next]_vars
             PROVE  TypeInv'
    OBVIOUS
<1>1. CASE UNCHANGED vars \/ Dies \/ BrokerSticks \/ Cancel
  <2>1. UNCHANGED <<mainVars, netVars, readVars, hand, pubVars>>
        BY <1>1 DEF vars, Dies, BrokerSticks, Cancel
  <2>2. UNCHANGED <<mainVars, lpc, wire, lmsg, up>> /\ UNCHANGED conns
        BY <2>1 DEF mainVars, netVars, readVars
  <2>3. FlagType'
        BY <1>1 DEF vars, Dies, BrokerSticks, Cancel, ctxVars, panicVars, TypeInv, FlagType
  <2>4. QED BY <2>1, <2>2, <2>3, TypeKept DEF TypeInv
<1>2. QED BY <1>1, TypeValidate, TypeOpen, TypeWait, TypeJoin, TypeListener, TypeHandler, TypeServer
          DEF Next

LEMMA TypeCorrect == Spec => []TypeInv
BY TypeInit, TypeStep, PTL DEF Spec

(* TypeOK: no channel holds more than its capacity, and handlerMtx is held *)
(* by the listener of a dialled connection.                                *)
THEOREM IrcTypeCorrect == Spec => []TypeOK
<1>1. TypeInv => TypeOK
  <2> SUFFICES ASSUME TypeInv
               PROVE  TypeOK
      OBVIOUS
  <2>1. {ctxDone, brokerStuck, crashed} \subseteq BOOLEAN /\ unwinding \subseteq Conns \cup {None}
        BY DEF TypeInv, FlagType
  <2>2. QED BY <2>1 DEF TypeOK, TypeInv, ConnType, NetType, ReadType, PubType, UpStates,
                        ListenerPlaces
<1>2. QED BY <1>1, TypeCorrect, PTL

-----------------------------------------------------------------------------
(* A listener moves itself only. *)
LEMMA ListenerPlace ==
  ASSUME NEW k \in Conns, ListenerStep(k)
  PROVE  /\ \E to \in ListenerPlaces : lpc' = [lpc EXCEPT ![k] = to]
         /\ UNCHANGED mainVars
<1>1. \E to \in ListenerPlaces : lpc' = [lpc EXCEPT ![k] = to]
      BY DEF ListenerStep, ReadCall, ReadCallPanics, ReadMessage, ReadFails, Discard, AnswerPing,
         AnswerPingPanics, Improper, DeliverLock, DeliverInternal, Delivered, DeliverPublic,
         DeliverPanics, ListenerClose, ListenerClosePanics, Signal, ListenerPlaces
<1>2. UNCHANGED mainVars
      BY DEF ListenerStep, ReadCall, ReadCallPanics, ReadMessage, ReadFails, Discard, AnswerPing,
         AnswerPingPanics, Improper, DeliverLock, DeliverInternal, DeliverPublic,
         DeliverPanics, ListenerClose, ListenerClosePanics, Signal
<1>3. QED BY <1>1, <1>2

(* Nobody else moves a listener, but for Listen. *)
LEMMA ListenersRest ==
  ASSUME [Next]_vars, ~Listen, \A k \in Conns : ~ListenerStep(k)
  PROVE  UNCHANGED <<lpc, lock>>
<1>1. CASE Validate \/ OpenContext
      BY <1>1 DEF Validate, Validated, ValidateFails, OpenContext, ResetHandlers, CloseOld, Dial,
         DialFails, DialCancelled, AddOpenHandler, SendCap, SendNick, SendRequest, SendFails, readVars
<1>2. CASE WaitForReply \/ JoinAndClose
      BY <1>2 DEF WaitForReply, WaitReceive, WaitPanics, ReplyCancelled, ReplyTimeout, JoinAndClose,
         RemoveHandler, AddJoinHandler, SendJoin, Joined, Leave, ServiceDone, CloseConn,
         CloseConnFails, CloseWaits, CloseTimeout, readVars
<1>3. ASSUME NEW k \in Conns, Server(k)
      PROVE  UNCHANGED <<lpc, lock>>
      BY <1>3 DEF Server, ServerReplies, ServerChats, ServerNoise, ServerDrops, readVars
<1>4. HandlerStep \/ Dies \/ BrokerSticks \/ Cancel \/ UNCHANGED vars => UNCHANGED <<lpc, lock>>
      BY DEF HandlerStep, HandlerTake, HandlerPublish, HandlerEnd, HandlerRemove, Dies, BrokerSticks,
         Cancel, vars, readVars
<1>5. QED BY <1>1, <1>2, <1>3, <1>4 DEF Next

(* LockCycleIsForever: the listener that fills the internal channel holds  *)
(* handlerMtx (connection.go), and everything that could take a message    *)
(* from that channel or unregister it first needs the lock; and a listener *)
(* that panicked while it holds the lock needs it to end.                  *)
THEOREM LockCycleCorrect == Spec => LockCycleIsForever
<1>1. ASSUME TypeInv, [Next]_vars, LockCycle
      PROVE  LockCycle'
  <2>1. /\ lock \in Conns /\ lock # None /\ lpc[lock] = "internal"
        /\ hand.reg /\ hand.open /\ ~(Len(hand.buf) < HandCap)
        /\ \A k \in Conns : lpc[k] \in {"internal", "public"} => k = lock
        BY <1>1, Constants DEF LockCycle, TypeInv, ReadType, ConnType
  <2>2. UNCHANGED <<lock, lpc, hand, main>> => LockCycle'
        BY <1>1 DEF LockCycle
  <2>3. CASE Validate \/ OpenContext \/ WaitForReply \/ JoinAndClose
    <3>1. ~Validate /\ ~OpenContext
          BY <1>1, <2>1 DEF LockCycle, Validate, Validated, ValidateFails, OpenContext, ResetHandlers,
             CloseOld, Dial, DialFails, DialCancelled, AddOpenHandler, Listen, SendCap, SendNick,
             SendRequest, SendFails, Goto
    <3>2. ~WaitReceive /\ ~WaitPanics /\ ~ReplyCancelled /\ ~ReplyTimeout
          BY <1>1, WaitStates DEF LockCycle, WaitReceive, WaitPanics, ReplyCancelled, ReplyTimeout
    <3>3. ~JoinAndClose
          BY <1>1, <2>1 DEF LockCycle, JoinAndClose, RemoveHandler, AddJoinHandler, SendJoin, Joined,
             Leave, ServiceDone, CloseConn, CloseConnFails, CloseWaits, CloseTimeout, Goto
    <3>4. QED BY <2>3, <3>1, <3>2, <3>3 DEF WaitForReply
  <2>4. ASSUME NEW k \in Conns, ListenerStep(k)
        PROVE  LockCycle'
    <3>1. k # lock
          BY <2>1, <2>4 DEF ListenerStep, ReadCall, ReadCallPanics, ReadMessage, ReadFails,
             Discard, AnswerPing, AnswerPingPanics, Improper, DeliverLock, DeliverInternal,
             DeliverPublic, DeliverPanics, ListenerClose, ListenerClosePanics, Signal
    <3>2. lpc[k] \notin {"internal", "public"}
          BY <2>1, <3>1
    <3>3. UNCHANGED <<lock, hand>>
          BY <2>1, <2>4, <3>2 DEF ListenerStep, ReadCall, ReadCallPanics, ReadMessage, ReadFails,
             Discard, AnswerPing, AnswerPingPanics, Improper, DeliverLock, DeliverInternal,
             DeliverPublic, DeliverPanics, ListenerClose, ListenerClosePanics, Signal, readVars
    <3>4. lpc'[lock] = "internal" /\ main' = main
          BY <2>1, <2>4, <3>1, <1>1, ListenerPlace DEF TypeInv, ReadType, mainVars
    <3>5. QED BY <3>3, <3>4, <1>1 DEF LockCycle
  <2>5. ASSUME NEW k \in Conns, Server(k)
        PROVE  LockCycle'
        BY <2>2, <2>5 DEF Server, ServerReplies, ServerChats, ServerNoise, ServerDrops, mainVars, readVars
  <2>6. CASE HandlerStep \/ Dies \/ BrokerSticks \/ Cancel \/ UNCHANGED vars
        BY <2>2, <2>6 DEF HandlerStep, HandlerTake, HandlerPublish, HandlerEnd, HandlerRemove,
           Dies, BrokerSticks, Cancel, vars, mainVars, readVars
  <2>7. QED BY <1>1, <2>3, <2>4, <2>5, <2>6 DEF Next
<1>2. ASSUME TypeInv, [Next]_vars, SelfLocked
      PROVE  SelfLocked'
  <2>1. /\ lock \in Conns /\ lock # None /\ lpc[lock] = "exit" /\ lpc \in [Conns -> ListenerPlaces]
        /\ \A k \in Conns : lpc[k] \notin {"internal", "public"}
    <3>1. lock \in Conns /\ lock # None /\ lpc[lock] = "exit"
          BY <1>2, Constants DEF SelfLocked, TypeInv, ReadType, ConnType
    <3>2. QED BY <1>2, <3>1 DEF TypeInv, ReadType
  <2>2. CASE Listen
    <3>1. connField = conns /\ lpc[conns] = "off"
          BY <1>2, <2>2 DEF Listen, Goto, TypeInv, Dialled
    <3>2. connField # lock
          BY <2>1, <3>1
    <3>3. QED BY <2>1, <2>2, <3>2 DEF Listen, SelfLocked
  <2>3. ASSUME NEW k \in Conns, ListenerStep(k)
        PROVE  SelfLocked'
    <3>1. k # lock
          BY <2>1, <2>3 DEF ListenerStep, ReadCall, ReadCallPanics, ReadMessage, ReadFails,
             Discard, AnswerPing, AnswerPingPanics, Improper, DeliverLock, DeliverInternal,
             DeliverPublic, DeliverPanics, ListenerClose, ListenerClosePanics, Signal
    <3>2. lock' = lock
          BY <2>1, <2>3 DEF ListenerStep, ReadCall, ReadCallPanics, ReadMessage, ReadFails,
             Discard, AnswerPing, AnswerPingPanics, Improper, DeliverLock, DeliverInternal,
             DeliverPublic, DeliverPanics, ListenerClose, ListenerClosePanics, Signal
    <3>3. lpc'[lock] = "exit"
          BY <2>1, <2>3, <3>1, ListenerPlace
    <3>4. QED BY <2>1, <3>2, <3>3 DEF SelfLocked
  <2>4. CASE ~Listen /\ \A k \in Conns : ~ListenerStep(k)
        BY <1>2, <2>4, ListenersRest DEF SelfLocked
  <2>5. QED BY <2>2, <2>3, <2>4
<1>3. TypeInv /\ [Next]_vars =>
        [(LockCycle => LockCycle') /\ (SelfLocked => SelfLocked')]_vars
      BY <1>1, <1>2
<1>4. QED BY <1>3, TypeCorrect, PTL DEF Spec, LockCycleIsForever

-----------------------------------------------------------------------------
(* Only a listener that ended has closed the channels. *)
ClosedByEnded ==
  ~(hand.open /\ pub.open) => \E k \in Conns : lpc[k] \in {"signal", "gone"}

(* Once there was a connection, only Close makes the field nil. *)
FieldByClose == connField = None => conns = 0 \/ main \in {"waitdone", "returned"}

PanicInv == PanicsExplained /\ ClosedByEnded /\ FieldByClose

LEMMA PanicInit == Init => PanicInv
<1> SUFFICES ASSUME Init
             PROVE  PanicInv
    OBVIOUS
<1>1. unwinding = {} /\ conns = 0 /\ hand.open /\ pub.open
      BY DEF Init, NoChan
<1>2. QED BY <1>1 DEF PanicInv, PanicsExplained, ClosedByEnded, FieldByClose

(* Listeners that ended stay ended. *)
LEMMA EndedStay ==
  ASSUME TypeInv, [Next]_vars, NEW k \in Conns, lpc[k] \in {"signal", "gone"}
  PROVE  lpc'[k] \in {"signal", "gone"}
<1>1. lpc \in [Conns -> ListenerPlaces]
      BY DEF TypeInv, ReadType
<1>2. CASE Listen
  <2>1. connField = conns /\ lpc[conns] = "off"
        BY <1>2 DEF Listen, Goto, TypeInv, Dialled
  <2>2. connField # k
        BY <2>1
  <2>3. QED BY <1>1, <1>2, <2>2 DEF Listen
<1>3. ASSUME NEW j \in Conns, ListenerStep(j)
      PROVE  lpc'[k] \in {"signal", "gone"}
  <2>1. CASE j # k
        BY <1>1, <1>3, <2>1, ListenerPlace
  <2>2. CASE j = k
    <3>1. Signal(k)
          BY <1>3, <2>2 DEF ListenerStep, ReadCall, ReadCallPanics, ReadMessage, ReadFails,
             Discard, AnswerPing, AnswerPingPanics, Improper, DeliverLock, DeliverInternal,
             DeliverPublic, DeliverPanics, ListenerClose, ListenerClosePanics
    <3>2. QED BY <1>1, <3>1 DEF Signal
  <2>3. QED BY <2>1, <2>2
<1>4. CASE ~Listen /\ \A j \in Conns : ~ListenerStep(j)
      BY <1>4, ListenersRest
<1>5. QED BY <1>2, <1>3, <1>4

(* Only the deferred close of a listener closes a channel. *)
LEMMA StayOpen ==
  ASSUME TypeInv, [Next]_vars, \A k \in Conns : ~ListenerClose(k) /\ ~ListenerClosePanics(k)
  PROVE  (hand.open => hand'.open) /\ (pub.open => pub'.open)
<1>1. NoChan.open /\ NewChan.open
      BY DEF NoChan, NewChan
<1>2. \A s : [hand EXCEPT !.buf = s].open = hand.open /\ [pub EXCEPT !.buf = s].open = pub.open
      BY DEF TypeInv, PubType, IsChan
<1>3. CASE Validate
      BY <1>1, <1>3 DEF Validate, Validated, ValidateFails, pubVars
<1>4. CASE OpenContext
  <2>1. hand' = NoChan \/ hand' = NewChan \/ hand' = hand
        BY <1>4 DEF OpenContext, ResetHandlers, CloseOld, Dial, DialFails, DialCancelled, Listen,
           AddOpenHandler, SendCap, SendNick, SendRequest, SendFails
  <2>2. pub' = pub
        BY <1>4 DEF OpenContext, ResetHandlers, CloseOld, Dial, DialFails, DialCancelled, Listen,
           AddOpenHandler, SendCap, SendNick, SendRequest, SendFails, pubVars
  <2>3. QED BY <1>1, <2>1, <2>2
<1>5. CASE WaitForReply \/ JoinAndClose
  <2>1. hand' = NoChan \/ hand' = NewChan \/ hand' = hand
          \/ hand' = [hand EXCEPT !.buf = Tail(hand.buf)]
        BY <1>5 DEF WaitForReply, WaitReceive, WaitPanics, ReplyCancelled, ReplyTimeout,
           JoinAndClose, RemoveHandler, AddJoinHandler, SendJoin, Joined, Leave, ServiceDone,
           CloseConn, CloseConnFails, CloseWaits, CloseTimeout
  <2>2. pub' = pub
        BY <1>5 DEF WaitForReply, WaitReceive, WaitPanics, ReplyCancelled, ReplyTimeout,
           JoinAndClose, RemoveHandler, AddJoinHandler, SendJoin, Joined, Leave, ServiceDone,
           CloseConn, CloseConnFails, CloseWaits, CloseTimeout, pubVars
  <2>3. QED BY <1>1, <1>2, <2>1, <2>2
<1>6. ASSUME NEW k \in Conns, ListenerStep(k)
      PROVE  (hand.open => hand'.open) /\ (pub.open => pub'.open)
  <2>1. CASE DeliverInternal(k) \/ DeliverPublic(k)
        BY <1>2, <2>1 DEF DeliverInternal, DeliverPublic, pubVars
  <2>2. CASE ~(DeliverInternal(k) \/ DeliverPublic(k))
        BY <1>6, <2>2 DEF ListenerStep, ReadCall, ReadCallPanics, ReadMessage, ReadFails,
           Discard, AnswerPing, AnswerPingPanics, Improper, DeliverLock, DeliverPanics,
           Signal, pubVars
  <2>3. QED BY <2>1, <2>2
<1>7. CASE HandlerStep
      BY <1>1, <1>2, <1>7 DEF HandlerStep, HandlerTake, HandlerPublish, HandlerEnd, HandlerRemove
<1>8. ASSUME NEW k \in Conns, Server(k)
      PROVE  hand' = hand /\ pub' = pub
      BY <1>8 DEF Server, ServerReplies, ServerChats, ServerNoise, ServerDrops, pubVars
<1>9. Dies \/ BrokerSticks \/ Cancel \/ UNCHANGED vars => hand' = hand /\ pub' = pub
      BY DEF Dies, BrokerSticks, Cancel, vars, pubVars
<1>10. QED BY <1>3, <1>4, <1>5, <1>6, <1>7, <1>8, <1>9 DEF Next

LEMMA ClosedStep == TypeInv /\ PanicInv /\ [Next]_vars => ClosedByEnded'
<1> SUFFICES ASSUME TypeInv, ClosedByEnded, [Next]_vars, ~(hand'.open /\ pub'.open)
             PROVE  \E k \in Conns : lpc'[k] \in {"signal", "gone"}
    BY DEF PanicInv, ClosedByEnded
<1>1. ASSUME NEW k \in Conns, ListenerClose(k) \/ ListenerClosePanics(k)
      PROVE  lpc'[k] \in {"signal", "gone"}
      BY <1>1 DEF ListenerClose, ListenerClosePanics, TypeInv, ReadType
<1>2. CASE \A k \in Conns : ~ListenerClose(k) /\ ~ListenerClosePanics(k)
  <2>1. ~(hand.open /\ pub.open)
        BY <1>2, StayOpen
  <2>2. PICK k \in Conns : lpc[k] \in {"signal", "gone"}
        BY <2>1 DEF ClosedByEnded
  <2>3. QED BY <2>2, EndedStay
<1>3. QED BY <1>1, <1>2

(* The service goroutine that closed the connection only returns. *)
LEMMA ClosingStays ==
  ASSUME [Next]_vars, main \in {"waitdone", "returned"}
  PROVE  main' \in {"waitdone", "returned"} /\ UNCHANGED <<conns, connField>>
<1>1. ~Validate /\ ~OpenContext
      BY DEF Validate, Validated, ValidateFails, OpenContext, ResetHandlers, CloseOld, Dial,
         DialFails, DialCancelled, AddOpenHandler, Listen, SendCap, SendNick, SendRequest,
         SendFails, Goto
<1>2. ~WaitReceive /\ ~WaitPanics /\ ~ReplyCancelled /\ ~ReplyTimeout
      BY WaitStates DEF WaitReceive, WaitPanics, ReplyCancelled, ReplyTimeout
<1>3. JoinAndClose => main' = "returned" /\ UNCHANGED <<conns, connField>>
      BY DEF JoinAndClose, RemoveHandler, AddJoinHandler, SendJoin, Joined, Leave, ServiceDone,
         CloseConn, CloseConnFails, CloseWaits, CloseTimeout, Goto
<1>4. ASSUME NEW k \in Conns, ListenerStep(k) \/ Server(k)
      PROVE  UNCHANGED mainVars
  <2>1. Server(k) => UNCHANGED mainVars
        BY DEF Server, ServerReplies, ServerChats, ServerNoise, ServerDrops
  <2>2. QED BY <1>4, <2>1, ListenerPlace
<1>5. HandlerStep \/ Dies \/ BrokerSticks \/ Cancel \/ UNCHANGED vars => UNCHANGED mainVars
      BY DEF HandlerStep, HandlerTake, HandlerPublish, HandlerEnd, HandlerRemove, Dies, BrokerSticks,
         Cancel, vars
<1>6. QED BY <1>1, <1>2, <1>3, <1>4, <1>5 DEF Next, WaitForReply, mainVars

LEMMA FieldStep == TypeInv /\ PanicInv /\ [Next]_vars => FieldByClose'
<1> SUFFICES ASSUME TypeInv, FieldByClose, [Next]_vars, connField' = None
             PROVE  conns' = 0 \/ main' \in {"waitdone", "returned"}
    BY DEF PanicInv, FieldByClose
<1>1. conns \in Nat /\ None = 0
      BY Constants DEF TypeInv, ConnType
<1>2. CASE main \in {"waitdone", "returned"}
      BY <1>2, ClosingStays
<1>3. CASE CloseConn
      BY <1>3 DEF CloseConn
<1>4. ~Dial
      BY <1>1 DEF Dial
<1>5. CASE ~CloseConn /\ main \notin {"waitdone", "returned"}
  <2>1. UNCHANGED <<conns, connField>>
    <3>1. Validate \/ OpenContext => UNCHANGED <<conns, connField>>
          BY <1>4 DEF Validate, Validated, ValidateFails, OpenContext, ResetHandlers, CloseOld,
             DialFails, DialCancelled, AddOpenHandler, Listen, SendCap, SendNick, SendRequest,
             SendFails, Goto
    <3>2. WaitForReply \/ JoinAndClose => UNCHANGED <<conns, connField>>
          BY <1>5 DEF WaitForReply, WaitReceive, WaitPanics, ReplyCancelled, ReplyTimeout,
             JoinAndClose, RemoveHandler, AddJoinHandler, SendJoin, Joined, Leave, ServiceDone,
             CloseConnFails, CloseWaits, CloseTimeout, Goto
    <3>3. ASSUME NEW k \in Conns, ListenerStep(k) \/ Server(k)
          PROVE  UNCHANGED mainVars
      <4>1. Server(k) => UNCHANGED mainVars
            BY DEF Server, ServerReplies, ServerChats, ServerNoise, ServerDrops
      <4>2. QED BY <3>3, <4>1, ListenerPlace
    <3>4. HandlerStep \/ Dies \/ BrokerSticks \/ Cancel \/ UNCHANGED vars => UNCHANGED mainVars
          BY DEF HandlerStep, HandlerTake, HandlerPublish, HandlerEnd, HandlerRemove, Dies,
             BrokerSticks, Cancel, vars
    <3>5. QED BY <3>1, <3>2, <3>3, <3>4 DEF Next, mainVars
  <2>2. QED BY <1>5, <2>1 DEF FieldByClose
<1>6. QED BY <1>2, <1>3, <1>5

(* Who panics. *)
PanicOf(k) == ReadCallPanics(k) \/ AnswerPingPanics(k) \/ DeliverPanics(k) \/ ListenerClosePanics(k)

LEMMA PanicsOnly ==
  ASSUME [Next]_vars
  PROVE  \/ unwinding' = unwinding
         \/ WaitPanics /\ unwinding' = unwinding \cup {None}
         \/ \E k \in Conns : PanicOf(k) /\ unwinding' = unwinding \cup {k}
<1>1. Validate \/ OpenContext \/ JoinAndClose => unwinding' = unwinding
      BY DEF Validate, Validated, ValidateFails, OpenContext, ResetHandlers, CloseOld, Dial,
         DialFails, DialCancelled, AddOpenHandler, Listen, SendCap, SendNick, SendRequest,
         SendFails, JoinAndClose, RemoveHandler, AddJoinHandler, SendJoin, Joined, Leave,
         ServiceDone, CloseConn, CloseConnFails, CloseWaits, CloseTimeout, panicVars
<1>2. WaitForReply => unwinding' = unwinding \/ (WaitPanics /\ unwinding' = unwinding \cup {None})
      BY DEF WaitForReply, WaitReceive, WaitPanics, ReplyCancelled, ReplyTimeout, Panics, panicVars
<1>3. ASSUME NEW k \in Conns, ListenerStep(k)
      PROVE  unwinding' = unwinding \/ (PanicOf(k) /\ unwinding' = unwinding \cup {k})
  <2>1. PanicOf(k) => unwinding' = unwinding \cup {k}
        BY DEF PanicOf, ReadCallPanics, AnswerPingPanics, DeliverPanics, ListenerClosePanics, Panics
  <2>2. ~PanicOf(k) => unwinding' = unwinding
        BY <1>3 DEF PanicOf, ListenerStep, ReadCall, ReadMessage, ReadFails, Discard, AnswerPing,
           Improper, DeliverLock, DeliverInternal, DeliverPublic, ListenerClose, Signal, panicVars
  <2>3. QED BY <2>1, <2>2
<1>4. ASSUME NEW k \in Conns, Server(k)
      PROVE  unwinding' = unwinding
      BY <1>4 DEF Server, ServerReplies, ServerChats, ServerNoise, ServerDrops, panicVars
<1>5. HandlerStep \/ Dies \/ BrokerSticks \/ Cancel \/ UNCHANGED vars => unwinding' = unwinding
      BY DEF HandlerStep, HandlerTake, HandlerPublish, HandlerEnd, HandlerRemove, Dies, BrokerSticks,
         Cancel, vars, panicVars
<1>6. QED BY <1>1, <1>2, <1>3, <1>4, <1>5 DEF Next

(* Why a listener panics. *)
Explained(k) ==
  \/ \E j \in Conns \ {k} : lpc[j] \in {"signal", "gone"}
  \/ main \in {"waitdone", "returned"}

LEMMA ExplainedNow ==
  ASSUME TypeInv, PanicInv, NEW k \in Conns, PanicOf(k)
  PROVE  Explained(k)
<1>1. CASE ReadCallPanics(k) \/ AnswerPingPanics(k)
  <2>1. connField = None /\ lpc[k] # "off"
        BY <1>1 DEF ReadCallPanics, AnswerPingPanics
  <2>2. conns # 0
        BY <2>1, Constants DEF TypeInv, Dialled, ConnType
  <2>3. QED BY <2>1, <2>2 DEF PanicInv, FieldByClose, Explained
<1>2. CASE DeliverPanics(k) \/ ListenerClosePanics(k)
  <2>1. ~(hand.open /\ pub.open) /\ lpc[k] \notin {"signal", "gone"}
        BY <1>2 DEF DeliverPanics, ListenerClosePanics
  <2>2. PICK j \in Conns : lpc[j] \in {"signal", "gone"}
        BY <2>1 DEF PanicInv, ClosedByEnded
  <2>3. QED BY <2>1, <2>2 DEF Explained
<1>3. QED BY <1>1, <1>2 DEF PanicOf

LEMMA ExplainedStep == TypeInv /\ PanicInv /\ [Next]_vars => PanicsExplained'
<1> SUFFICES ASSUME TypeInv, PanicInv, [Next]_vars
             PROVE  PanicsExplained'
    OBVIOUS
<1>1. ASSUME NEW k \in Conns, Explained(k)
      PROVE  Explained(k)'
  <2>1. CASE \E j \in Conns \ {k} : lpc[j] \in {"signal", "gone"}
    <3>1. PICK j \in Conns \ {k} : lpc[j] \in {"signal", "gone"}
          BY <2>1
    <3>2. lpc'[j] \in {"signal", "gone"}
          BY <3>1, EndedStay
    <3>3. QED BY <3>1, <3>2 DEF Explained
  <2>2. CASE main \in {"waitdone", "returned"}
        BY <2>2, ClosingStays DEF Explained
  <2>3. QED BY <1>1, <2>1, <2>2 DEF Explained
<1>2. ASSUME NEW k \in Conns, k \in unwinding'
      PROVE  Explained(k)'
  <2>1. k # None
        BY Constants
  <2>2. k \in unwinding \/ PanicOf(k)
        BY <1>2, <2>1, PanicsOnly
  <2>3. Explained(k)
        BY <2>2, ExplainedNow DEF PanicInv, PanicsExplained, Explained
  <2>4. QED BY <1>1, <2>3
<1>3. ASSUME None \in unwinding'
      PROVE  \E j \in Conns : lpc'[j] \in {"signal", "gone"}
  <2>1. None \notin Conns
        BY Constants
  <2>2. None \in unwinding \/ WaitPanics
        BY <1>3, <2>1, PanicsOnly
  <2>3. WaitPanics => ~hand.open
        BY DEF WaitPanics
  <2>4. PICK j \in Conns : lpc[j] \in {"signal", "gone"}
        BY <2>2, <2>3 DEF PanicInv, PanicsExplained, ClosedByEnded
  <2>5. QED BY <2>4, EndedStay
<1>4. QED BY <1>2, <1>3 DEF PanicsExplained, Explained

(* PanicsExplained: the channels a listener or the service goroutine finds *)
(* closed were closed by a listener that ended, and never by itself; and   *)
(* the connection a listener finds nil was cleared by Close, at the end.   *)
THEOREM PanicsCorrect == Spec => []PanicsExplained
<1>1. PanicInv /\ TypeInv /\ [Next]_vars => PanicInv'
      BY ClosedStep, FieldStep, ExplainedStep DEF PanicInv
<1>2. PanicInv => PanicsExplained
      BY DEF PanicInv
<1>3. QED BY <1>1, <1>2, PanicInit, TypeCorrect, PTL DEF Spec

-----------------------------------------------------------------------------
(* A chat message that comes before another one is another message, and as *)
(* long as one connection was dialled an earlier one.                      *)
Precedes(m, n) == m # n /\ (conns <= 1 => m < n)

IsChat(msg) == msg.kind = "chat"

(* What the goroutine of OnMessage has, in its order: published, at hand,  *)
(* and in its channel.                                                     *)
Passed(n) ==
  /\ \A i \in DOMAIN published : Precedes(published[i], n)
  /\ hpc = "publish" => Precedes(hmsg, n)
  /\ \A i \in DOMAIN pub.buf : Precedes(pub.buf[i].id, n)

PubSorted ==
  /\ \A i, j \in DOMAIN published : i < j => Precedes(published[i], published[j])
  /\ hpc = "publish" => \A i \in DOMAIN published : Precedes(published[i], hmsg)
  /\ \A b \in DOMAIN pub.buf :
       /\ \A i \in DOMAIN published : Precedes(published[i], pub.buf[b].id)
       /\ hpc = "publish" => Precedes(hmsg, pub.buf[b].id)
       /\ \A c \in DOMAIN pub.buf : b < c => Precedes(pub.buf[b].id, pub.buf[c].id)

(* Then come the messages of the listeners, *)
HeldSorted ==
  \A k \in Conns : IsChat(lmsg[k]) =>
    /\ Passed(lmsg[k].id)
    /\ \A j \in Conns \ {k} : IsChat(lmsg[j]) => lmsg[j].id # lmsg[k].id

(* and then those that were not read, each on one connection only. *)
WireSorted ==
  \A k \in Conns : \A i \in DOMAIN wire[k] : IsChat(wire[k][i]) =>
    /\ Passed(wire[k][i].id)
    /\ \A j \in Conns : IsChat(lmsg[j]) => Precedes(lmsg[j].id, wire[k][i].id)
    /\ \A j \in DOMAIN wire[k] : i < j /\ IsChat(wire[k][j]) => Precedes(wire[k][i].id, wire[k][j].id)
    /\ \A l \in Conns \ {k} : \A j \in DOMAIN wire[l] :
         IsChat(wire[l][j]) => wire[l][j].id # wire[k][i].id

(* All of them were sent. *)
AllSent ==
  /\ \A i \in DOMAIN published : published[i] <= chats
  /\ hpc = "publish" => hmsg <= chats
  /\ \A i \in DOMAIN pub.buf : pub.buf[i].id <= chats
  /\ \A k \in Conns : IsChat(lmsg[k]) => lmsg[k].id <= chats
  /\ \A k \in Conns : \A i \in DOMAIN wire[k] : IsChat(wire[k][i]) => wire[k][i].id <= chats

ChatInv == PubSorted /\ HeldSorted /\ WireSorted /\ AllSent

LEMMA ChatInit == Init => ChatInv
<1> SUFFICES ASSUME Init
             PROVE  ChatInv
    OBVIOUS
<1>1. /\ published = <<>> /\ hpc = "off" /\ pub.buf = <<>>
      /\ \A k \in Conns : lmsg[k].kind = "none" /\ wire[k] = <<>>
      BY MessageKinds DEF Init, NoChan
<1>2. DOMAIN published = {} /\ DOMAIN pub.buf = {} /\ \A k \in Conns : DOMAIN wire[k] = {}
      BY <1>1
<1>3. QED BY <1>1, <1>2 DEF ChatInv, PubSorted, HeldSorted, WireSorted, AllSent, IsChat

LEMMA Tails ==
  ASSUME NEW S, NEW s \in Seq(S), s # <<>>
  PROVE  /\ Head(s) = s[1] /\ 1 \in DOMAIN s
         /\ \A i \in DOMAIN Tail(s) : /\ i \in Nat /\ i + 1 \in DOMAIN s /\ 1 < i + 1
                                      /\ Tail(s)[i] = s[i + 1]
OBVIOUS

LEMMA Appends ==
  ASSUME NEW S, NEW s \in Seq(S), NEW m \in S
  PROVE  /\ DOMAIN Append(s, m) = DOMAIN s \cup {Len(s) + 1}
         /\ \A i \in DOMAIN s : i < Len(s) + 1 /\ ~(Len(s) + 1 < i) /\ Append(s, m)[i] = s[i]
         /\ Append(s, m)[Len(s) + 1] = m
OBVIOUS

(* A step that adds no chat message and moves none. *)
LEMMA ChatKept ==
  ASSUME ChatInv, conns \in Nat, conns' \in Nat, conns <= conns',
         UNCHANGED <<published, hmsg, chats>>,
         \A i \in DOMAIN pub'.buf : i \in DOMAIN pub.buf /\ pub'.buf[i] = pub.buf[i],
         hpc' = "publish" => hpc = "publish",
         \A k \in Conns : IsChat(lmsg[k])' => lmsg'[k] = lmsg[k],
         \A k \in Conns : \A i \in DOMAIN wire'[k] :
           IsChat(wire[k][i])' => i \in DOMAIN wire[k] /\ wire'[k][i] = wire[k][i]
  PROVE  ChatInv'
<1>1. \A m, n : Precedes(m, n) => Precedes(m, n)'
      BY DEF Precedes
<1>2. \A n : Passed(n) => Passed(n)'
      BY <1>1 DEF Passed
<1>3. PubSorted'
      BY <1>1 DEF ChatInv, PubSorted
<1>4. \A k \in Conns : IsChat(lmsg[k])' => IsChat(lmsg[k]) /\ lmsg'[k] = lmsg[k]
      BY DEF IsChat
<1>5. \A k \in Conns : \A i \in DOMAIN wire'[k] :
        IsChat(wire[k][i])' => i \in DOMAIN wire[k] /\ IsChat(wire[k][i]) /\ wire'[k][i] = wire[k][i]
      BY DEF IsChat
<1>6. HeldSorted'
  <2> SUFFICES ASSUME NEW k \in Conns, IsChat(lmsg[k])'
               PROVE  /\ Passed(lmsg[k].id)'
                      /\ \A j \in Conns \ {k} : IsChat(lmsg[j])' => lmsg'[j].id # lmsg'[k].id
      BY DEF HeldSorted
  <2>1. Passed(lmsg[k].id)'
    <3>1. PICK n : n = lmsg[k].id
          OBVIOUS
    <3>2. Passed(n)
          BY <3>1, <1>4 DEF ChatInv, HeldSorted
    <3>3. lmsg'[k].id = n
          BY <3>1, <1>4
    <3>4. QED BY <1>2, <3>2, <3>3 DEF Passed
  <2>2. QED BY <2>1, <1>4 DEF ChatInv, HeldSorted
<1>7. WireSorted'
  <2> SUFFICES ASSUME NEW k \in Conns, NEW i \in DOMAIN wire'[k], IsChat(wire[k][i])'
               PROVE  /\ Passed(wire[k][i].id)'
                      /\ \A j \in Conns : IsChat(lmsg[j])' => Precedes(lmsg[j].id, wire[k][i].id)'
                      /\ \A j \in DOMAIN wire'[k] :
                           i < j /\ IsChat(wire[k][j])' => Precedes(wire[k][i].id, wire[k][j].id)'
                      /\ \A l \in Conns \ {k} : \A j \in DOMAIN wire'[l] :
                           IsChat(wire[l][j])' => wire'[l][j].id # wire'[k][i].id
      BY DEF WireSorted
  <2>1. i \in DOMAIN wire[k] /\ IsChat(wire[k][i]) /\ wire'[k][i] = wire[k][i]
        BY <1>5
  <2>2. PICK n : n = wire[k][i].id /\ n = wire'[k][i].id
        BY <2>1
  <2>3. Passed(n) /\ \A j \in Conns : IsChat(lmsg[j]) => Precedes(lmsg[j].id, n)
        BY <2>1, <2>2 DEF ChatInv, WireSorted
  <2>4. Passed(wire[k][i].id)'
        BY <1>2, <2>2, <2>3 DEF Passed
  <2>5. ASSUME NEW j \in Conns, IsChat(lmsg[j])'
        PROVE  Precedes(lmsg[j].id, wire[k][i].id)'
    <3>1. Precedes(lmsg[j].id, n) /\ lmsg'[j].id = lmsg[j].id
          BY <2>3, <2>5, <1>4
    <3>2. QED BY <3>1, <2>2 DEF Precedes
  <2>6. ASSUME NEW j \in DOMAIN wire'[k], i < j, IsChat(wire[k][j])'
        PROVE  Precedes(wire[k][i].id, wire[k][j].id)'
    <3>1. j \in DOMAIN wire[k] /\ IsChat(wire[k][j]) /\ wire'[k][j] = wire[k][j]
          BY <1>5, <2>6
    <3>2. Precedes(n, wire[k][j].id)
          BY <2>1, <2>2, <2>6, <3>1 DEF ChatInv, WireSorted
    <3>3. QED BY <3>1, <3>2, <2>2 DEF Precedes
  <2>7. ASSUME NEW l \in Conns \ {k}, NEW j \in DOMAIN wire'[l], IsChat(wire[l][j])'
        PROVE  wire'[l][j].id # wire'[k][i].id
    <3>1. j \in DOMAIN wire[l] /\ IsChat(wire[l][j]) /\ wire'[l][j] = wire[l][j]
          BY <1>5, <2>7
    <3>2. QED BY <2>1, <3>1 DEF ChatInv, WireSorted
  <2>8. QED BY <2>4, <2>5, <2>6, <2>7
<1>8. AllSent'
      BY <1>4, <1>5 DEF ChatInv, AllSent
<1>9. QED BY <1>3, <1>6, <1>7, <1>8 DEF ChatInv

(* The goroutine of OnMessage moves on, past nothing that is behind it. *)
LEMMA PassedOn ==
  ASSUME ChatInv, UNCHANGED <<conns, lmsg, wire>>, \A n : Passed(n) => Passed(n)'
  PROVE  HeldSorted' /\ WireSorted'
<1>1. \A m, n : Precedes(m, n) <=> Precedes(m, n)'
      BY DEF Precedes
<1>2. HeldSorted'
  <2> SUFFICES ASSUME NEW k \in Conns, IsChat(lmsg[k])'
               PROVE  /\ Passed(lmsg[k].id)'
                      /\ \A j \in Conns \ {k} : IsChat(lmsg[j])' => lmsg'[j].id # lmsg'[k].id
      BY DEF HeldSorted
  <2>1. PICK n : n = lmsg[k].id
        OBVIOUS
  <2>2. IsChat(lmsg[k]) /\ Passed(n)
        BY <2>1 DEF IsChat, ChatInv, HeldSorted
  <2>3. Passed(lmsg[k].id)'
        BY <2>1, <2>2 DEF Passed
  <2>4. QED BY <2>2, <2>3 DEF ChatInv, HeldSorted, IsChat
<1>3. WireSorted'
  <2> SUFFICES ASSUME NEW k \in Conns, NEW i \in DOMAIN wire'[k], IsChat(wire[k][i])'
               PROVE  /\ Passed(wire[k][i].id)'
                      /\ \A j \in Conns : IsChat(lmsg[j])' => Precedes(lmsg[j].id, wire[k][i].id)'
                      /\ \A j \in DOMAIN wire'[k] :
                           i < j /\ IsChat(wire[k][j])' => Precedes(wire[k][i].id, wire[k][j].id)'
                      /\ \A l \in Conns \ {k} : \A j \in DOMAIN wire'[l] :
                           IsChat(wire[l][j])' => wire'[l][j].id # wire'[k][i].id
      BY DEF WireSorted
  <2>1. PICK n : n = wire[k][i].id
        OBVIOUS
  <2>2. i \in DOMAIN wire[k] /\ IsChat(wire[k][i]) /\ Passed(n)
        BY <2>1 DEF IsChat, ChatInv, WireSorted
  <2>3. Passed(wire[k][i].id)'
        BY <2>1, <2>2 DEF Passed
  <2>4. QED BY <2>2, <2>3 DEF ChatInv, WireSorted, IsChat, Precedes
<1>4. QED BY <1>2, <1>3

LEMMA ChatHandler == TypeInv /\ ChatInv /\ HandlerStep => ChatInv'
<1> SUFFICES ASSUME TypeInv, ChatInv, HandlerStep
             PROVE  ChatInv'
    OBVIOUS
<1>1. UNCHANGED <<conns, lmsg, wire, chats>> /\ conns \in Nat
      BY Constants DEF HandlerStep, HandlerTake, HandlerPublish, HandlerEnd, HandlerRemove,
         mainVars, readVars, netVars, TypeInv, ConnType
<1>2. \A m, n : Precedes(m, n) <=> Precedes(m, n)'
      BY <1>1 DEF Precedes
<1>3. /\ published \in Seq(1..MaxChats) /\ pub.buf \in Seq(Messages) /\ IsChan(pub)
      /\ hmsg \in 0..MaxChats
      BY DEF TypeInv, PubType, IsChan
<1>4. CASE HandlerTake
  <2>1. /\ pub.buf # <<>> /\ hmsg' = Head(pub.buf).id /\ hpc = "range" /\ hpc' = "publish"
        /\ published' = published
        BY <1>4 DEF HandlerTake
  <2>2. pub'.buf = Tail(pub.buf)
        BY <1>4, <1>3 DEF HandlerTake, IsChan
  <2>3. 1 \in DOMAIN pub.buf /\ hmsg' = pub.buf[1].id
        BY <1>3, <2>1, Tails
  <2>4. \A i \in DOMAIN pub'.buf : /\ i \in Nat /\ i + 1 \in DOMAIN pub.buf /\ 1 < i + 1
                                   /\ pub'.buf[i] = pub.buf[i + 1]
        BY <1>3, <2>1, <2>2, Tails
  <2>5. \A n : Passed(n) => Passed(n)'
        BY <1>2, <2>1, <2>3, <2>4 DEF Passed
  <2>6. PubSorted'
    <3>1. \A i \in DOMAIN published : Precedes(published[i], pub.buf[1].id)
          BY <2>3 DEF ChatInv, PubSorted
    <3>2. ASSUME NEW b \in DOMAIN pub'.buf
          PROVE  /\ \A i \in DOMAIN published : Precedes(published[i], pub'.buf[b].id)
                 /\ Precedes(pub.buf[1].id, pub'.buf[b].id)
                 /\ \A c \in DOMAIN pub'.buf : b < c => Precedes(pub'.buf[b].id, pub'.buf[c].id)
      <4>1. b + 1 \in DOMAIN pub.buf /\ 1 < b + 1 /\ pub'.buf[b] = pub.buf[b + 1]
            BY <2>4
      <4>2. \A c \in DOMAIN pub'.buf : b < c => b + 1 < c + 1
            BY <2>4
      <4>3. QED BY <2>3, <2>4, <4>1, <4>2 DEF ChatInv, PubSorted
    <3>3. \A i, j \in DOMAIN published : i < j => Precedes(published[i], published[j])
          BY DEF ChatInv, PubSorted
    <3>4. QED BY <1>2, <2>1, <2>3, <3>1, <3>2, <3>3 DEF PubSorted
  <2>7. AllSent'
    <3>1. pub.buf[1].id <= chats
          BY <2>3 DEF ChatInv, AllSent
    <3>2. \A i \in DOMAIN pub'.buf : pub'.buf[i].id <= chats
          BY <2>4 DEF ChatInv, AllSent
    <3>3. QED BY <1>1, <2>1, <2>3, <3>1, <3>2 DEF ChatInv, AllSent, IsChat
  <2>8. QED BY <1>1, <2>5, <2>6, <2>7, PassedOn DEF ChatInv
<1>5. CASE HandlerPublish
  <2>1. /\ hpc = "publish" /\ hpc' = "range" /\ published' = Append(published, hmsg)
        /\ hmsg \in 1..MaxChats /\ pub' = pub
        BY <1>5, <1>3, Constants DEF HandlerPublish, TypeInv, PubType
  <2>2. /\ DOMAIN published' = DOMAIN published \cup {Len(published) + 1}
        /\ \A i \in DOMAIN published : /\ i < Len(published) + 1 /\ ~(Len(published) + 1 < i)
                                       /\ published'[i] = published[i]
        /\ published'[Len(published) + 1] = hmsg
        BY <1>3, <2>1, Appends
  <2>3. \A n : Passed(n) => Passed(n)'
        BY <1>2, <2>1, <2>2 DEF Passed
  <2>4. PubSorted'
    <3>1. ASSUME NEW i \in DOMAIN published', NEW j \in DOMAIN published', i < j
          PROVE  Precedes(published'[i], published'[j])
      <4>1. i \in DOMAIN published
            BY <1>3, <2>2, <3>1
      <4>2. QED BY <2>1, <2>2, <3>1, <4>1 DEF ChatInv, PubSorted
    <3>2. ASSUME NEW b \in DOMAIN pub.buf
          PROVE  /\ \A i \in DOMAIN published' : Precedes(published'[i], pub.buf[b].id)
                 /\ \A c \in DOMAIN pub.buf : b < c => Precedes(pub.buf[b].id, pub.buf[c].id)
          BY <2>1, <2>2 DEF ChatInv, PubSorted
    <3>3. QED BY <1>2, <2>1, <3>1, <3>2 DEF PubSorted
  <2>5. AllSent'
    <3>1. \A i \in DOMAIN published' : published'[i] <= chats
          BY <2>1, <2>2 DEF ChatInv, AllSent
    <3>2. QED BY <1>1, <2>1, <3>1 DEF ChatInv, AllSent, IsChat
  <2>6. QED BY <1>1, <2>3, <2>4, <2>5, PassedOn DEF ChatInv
<1>6. CASE HandlerEnd \/ HandlerRemove
  <2>1. pub'.buf = pub.buf \/ pub'.buf = <<>>
        BY <1>6 DEF HandlerEnd, HandlerRemove, NoChan
  <2>2. UNCHANGED <<published, hmsg>> /\ hpc' # "publish"
        BY <1>6 DEF HandlerEnd, HandlerRemove
  <2>3. QED BY <1>1, <2>1, <2>2, ChatKept
<1>7. QED BY <1>4, <1>5, <1>6 DEF HandlerStep

(* Messages of two connections are apart: with one connection there are none. *)
LEMMA OneWire ==
  ASSUME TypeInv, NEW k \in Conns, NEW l \in Conns, k # l,
         IsChat(lmsg[k]) \/ wire[k] # <<>>, IsChat(lmsg[l]) \/ wire[l] # <<>>
  PROVE  ~(conns <= 1)
<1>1. \A j \in Conns : IsChat(lmsg[j]) \/ wire[j] # <<>> => j <= conns
  <2> SUFFICES ASSUME NEW j \in Conns, ~(j <= conns)
               PROVE  ~IsChat(lmsg[j]) /\ wire[j] = <<>>
      OBVIOUS
  <2>1. j > conns
        BY Constants DEF TypeInv, ConnType
  <2>2. QED BY <2>1, MessageKinds DEF TypeInv, Dialled, IsChat
<1>2. QED BY <1>1, Constants DEF TypeInv, ConnType

LEMMA ChatToHandler ==
  ASSUME TypeInv, ChatInv, NEW k \in Conns, DeliverPublic(k)
  PROVE  ChatInv'
<1>1. /\ UNCHANGED <<conns, wire, chats, published, hmsg, hpc>> /\ conns \in Nat
      /\ lmsg' = [lmsg EXCEPT ![k] = NoMsg] /\ lmsg \in [Conns -> Messages] /\ IsChat(lmsg[k])
      /\ IsChan(pub) /\ pub.buf \in Seq(Messages)
      BY Constants DEF DeliverPublic, Delivered, mainVars, netVars, TypeInv, ConnType, ReadType,
         PubType, IsChan, IsChat
<1>2. /\ ~IsChat(lmsg[k])'
      /\ \A j \in Conns : IsChat(lmsg[j])' => j # k /\ IsChat(lmsg[j]) /\ lmsg'[j] = lmsg[j]
      BY <1>1, MessageKinds DEF IsChat
<1>3. CASE ~pub.reg
  <2>1. pub' = pub
        BY <1>3 DEF DeliverPublic
  <2>2. QED BY <1>1, <1>2, <2>1, ChatKept
<1>4. CASE pub.reg
  <2>1. pub'.buf = Append(pub.buf, lmsg[k])
        BY <1>4, <1>1 DEF DeliverPublic, IsChan
  <2>2. PICK e : e = Len(pub.buf) + 1
        OBVIOUS
  <2>3. /\ DOMAIN pub'.buf = DOMAIN pub.buf \cup {e}
        /\ \A i \in DOMAIN pub.buf : i < e /\ ~(e < i) /\ pub'.buf[i] = pub.buf[i]
        /\ pub'.buf[e] = lmsg[k] /\ e \in Nat
        BY <1>1, <2>1, <2>2, Appends
  <2>4. PICK n : n = lmsg[k].id
        OBVIOUS
  <2>5. Passed(n) /\ \A j \in Conns \ {k} : IsChat(lmsg[j]) => lmsg[j].id # n
        BY <1>1, <2>4 DEF ChatInv, HeldSorted
  <2>6. \A a, b : Precedes(a, b) <=> Precedes(a, b)'
        BY <1>1 DEF Precedes
  <2>7. \A x : Passed(x) /\ Precedes(n, x) => Passed(x)'
        BY <1>1, <2>3, <2>4, <2>6 DEF Passed
  <2>8. PubSorted'
    <3>1. ASSUME NEW b \in DOMAIN pub'.buf
          PROVE  /\ \A i \in DOMAIN published : Precedes(published[i], pub'.buf[b].id)
                 /\ hpc = "publish" => Precedes(hmsg, pub'.buf[b].id)
                 /\ \A c \in DOMAIN pub'.buf : b < c => Precedes(pub'.buf[b].id, pub'.buf[c].id)
      <4>1. CASE b = e
            BY <2>3, <2>4, <2>5, <4>1 DEF Passed
      <4>2. CASE b \in DOMAIN pub.buf
        <5>1. /\ \A i \in DOMAIN published : Precedes(published[i], pub'.buf[b].id)
              /\ hpc = "publish" => Precedes(hmsg, pub'.buf[b].id)
              BY <2>3, <4>2 DEF ChatInv, PubSorted
        <5>2. ASSUME NEW c \in DOMAIN pub'.buf, b < c
              PROVE  Precedes(pub'.buf[b].id, pub'.buf[c].id)
          <6>1. CASE c = e
                BY <2>3, <2>4, <2>5, <4>2, <6>1 DEF Passed
          <6>2. CASE c \in DOMAIN pub.buf
                BY <2>3, <4>2, <5>2, <6>2 DEF ChatInv, PubSorted
          <6>3. QED BY <2>3, <6>1, <6>2
        <5>3. QED BY <5>1, <5>2
      <4>3. QED BY <2>3, <4>1, <4>2
    <3>2. /\ \A i, j \in DOMAIN published : i < j => Precedes(published[i], published[j])
          /\ hpc = "publish" => \A i \in DOMAIN published : Precedes(published[i], hmsg)
          BY DEF ChatInv, PubSorted
    <3>3. QED BY <1>1, <2>6, <3>1, <3>2 DEF PubSorted
  <2>9. HeldSorted'
    <3> SUFFICES ASSUME NEW h \in Conns, IsChat(lmsg[h])'
                 PROVE  /\ Passed(lmsg[h].id)'
                        /\ \A j \in Conns \ {h} : IsChat(lmsg[j])' => lmsg'[j].id # lmsg'[h].id
        BY DEF HeldSorted
    <3>1. h # k /\ IsChat(lmsg[h]) /\ lmsg'[h] = lmsg[h]
          BY <1>2
    <3>2. PICK x : x = lmsg[h].id
          OBVIOUS
    <3>3. Precedes(n, x)
      <4>1. ~(conns <= 1)
            BY <1>1, <3>1, OneWire
      <4>2. QED BY <4>1, <2>5, <3>1, <3>2 DEF Precedes
    <3>4. Passed(x)
          BY <3>1, <3>2 DEF ChatInv, HeldSorted
    <3>5. Passed(lmsg[h].id)'
          BY <2>7, <3>1, <3>2, <3>3, <3>4 DEF Passed
    <3>6. QED BY <3>1, <3>5, <1>2 DEF ChatInv, HeldSorted
  <2>10. WireSorted'
    <3> SUFFICES ASSUME NEW h \in Conns, NEW i \in DOMAIN wire[h], IsChat(wire[h][i])
                 PROVE  /\ Passed(wire[h][i].id)'
                        /\ \A j \in Conns : IsChat(lmsg[j])' => Precedes(lmsg[j].id, wire[h][i].id)'
                        /\ \A j \in DOMAIN wire[h] :
                             i < j /\ IsChat(wire[h][j]) => Precedes(wire[h][i].id, wire[h][j].id)'
                        /\ \A l \in Conns \ {h} : \A j \in DOMAIN wire[l] :
                             IsChat(wire[l][j]) => wire[l][j].id # wire[h][i].id
        BY <1>1 DEF WireSorted, IsChat, Precedes
    <3>1. PICK x : x = wire[h][i].id
          OBVIOUS
    <3>2. Passed(x) /\ Precedes(n, x)
          BY <1>1, <2>4, <3>1 DEF ChatInv, WireSorted
    <3>3. Passed(wire[h][i].id)'
          BY <1>1, <2>7, <3>1, <3>2 DEF Passed
    <3>4. \A j \in Conns : IsChat(lmsg[j])' => Precedes(lmsg[j].id, wire[h][i].id)'
          BY <1>1, <1>2 DEF ChatInv, WireSorted, Precedes
    <3>5. QED BY <1>1, <3>3, <3>4 DEF ChatInv, WireSorted, Precedes
  <2>11. AllSent'
    <3>1. \A i \in DOMAIN pub'.buf : pub'.buf[i].id <= chats
          BY <1>1, <2>3 DEF ChatInv, AllSent
    <3>2. QED BY <1>1, <1>2, <3>1 DEF ChatInv, AllSent, IsChat
  <2>12. QED BY <2>8, <2>9, <2>10, <2>11 DEF ChatInv
<1>5. QED BY <1>3, <1>4

(* The listener takes the first message of the wire it reads. *)
LEMMA ChatRead ==
  ASSUME TypeInv, ChatInv, NEW k \in Conns, ReadMessage(k)
  PROVE  ChatInv'
<1>1. PICK c \in Conns : c = lconn[k] /\ c <= conns
      BY Constants DEF ReadMessage, TypeInv, ReadType, ConnType
<1>2. /\ UNCHANGED <<conns, chats, published, hmsg, hpc, pub>> /\ conns \in Nat
      /\ lmsg' = [lmsg EXCEPT ![k] = Head(wire[c])] /\ lmsg \in [Conns -> Messages]
      /\ wire' = [wire EXCEPT ![c] = Tail(wire[c])] /\ wire \in [Conns -> Seq(Messages)]
      /\ wire[c] # <<>>
      BY <1>1, Constants DEF ReadMessage, mainVars, pubVars, TypeInv, ConnType, ReadType, NetType
<1>3. \A a, b : Precedes(a, b) <=> Precedes(a, b)'
      BY <1>2 DEF Precedes
<1>4. \A n : Passed(n) <=> Passed(n)'
      BY <1>2, <1>3 DEF Passed
<1>5. /\ Head(wire[c]) = wire[c][1] /\ 1 \in DOMAIN wire[c]
      /\ \A i \in DOMAIN Tail(wire[c]) : /\ i \in Nat /\ i + 1 \in DOMAIN wire[c] /\ 1 < i + 1
                                         /\ Tail(wire[c])[i] = wire[c][i + 1]
      BY <1>2, Tails
<1>6. /\ lmsg'[k] = wire[c][1]
      /\ \A j \in Conns \ {k} : lmsg'[j] = lmsg[j]
      /\ \A l \in Conns \ {c} : wire'[l] = wire[l]
      /\ \A i \in DOMAIN wire'[c] : /\ i \in Nat /\ i + 1 \in DOMAIN wire[c] /\ 1 < i + 1
                                    /\ wire'[c][i] = wire[c][i + 1]
      BY <1>2, <1>5
(* Where a message that is still on a wire was. *)
<1>7. PICK at \in [Conns -> 0..1] : /\ at[c] = 1
                                    /\ \A l \in Conns \ {c} : at[l] = 0
  <2>1. [l \in Conns |-> IF l = c THEN 1 ELSE 0] \in [Conns -> 0..1]
        OBVIOUS
  <2>2. QED BY <2>1
<1>8. \A l \in Conns : \A i \in DOMAIN wire'[l] :
        /\ i + at[l] \in DOMAIN wire[l] /\ wire'[l][i] = wire[l][i + at[l]]
        /\ \A j \in DOMAIN wire'[l] : i < j => i + at[l] < j + at[l]
  <2> SUFFICES ASSUME NEW l \in Conns, NEW i \in DOMAIN wire'[l]
               PROVE  /\ i + at[l] \in DOMAIN wire[l] /\ wire'[l][i] = wire[l][i + at[l]]
                      /\ \A j \in DOMAIN wire'[l] : i < j => i + at[l] < j + at[l]
      OBVIOUS
  <2>1. CASE l = c
        BY <2>1, <1>6, <1>7
  <2>2. CASE l # c
    <3>1. wire'[l] = wire[l] /\ at[l] = 0 /\ DOMAIN wire[l] \subseteq Nat
          BY <2>2, <1>2, <1>6, <1>7
    <3>2. QED BY <3>1
  <2>3. QED BY <2>1, <2>2
<1>9. HeldSorted'
  <2>1. \A j \in Conns \ {k} : IsChat(lmsg[j])' =>
          /\ IsChat(lmsg[j]) /\ Passed(lmsg[j].id)'
          /\ \A h \in Conns \ {j, k} : IsChat(lmsg[h])' => lmsg'[h].id # lmsg'[j].id
    <3> SUFFICES ASSUME NEW j \in Conns \ {k}, IsChat(lmsg[j])'
                 PROVE  /\ IsChat(lmsg[j]) /\ Passed(lmsg[j].id)'
                        /\ \A h \in Conns \ {j, k} : IsChat(lmsg[h])' => lmsg'[h].id # lmsg'[j].id
        OBVIOUS
    <3>1. IsChat(lmsg[j]) /\ lmsg'[j] = lmsg[j]
          BY <1>6 DEF IsChat
    <3>2. PICK x : x = lmsg[j].id
          OBVIOUS
    <3>3. Passed(x)
          BY <3>1, <3>2 DEF ChatInv, HeldSorted
    <3>4. Passed(lmsg[j].id)'
          BY <1>4, <3>1, <3>2, <3>3 DEF Passed
    <3>5. QED BY <1>6, <3>1, <3>4 DEF ChatInv, HeldSorted, IsChat
  <2>2. ASSUME IsChat(lmsg[k])'
        PROVE  /\ Passed(lmsg[k].id)'
               /\ \A j \in Conns \ {k} : IsChat(lmsg[j])' => lmsg'[j].id # lmsg'[k].id
    <3>1. IsChat(wire[c][1])
          BY <2>2, <1>6 DEF IsChat
    <3>2. PICK x : x = wire[c][1].id
          OBVIOUS
    <3>3. Passed(x) /\ \A j \in Conns : IsChat(lmsg[j]) => Precedes(lmsg[j].id, x)
          BY <1>5, <3>1, <3>2 DEF ChatInv, WireSorted
    <3>4. Passed(lmsg[k].id)'
          BY <1>4, <1>6, <3>2, <3>3 DEF Passed
    <3>5. QED BY <1>6, <3>2, <3>3, <3>4 DEF Precedes, IsChat
  <2>3. QED BY <2>1, <2>2 DEF HeldSorted
<1>10. WireSorted'
  <2> SUFFICES ASSUME NEW l \in Conns, NEW i \in DOMAIN wire'[l], IsChat(wire[l][i])'
               PROVE  /\ Passed(wire[l][i].id)'
                      /\ \A j \in Conns : IsChat(lmsg[j])' => Precedes(lmsg[j].id, wire[l][i].id)'
                      /\ \A j \in DOMAIN wire'[l] :
                           i < j /\ IsChat(wire[l][j])' => Precedes(wire[l][i].id, wire[l][j].id)'
                      /\ \A h \in Conns \ {l} : \A j \in DOMAIN wire'[h] :
                           IsChat(wire[h][j])' => wire'[h][j].id # wire'[l][i].id
      BY DEF WireSorted
  <2>1. PICK p \in DOMAIN wire[l] : p = i + at[l]
        BY <1>8
  <2>2. IsChat(wire[l][p]) /\ wire'[l][i] = wire[l][p]
        BY <2>1, <1>8 DEF IsChat
  <2>3. PICK x : x = wire[l][p].id
        OBVIOUS
  <2>4. Passed(x) /\ \A j \in Conns : IsChat(lmsg[j]) => Precedes(lmsg[j].id, x)
        BY <2>2, <2>3 DEF ChatInv, WireSorted
  <2>5. Passed(wire[l][i].id)'
        BY <1>4, <2>2, <2>3, <2>4 DEF Passed
  <2>6. ASSUME NEW j \in Conns, IsChat(lmsg[j])'
        PROVE  Precedes(lmsg'[j].id, x)
    <3>1. CASE j # k
          BY <2>4, <2>6, <3>1, <1>6 DEF IsChat
    <3>2. CASE j = k /\ l = c
      <4>1. 1 < p /\ IsChat(wire[c][1])
            BY <2>1, <2>6, <3>2, <1>6, <1>7 DEF IsChat
      <4>2. Precedes(wire[c][1].id, x)
            BY <1>5, <2>2, <2>3, <3>2, <4>1 DEF ChatInv, WireSorted
      <4>3. QED BY <1>6, <3>2, <4>2
    <3>3. CASE j = k /\ l # c
      <4>1. IsChat(wire[c][1]) /\ wire[l] # <<>> /\ wire[c] # <<>>
            BY <1>2, <2>1, <2>6, <3>3, <1>6 DEF IsChat
      <4>2. ~(conns <= 1)
            BY <3>3, <4>1, OneWire
      <4>3. wire[c][1].id # x
            BY <1>5, <2>2, <2>3, <3>3, <4>1 DEF ChatInv, WireSorted
      <4>4. QED BY <1>6, <3>3, <4>2, <4>3 DEF Precedes
    <3>4. QED BY <3>1, <3>2, <3>3
  <2>7. \A j \in Conns : IsChat(lmsg[j])' => Precedes(lmsg[j].id, wire[l][i].id)'
        BY <1>2, <2>2, <2>3, <2>6 DEF Precedes
  <2>8. ASSUME NEW j \in DOMAIN wire'[l], i < j, IsChat(wire[l][j])'
        PROVE  Precedes(wire[l][i].id, wire[l][j].id)'
    <3>1. PICK q \in DOMAIN wire[l] : q = j + at[l]
          BY <1>8
    <3>2. p < q /\ IsChat(wire[l][q]) /\ wire'[l][j] = wire[l][q]
          BY <2>1, <2>8, <3>1, <1>8 DEF IsChat
    <3>3. Precedes(wire[l][p].id, wire[l][q].id)
          BY <2>2, <3>2 DEF ChatInv, WireSorted
    <3>4. QED BY <1>2, <2>2, <3>2, <3>3 DEF Precedes
  <2>9. ASSUME NEW h \in Conns \ {l}, NEW j \in DOMAIN wire'[h], IsChat(wire[h][j])'
        PROVE  wire'[h][j].id # wire'[l][i].id
    <3>1. PICK q \in DOMAIN wire[h] : q = j + at[h]
          BY <1>8
    <3>2. IsChat(wire[h][q]) /\ wire'[h][j] = wire[h][q]
          BY <2>9, <3>1, <1>8 DEF IsChat
    <3>3. QED BY <2>2, <3>2 DEF ChatInv, WireSorted
  <2>10. QED BY <2>5, <2>7, <2>8, <2>9
<1>11. PubSorted'
      BY <1>2, <1>3 DEF ChatInv, PubSorted
<1>12. AllSent'
  <2>1. \A l \in Conns : \A i \in DOMAIN wire'[l] : IsChat(wire[l][i])' => wire'[l][i].id <= chats
        BY <1>8 DEF ChatInv, AllSent, IsChat
  <2>2. \A j \in Conns : IsChat(lmsg[j])' => lmsg'[j].id <= chats
        BY <1>5, <1>6 DEF ChatInv, AllSent, IsChat
  <2>3. QED BY <1>2, <2>1, <2>2 DEF ChatInv, AllSent
<1>13. QED BY <1>9, <1>10, <1>11, <1>12 DEF ChatInv

(* The server sends a new message, later than every other. *)
LEMMA ChatSent ==
  ASSUME TypeInv, ChatInv, NEW k \in Conns, ServerChats(k)
  PROVE  ChatInv'
<1>1. PICK n \in 1..MaxChats : n = chats + 1 /\ chats \in Nat
      BY Constants DEF ServerChats, TypeInv, NetType
<1>2. /\ UNCHANGED <<conns, lmsg, published, hmsg, hpc, pub>> /\ chats' = n
      /\ wire' = [wire EXCEPT ![k] = Append(wire[k], Chat(n))] /\ wire \in [Conns -> Seq(Messages)]
      /\ Chat(n) \in Messages /\ Chat(n).id = n
      BY <1>1, MessageKinds DEF ServerChats, mainVars, readVars, pubVars, TypeInv, NetType
<1>3. \A x \in Nat : x <= chats => Precedes(x, n) /\ x <= chats' /\ x # n
      BY <1>1, <1>2 DEF Precedes
<1>4. \A a, b : Precedes(a, b) <=> Precedes(a, b)'
      BY <1>2 DEF Precedes
<1>5. \A x : Passed(x) <=> Passed(x)'
      BY <1>2, <1>4 DEF Passed
<1>6. PICK e \in Nat : e = Len(wire[k]) + 1
      BY <1>2
<1>7. /\ DOMAIN wire'[k] = DOMAIN wire[k] \cup {e} /\ wire'[k][e] = Chat(n)
      /\ \A i \in DOMAIN wire[k] : i < e /\ ~(e < i) /\ wire'[k][i] = wire[k][i]
      /\ \A l \in Conns \ {k} : wire'[l] = wire[l]
      BY <1>2, <1>6, Appends
<1>8. /\ \A i \in DOMAIN published : published[i] \in Nat
      /\ hmsg \in Nat
      /\ \A i \in DOMAIN pub.buf : pub.buf[i].id \in Nat
      /\ \A j \in Conns : lmsg[j].id \in Nat
      /\ \A l \in Conns : \A i \in DOMAIN wire[l] : wire[l][i].id \in Nat
  <2>1. \A m \in Messages : m.id \in Nat
        BY Constants DEF Messages
  <2>2. /\ published \in Seq(1..MaxChats) /\ hmsg \in 0..MaxChats /\ pub.buf \in Seq(Messages)
        /\ lmsg \in [Conns -> Messages]
        BY DEF TypeInv, PubType, IsChan, ReadType
  <2>3. QED BY <1>2, <2>1, <2>2, Constants
<1>9. Passed(n)
      BY <1>3, <1>8 DEF Passed, ChatInv, AllSent
<1>10. \A j \in Conns : IsChat(lmsg[j]) => Precedes(lmsg[j].id, n)
      BY <1>3, <1>8 DEF ChatInv, AllSent
<1>11. \A l \in Conns : \A i \in DOMAIN wire[l] :
         IsChat(wire[l][i]) => Precedes(wire[l][i].id, n) /\ wire[l][i].id # n
      BY <1>3, <1>8 DEF ChatInv, AllSent
<1>12. PubSorted'
      BY <1>2, <1>4 DEF ChatInv, PubSorted
<1>13. HeldSorted'
      BY <1>2, <1>5 DEF ChatInv, HeldSorted, IsChat, Passed, Precedes
<1>14. WireSorted'
  <2> SUFFICES ASSUME NEW l \in Conns, NEW i \in DOMAIN wire'[l], IsChat(wire[l][i])'
               PROVE  /\ Passed(wire[l][i].id)'
                      /\ \A j \in Conns : IsChat(lmsg[j])' => Precedes(lmsg[j].id, wire[l][i].id)'
                      /\ \A j \in DOMAIN wire'[l] :
                           i < j /\ IsChat(wire[l][j])' => Precedes(wire[l][i].id, wire[l][j].id)'
                      /\ \A h \in Conns \ {l} : \A j \in DOMAIN wire'[h] :
                           IsChat(wire[h][j])' => wire'[h][j].id # wire'[l][i].id
      BY DEF WireSorted
  <2>1. CASE l = k /\ i = e
    <3>1. wire'[l][i].id = n
          BY <2>1, <1>2, <1>7
    <3>2. \A j \in DOMAIN wire'[l] : ~(i < j)
          BY <2>1, <1>7
    <3>3. Passed(wire[l][i].id)'
          BY <3>1, <1>5, <1>9 DEF Passed
    <3>4. \A j \in Conns : IsChat(lmsg[j])' => Precedes(lmsg[j].id, wire[l][i].id)'
          BY <3>1, <1>2, <1>10 DEF IsChat, Precedes
    <3>5. \A h \in Conns \ {l} : \A j \in DOMAIN wire'[h] :
            IsChat(wire[h][j])' => wire'[h][j].id # wire'[l][i].id
          BY <2>1, <3>1, <1>7, <1>11 DEF IsChat
    <3>6. QED BY <3>2, <3>3, <3>4, <3>5
  <2>2. CASE i \in DOMAIN wire[l] /\ ~(l = k /\ i = e)
    <3>1. wire'[l][i] = wire[l][i] /\ IsChat(wire[l][i])
          BY <2>2, <1>7 DEF IsChat
    <3>2. PICK x : x = wire[l][i].id
          OBVIOUS
    <3>3. Passed(x) /\ Precedes(x, n) /\ \A j \in Conns : IsChat(lmsg[j]) => Precedes(lmsg[j].id, x)
          BY <2>2, <3>1, <3>2, <1>11 DEF ChatInv, WireSorted
    <3>4. Passed(wire[l][i].id)'
          BY <3>1, <3>2, <3>3, <1>5 DEF Passed
    <3>5. \A j \in Conns : IsChat(lmsg[j])' => Precedes(lmsg[j].id, wire[l][i].id)'
          BY <3>1, <3>2, <3>3, <1>2 DEF IsChat, Precedes
    <3>6. ASSUME NEW j \in DOMAIN wire'[l], i < j, IsChat(wire[l][j])'
          PROVE  Precedes(wire[l][i].id, wire[l][j].id)'
      <4>1. CASE l = k /\ j = e
            BY <4>1, <3>1, <3>2, <3>3, <1>2, <1>7 DEF Precedes
      <4>2. CASE ~(l = k /\ j = e)
        <5>1. j \in DOMAIN wire[l] /\ wire'[l][j] = wire[l][j] /\ IsChat(wire[l][j])
              BY <4>2, <3>6, <1>7 DEF IsChat
        <5>2. QED BY <5>1, <2>2, <3>1, <3>6, <1>2 DEF ChatInv, WireSorted, Precedes
      <4>3. QED BY <4>1, <4>2
    <3>7. ASSUME NEW h \in Conns \ {l}, NEW j \in DOMAIN wire'[h], IsChat(wire[h][j])'
          PROVE  wire'[h][j].id # wire'[l][i].id
      <4>1. CASE h = k /\ j = e
            BY <4>1, <2>2, <3>1, <1>2, <1>7, <1>11
      <4>2. CASE ~(h = k /\ j = e)
        <5>1. j \in DOMAIN wire[h] /\ wire'[h][j] = wire[h][j] /\ IsChat(wire[h][j])
              BY <4>2, <3>7, <1>7 DEF IsChat
        <5>2. QED BY <5>1, <2>2, <3>1 DEF ChatInv, WireSorted
      <4>3. QED BY <4>1, <4>2
    <3>8. QED BY <3>4, <3>5, <3>6, <3>7
  <2>3. QED BY <2>1, <2>2, <1>7
<1>15. AllSent'
  <2>1. \A l \in Conns : \A i \in DOMAIN wire'[l] : IsChat(wire[l][i])' => wire'[l][i].id <= chats'
    <3> SUFFICES ASSUME NEW l \in Conns, NEW i \in DOMAIN wire'[l], IsChat(wire[l][i])'
                 PROVE  wire'[l][i].id <= chats'
        OBVIOUS
    <3>1. CASE l = k /\ i = e
          BY <3>1, <1>1, <1>2, <1>7
    <3>2. CASE ~(l = k /\ i = e)
      <4>1. i \in DOMAIN wire[l] /\ wire'[l][i] = wire[l][i] /\ IsChat(wire[l][i])
            BY <3>2, <1>7 DEF IsChat
      <4>2. QED BY <4>1, <1>3, <1>8 DEF ChatInv, AllSent
    <3>3. QED BY <3>1, <3>2
  <2>2. QED BY <2>1, <1>2, <1>3, <1>8 DEF ChatInv, AllSent, IsChat
<1>16. QED BY <1>12, <1>13, <1>14, <1>15 DEF ChatInv

(* Closing a connection moves no message. *)
LEMMA WiresKept ==
  ASSUME wire' = wire \/ \E c : Shut(c)
  PROVE  \A k \in Conns : \A i \in DOMAIN wire'[k] : i \in DOMAIN wire[k] /\ wire'[k][i] = wire[k][i]
<1>1. ASSUME NEW c, Shut(c), NEW k \in Conns
      PROVE  wire'[k] = wire[k] \/ wire'[k] = <<>>
      BY <1>1 DEF Shut
<1>2. DOMAIN <<>> = {}
      OBVIOUS
<1>3. QED BY <1>1, <1>2

LEMMA ChatListener ==
  ASSUME TypeInv, ChatInv, NEW k \in Conns, ListenerStep(k)
  PROVE  ChatInv'
<1>1. CASE ReadMessage(k)
      BY <1>1, ChatRead
<1>2. CASE DeliverPublic(k)
      BY <1>2, ChatToHandler
<1>3. CASE ~ReadMessage(k) /\ ~DeliverPublic(k)
  <2>1. lmsg \in [Conns -> Messages] /\ IsChan(pub) /\ conns \in Nat
        BY Constants DEF TypeInv, ReadType, PubType, ConnType
  <2>2. UNCHANGED <<conns, published, hmsg, hpc, chats>>
        BY <1>3 DEF ListenerStep, ReadCall, ReadCallPanics, ReadFails, Discard, AnswerPing,
           AnswerPingPanics, Improper, DeliverLock, DeliverInternal, DeliverPanics, ListenerClose,
           ListenerClosePanics, Signal, mainVars, netVars, pubVars
  <2>3. pub' = pub \/ pub' = CloseChan(pub)
        BY <1>3 DEF ListenerStep, ReadCall, ReadCallPanics, ReadFails, Discard, AnswerPing,
           AnswerPingPanics, Improper, DeliverLock, DeliverInternal, DeliverPanics, ListenerClose,
           ListenerClosePanics, Signal, pubVars
  <2>4. pub'.buf = pub.buf
        BY <2>1, <2>3, ChanClosed
  <2>5. lmsg' = lmsg \/ lmsg' = [lmsg EXCEPT ![k] = NoMsg]
        BY <1>3 DEF ListenerStep, ReadCall, ReadCallPanics, ReadFails, Discard, AnswerPing,
           AnswerPingPanics, Improper, DeliverLock, DeliverInternal, Delivered, DeliverPanics,
           ListenerClose, ListenerClosePanics, Signal, readVars
  <2>6. \A j \in Conns : IsChat(lmsg[j])' => lmsg'[j] = lmsg[j]
        BY <2>1, <2>5, MessageKinds DEF IsChat
  <2>7. wire' = wire \/ Shut(lconn[k])
        BY <1>3 DEF ListenerStep, ReadCall, ReadCallPanics, ReadFails, Discard, AnswerPing,
           AnswerPingPanics, Improper, DeliverLock, DeliverInternal, DeliverPanics, ListenerClose,
           ListenerClosePanics, Signal, netVars
  <2>8. QED BY <2>1, <2>2, <2>4, <2>6, <2>7, WiresKept, ChatKept
<1>4. QED BY <1>1, <1>2, <1>3

LEMMA ChatServer ==
  ASSUME TypeInv, ChatInv, NEW k \in Conns, Server(k)
  PROVE  ChatInv'
<1>1. CASE ServerChats(k)
      BY <1>1, ChatSent
<1>2. CASE ~ServerChats(k)
  <2>1. /\ UNCHANGED <<conns, published, hmsg, hpc, chats, pub, lmsg>> /\ conns \in Nat
        /\ wire \in [Conns -> Seq(Messages)]
        BY <1>2, Constants DEF Server, ServerReplies, ServerNoise, ServerDrops, mainVars, readVars,
           pubVars, TypeInv, ConnType, NetType
  <2>2. wire' = wire
          \/ \E a \in Kinds : Msg(a) \in Messages /\ wire' = [wire EXCEPT ![k] = Append(@, Msg(a))]
    <3>1. CASE ServerReplies(k)
      <4>1. PICK r \in asked[k] \cap DOMAIN Reply : \E a \in Reply[r] :
              wire' = [wire EXCEPT ![k] = Append(@, Msg(a))]
            BY <3>1 DEF ServerReplies
      <4>2. PICK a \in Reply[r] : wire' = [wire EXCEPT ![k] = Append(@, Msg(a))]
            BY <4>1
      <4>3. a \in Kinds
            BY DEF Reply, Kinds
      <4>4. QED BY <4>2, <4>3, MessageKinds
    <3>2. CASE ServerNoise(k)
      <4>1. PICK a \in {"ping", "system"} : wire' = [wire EXCEPT ![k] = Append(@, Msg(a))]
            BY <3>2 DEF ServerNoise
      <4>2. QED BY <4>1, MessageKinds DEF Kinds
    <3>3. CASE ServerDrops(k)
          BY <3>3 DEF ServerDrops
    <3>4. QED BY <1>2, <3>1, <3>2, <3>3 DEF Server
  <2>3. ASSUME NEW j \in Conns, NEW i \in DOMAIN wire'[j], IsChat(wire[j][i])'
        PROVE  i \in DOMAIN wire[j] /\ wire'[j][i] = wire[j][i]
    <3>1. CASE wire' = wire
          BY <3>1
    <3>2. ASSUME NEW a \in Kinds, Msg(a) \in Messages, wire' = [wire EXCEPT ![k] = Append(@, Msg(a))]
          PROVE  i \in DOMAIN wire[j] /\ wire'[j][i] = wire[j][i]
      <4>1. CASE j # k
            BY <2>1, <3>2, <4>1
      <4>2. CASE j = k
        <5>1. wire[k] \in Seq(Messages) /\ wire'[j] = Append(wire[k], Msg(a))
              BY <2>1, <3>2, <4>2
        <5>2. ~IsChat(Msg(a))
              BY MessageKinds DEF IsChat
        <5>3. PICK e : e = Len(wire[k]) + 1
              OBVIOUS
        <5>4. /\ DOMAIN wire'[j] = DOMAIN wire[k] \cup {e} /\ wire'[j][e] = Msg(a)
              /\ \A x \in DOMAIN wire[k] : wire'[j][x] = wire[k][x]
              BY <3>2, <5>1, <5>3, Appends
        <5>5. i # e
              BY <2>3, <5>2, <5>4 DEF IsChat
        <5>6. QED BY <4>2, <5>4, <5>5
      <4>3. QED BY <4>1, <4>2
    <3>3. QED BY <2>2, <3>1, <3>2
  <2>4. QED BY <2>1, <2>3, ChatKept
<1>3. QED BY <1>1, <1>2

LEMMA ChatStep == TypeInv /\ ChatInv /\ [Next]_vars => ChatInv'
<1> SUFFICES ASSUME TypeInv, ChatInv, [Next]_vars
             PROVE  ChatInv'
    OBVIOUS
<1>1. CASE OpenContext \/ WaitForReply \/ JoinAndClose
  <2>1. UNCHANGED <<published, hmsg, hpc, chats, pub, lmsg>>
        BY <1>1 DEF OpenContext, ResetHandlers, CloseOld, Dial, DialFails, DialCancelled, Listen,
           AddOpenHandler, SendCap, SendNick, SendRequest, SendFails, WaitForReply, WaitReceive,
           WaitPanics, ReplyCancelled, ReplyTimeout, JoinAndClose, RemoveHandler,
           AddJoinHandler, SendJoin, Joined, Leave, ServiceDone, CloseConn, CloseConnFails,
           CloseWaits, CloseTimeout, netVars, readVars, pubVars
  <2>2. wire' = wire \/ Shut(connField)
        BY <1>1 DEF OpenContext, ResetHandlers, CloseOld, Dial, DialFails, DialCancelled, Listen,
           AddOpenHandler, SendCap, SendNick, SendRequest, SendFails, WaitForReply, WaitReceive,
           WaitPanics, ReplyCancelled, ReplyTimeout, JoinAndClose, RemoveHandler,
           AddJoinHandler, SendJoin, Joined, Leave, ServiceDone, CloseConn, CloseConnFails,
           CloseWaits, CloseTimeout, netVars
  <2>3. conns' = conns \/ Dial
        BY <1>1 DEF OpenContext, ResetHandlers, CloseOld, DialFails, DialCancelled, Listen,
           AddOpenHandler, SendCap, SendNick, SendRequest, SendFails, WaitForReply, WaitReceive,
           WaitPanics, ReplyCancelled, ReplyTimeout, JoinAndClose, RemoveHandler,
           AddJoinHandler, SendJoin, Joined, Leave, ServiceDone, CloseConn, CloseConnFails,
           CloseWaits, CloseTimeout, Goto, mainVars
  <2>4. conns \in Nat /\ conns' \in Nat /\ conns <= conns'
        BY <2>3, Constants DEF Dial, TypeInv, ConnType
  <2>5. QED BY <2>1, <2>2, <2>4, WiresKept, ChatKept
<1>2. CASE Dies \/ BrokerSticks \/ Cancel \/ UNCHANGED vars
  <2>1. UNCHANGED <<conns, published, hmsg, hpc, chats, pub, lmsg, wire>> /\ conns \in Nat
        BY <1>2, Constants DEF Dies, BrokerSticks, Cancel, vars, mainVars, netVars, readVars, pubVars,
           TypeInv, ConnType
  <2>2. QED BY <2>1, ChatKept
<1>3. CASE Validate
  <2>1. UNCHANGED <<conns, published, hmsg, chats, lmsg, wire>> /\ conns \in Nat
        BY <1>3, Constants DEF Validate, Validated, ValidateFails, Goto, netVars, readVars, pubVars,
           TypeInv, ConnType
  <2>2. pub'.buf = <<>> \/ pub'.buf = pub.buf
        BY <1>3 DEF Validate, Validated, ValidateFails, NewChan, pubVars
  <2>3. hpc' = "range" \/ hpc' = hpc
        BY <1>3 DEF Validate, Validated, ValidateFails, pubVars
  <2>4. QED BY <2>1, <2>2, <2>3, ChatKept
<1>4. QED BY <1>1, <1>2, <1>3, ChatListener, ChatServer, ChatHandler DEF Next

(* ChatOnceInOrder: a chat message is in one place only, on the wire, with *)
(* the listener that read it, in the channel or with the goroutine of      *)
(* OnMessage, whichever of the listeners share a connection; and on one    *)
(* connection each of these comes after what was there before it.          *)
THEOREM ChatCorrect == Spec => []ChatOnceInOrder
<1>1. TypeInv /\ ChatInv => ChatOnceInOrder
  <2> SUFFICES ASSUME TypeInv, ChatInv
               PROVE  ChatOnceInOrder
      OBVIOUS
  <2>1. \A i, j \in DOMAIN published : i < j => Precedes(published[i], published[j])
        BY DEF ChatInv, PubSorted
  <2>2. QED BY <2>1 DEF ChatOnceInOrder, Precedes
<1>2. QED BY <1>1, ChatInit, ChatStep, TypeCorrect, PTL DEF Spec

-----------------------------------------------------------------------------
(* What the parser makes of a line, whatever its text and tags.            *)

(* No token of w is the separator c. *)
Free(w, c) == \A i \in 1..Len(w) : w[i] # c

(* An index is that of the first token that is c. *)
LEMMA IndexFirst ==
  ASSUME NEW s, NEW c, NEW p \in Nat, NEW l \in Nat, p <= l, l <= Len(s), Len(s) \in Nat,
         s[l] = c, \A i \in p..(l - 1) : s[i] # c
  PROVE  IndexFrom(s, c, p) = l
<1> DEFINE I == {i \in p..Len(s) : s[i] = c}
<1>1. l \in I /\ \A i \in I : i >= l
      OBVIOUS
<1>2. l = CHOOSE x \in I : \A y \in I : x <= y
      OBVIOUS
<1>3. QED BY <1>1, <1>2 DEF IndexFrom, SelectInSubSeq, Min

(* There is none where no token is c. *)
LEMMA IndexNone ==
  ASSUME NEW s, NEW c, NEW p \in Nat, Len(s) \in Nat, \A i \in p..Len(s) : s[i] # c
  PROVE  IndexFrom(s, c, p) = 0
BY DEF IndexFrom, SelectInSubSeq

(* An index that is found is the first. *)
LEMMA IndexRange ==
  ASSUME NEW s, NEW c, NEW p \in Nat, Len(s) \in Nat
  PROVE  \/ IndexFrom(s, c, p) = 0 /\ \A i \in p..Len(s) : s[i] # c
         \/ /\ IndexFrom(s, c, p) \in p..Len(s) /\ s[IndexFrom(s, c, p)] = c
            /\ \A i \in p..(IndexFrom(s, c, p) - 1) : s[i] # c
<1> DEFINE I == {i \in p..Len(s) : s[i] = c}
<1>1. CASE I = {}
  <2>1. \A i \in p..Len(s) : s[i] # c
        BY <1>1
  <2>2. QED BY <2>1, IndexNone
<1>2. CASE I # {}
  <2>1. I \subseteq Nat
        OBVIOUS
  <2> HIDE DEF I
  <2>2. PICK l \in I : \A m \in I : l <= m
        BY <1>2, <2>1, LeastNat
  <2>3. l \in Nat /\ p <= l /\ l <= Len(s) /\ s[l] = c /\ \A i \in p..(l - 1) : s[i] # c
        BY <2>2 DEF I
  <2>4. IndexFrom(s, c, p) = l
        BY <2>3, IndexFirst
  <2>5. QED BY <2>3, <2>4
<1>3. QED BY <1>1, <1>2

(* strings.IndexRune and what is before and after it. *)
LEMMA SplitFound ==
  ASSUME NEW T, NEW w \in Seq(T), NEW c \in T, NEW r \in Seq(T), Free(w, c)
  PROVE  LET s == w \o (<<c>> \o r) IN
           Index(s, c) = Len(w) + 1 /\ Before(s, c) = w /\ After(s, c) = r
<1> DEFINE s == w \o (<<c>> \o r)
           n == Len(w)
<1>1. /\ s \in Seq(T) /\ Len(s) = n + (1 + Len(r))
      /\ n \in Nat /\ Len(r) \in Nat /\ Len(s) \in Nat
      /\ \A i \in 1..n : s[i] = w[i]
      /\ s[n + 1] = c
      /\ \A i \in 1..Len(r) : s[(n + 1) + i] = r[i]
      BY SplitAt
<1>2. \A i \in 1..n : w[i] # c
      BY DEF Free
<1> HIDE DEF s
<1>3. Index(s, c) = n + 1
  <2> HIDE DEF n
  <2>1. 1 \in Nat /\ n + 1 \in Nat /\ 1 <= n + 1 /\ n + 1 <= Len(s) /\ (n + 1) - 1 = n
        BY <1>1
  <2>2. \A i \in 1..((n + 1) - 1) : s[i] # c
        BY <2>1, <1>1, <1>2
  <2>3. QED BY <2>1, <2>2, <1>1, IndexFirst DEF Index
<1>4. Before(s, c) = w
  <2>1. SubSeq(s, 1, n) = w
    <3>1. /\ SubSeq(s, 0 + 1, 0 + n) \in Seq(T) /\ Len(SubSeq(s, 0 + 1, 0 + n)) = n
          /\ \A i \in 1..n : SubSeq(s, 0 + 1, 0 + n)[i] = s[0 + i]
      <4> HIDE DEF n
      <4>1. 0 \in Nat /\ 0 + n <= Len(s)
            BY <1>1
      <4>2. QED BY <4>1, <1>1, Slice
    <3>2. 0 + n = n /\ \A i \in 1..n : 0 + i = i
          BY <1>1
    <3>3. SubSeq(s, 1, n) \in Seq(T) /\ Len(SubSeq(s, 1, n)) = n
          /\ \A i \in 1..n : SubSeq(s, 1, n)[i] = w[i]
          BY <3>1, <3>2, <1>1
    <3>4. QED BY <3>3, SeqEqual
  <2>2. Index(s, c) # 0 /\ Index(s, c) - 1 = n
        BY <1>1, <1>3
  <2>3. QED BY <2>1, <2>2 DEF Before
<1>5. After(s, c) = r
  <2> DEFINE p == n + 1
             v == Len(r)
  <2>1. /\ SubSeq(s, p + 1, p + v) \in Seq(T) /\ Len(SubSeq(s, p + 1, p + v)) = v
        /\ \A i \in 1..v : SubSeq(s, p + 1, p + v)[i] = s[p + i]
    <3>1. p \in Nat /\ v \in Nat /\ p + v <= Len(s)
          BY <1>1
    <3> HIDE DEF p, v
    <3>2. QED BY <3>1, <1>1, Slice
  <2>2. p + v = Len(s)
        BY <1>1
  <2>3. After(s, c) = SubSeq(s, p + 1, p + v)
        BY <2>2, <1>3 DEF After
  <2>4. \A i \in 1..v : SubSeq(s, p + 1, p + v)[i] = r[i]
        BY <2>1, <1>1
  <2> HIDE DEF p
  <2>5. QED BY <2>1, <2>3, <2>4, SeqEqual
<1>6. QED BY <1>3, <1>4, <1>5 DEF s

(* A word alone. *)
LEMMA SplitNone ==
  ASSUME NEW T, NEW w \in Seq(T), NEW c, Free(w, c)
  PROVE  Index(w, c) = 0 /\ Before(w, c) = w
<1>1. Len(w) \in Nat /\ 1 \in Nat
      BY LenProperties
<1>2. Index(w, c) = 0
      BY <1>1, IndexNone DEF Index, Free
<1>3. QED BY <1>2 DEF Before

(* The arguments from position p on. *)
ArgsFrom(f, msg, p) ==
  IF p > Len(msg) THEN <<>>
  ELSE IF msg[p] = ":" THEN <<SubSeq(msg, p + 1, Len(msg))>>
  ELSE IF IndexFrom(msg, " ", p) = 0 THEN <<SubSeq(msg, p, Len(msg))>>
  ELSE <<SubSeq(msg, p, IndexFrom(msg, " ", p) - 1)>> \o f[IndexFrom(msg, " ", p) + 1]

ArgsSolve(f, msg) == f = [p \in 1..Len(msg) + 1 |-> ArgsFrom(f, msg, p)]

(* The last loop of parseIRCv3, unfolded once. *)
LEMMA ArgumentsUnfold ==
  ASSUME NEW T, NEW msg \in Seq(T)
  PROVE  \E f : ArgsSolve(f, msg) /\ arguments(msg) = f[1]
<1>0. Len(msg) \in Nat /\ Len(msg) + 1 \in Nat
      BY LenProperties
<1>a. Seq(Seq(T)) # {} /\ <<>> \in Seq(Seq(T))
      BY EmptySeq
<1> DEFINE N == Len(msg) + 1
           I == 1..N
           V == Seq(Seq(T))
           D == [g \in [I -> V] |-> [p \in I |-> ArgsFrom(g, msg, p)]]
           rank == [p \in I |-> N - p]
<1>1. N \in Nat /\ Len(msg) \in Nat /\ V # {} /\ <<>> \in V
      BY <1>0, <1>a, Zenon
<1>2. rank \in [I -> 0..N]
      BY <1>1
<1>3. ASSUME NEW p \in I, ~(p > Len(msg))
      PROVE  /\ SubSeq(msg, p + 1, Len(msg)) \in Seq(T) /\ SubSeq(msg, p, Len(msg)) \in Seq(T)
             /\ IndexFrom(msg, " ", p) # 0 =>
                  /\ SubSeq(msg, p, IndexFrom(msg, " ", p) - 1) \in Seq(T)
                  /\ IndexFrom(msg, " ", p) + 1 \in I
                  /\ rank[IndexFrom(msg, " ", p) + 1] < rank[p]
  <2>1. p \in Nat /\ p >= 1 /\ p + 1 \in Nat /\ p + 1 >= 1 /\ p <= Len(msg)
        BY <1>1, <1>3
  <2>2. SubSeq(msg, p + 1, Len(msg)) \in Seq(T) /\ SubSeq(msg, p, Len(msg)) \in Seq(T)
        BY <2>1, <1>1, PartType
  <2>3. ASSUME IndexFrom(msg, " ", p) # 0
        PROVE  /\ SubSeq(msg, p, IndexFrom(msg, " ", p) - 1) \in Seq(T)
               /\ IndexFrom(msg, " ", p) + 1 \in I
               /\ rank[IndexFrom(msg, " ", p) + 1] < rank[p]
    <3> DEFINE l == IndexFrom(msg, " ", p)
    <3>1. l \in p..Len(msg)
          BY <2>1, <2>3, <1>1, IndexRange
    <3> HIDE DEF l
    <3>2. l - 1 \in Nat /\ l - 1 <= Len(msg) /\ l + 1 \in I
          BY <3>1, <2>1, <1>1
    <3>3. SubSeq(msg, p, l - 1) \in Seq(T)
          BY <3>2, <2>1, PartType
    <3>4. rank[l + 1] < rank[p]
          BY <3>1, <3>2, <2>1, <1>1
    <3>5. QED BY <3>2, <3>3, <3>4 DEF l
  <2>4. QED BY <2>2, <2>3
<1>b. \A x \in Seq(T) : <<x>> \in Seq(Seq(T))
      OBVIOUS
<1>4. D \in [[I -> V] -> [I -> V]]
  <2> SUFFICES ASSUME NEW g \in [I -> V], NEW p \in I
               PROVE  ArgsFrom(g, msg, p) \in V
      OBVIOUS
  <2>1. CASE p > Len(msg)
        BY <2>1, <1>1 DEF ArgsFrom
  <2>2. CASE ~(p > Len(msg)) /\ (msg[p] = ":" \/ IndexFrom(msg, " ", p) = 0)
        BY <2>2, <1>3, <1>b DEF ArgsFrom
  <2>3. CASE ~(p > Len(msg)) /\ msg[p] # ":" /\ IndexFrom(msg, " ", p) # 0
    <3>1. /\ g[IndexFrom(msg, " ", p) + 1] \in Seq(Seq(T))
          /\ <<SubSeq(msg, p, IndexFrom(msg, " ", p) - 1)>> \in Seq(Seq(T))
          BY <2>3, <1>3, <1>b
    <3>2. <<SubSeq(msg, p, IndexFrom(msg, " ", p) - 1)>> \o g[IndexFrom(msg, " ", p) + 1]
            \in Seq(Seq(T))
          BY <3>1, ConcatProperties
    <3>3. QED BY <3>2, <2>3 DEF ArgsFrom
  <2>4. QED BY <2>1, <2>2, <2>3
<1>5. ASSUME NEW g \in [I -> V], NEW h \in [I -> V], NEW p \in I,
             \A q \in I : rank[q] < rank[p] => g[q] = h[q]
      PROVE  D[g][p] = D[h][p]
  <2>1. ~(p > Len(msg)) /\ IndexFrom(msg, " ", p) # 0
          => g[IndexFrom(msg, " ", p) + 1] = h[IndexFrom(msg, " ", p) + 1]
        BY <1>3, <1>5
  <2>2. ArgsFrom(g, msg, p) = ArgsFrom(h, msg, p)
        BY <2>1 DEF ArgsFrom
  <2>3. D[g][p] = ArgsFrom(g, msg, p) /\ D[h][p] = ArgsFrom(h, msg, p)
        OBVIOUS
  <2>4. QED BY <2>2, <2>3
<1>6. PICK g \in [I -> V] : g = D[g]
  <2>1. \A g, h \in [I -> V], i \in I :
          (\A j \in I : rank[j] < rank[i] => g[j] = h[j]) => D[g][i] = D[h][i]
        BY <1>5
  <2> HIDE DEF I, V, N, D, rank
  <2>2. Descends(I, V, N, rank, D)
        BY <1>1, <1>2, <1>4, <2>1 DEF Descends
  <2>3. QED BY <2>2, Recursion
<1>7. g = [p \in I |-> ArgsFrom(g, msg, p)]
      BY <1>6
<1> DEFINE f == CHOOSE h : h = [p \in I |-> ArgsFrom(h, msg, p)]
<1>8. f = [p \in I |-> ArgsFrom(f, msg, p)]
  <2> HIDE DEF I
  <2>1. QED BY <1>7
<1>9. arguments(msg) = f[1]
      BY Zenon DEF arguments, ArgsFrom
<1> HIDE DEF f, D, rank
<1>10. QED BY <1>8, <1>9 DEF ArgsSolve

(* What is found in the second of two sequences. *)
LEMMA IndexShift ==
  ASSUME NEW T, NEW u \in Seq(T), NEW v \in Seq(T), NEW c, NEW p \in Nat, p >= 1
  PROVE  IndexFrom(u \o v, c, Len(u) + p) =
           IF IndexFrom(v, c, p) = 0 THEN 0 ELSE Len(u) + IndexFrom(v, c, p)
<1> DEFINE s == u \o v
           a == Len(u)
           b == Len(v)
           l == IndexFrom(v, c, p)
<1>1. /\ Len(s) = a + b /\ a \in Nat /\ b \in Nat
      /\ \A i \in 1..b : s[a + i] = v[i]
      BY ConcatHalves
<1>2. \/ l = 0 /\ \A i \in p..b : v[i] # c
      \/ l \in p..b /\ v[l] = c /\ \A i \in p..(l - 1) : v[i] # c
      BY <1>1, IndexRange
<1> HIDE DEF s, a, b, l
<1>3. \A i \in (a + p)..(a + b) : i - a \in p..b /\ i - a \in 1..b /\ a + (i - a) = i
      BY <1>1
<1>4. CASE l = 0
  <2>1. \A i \in p..b : v[i] # c
        BY <1>2, <1>4
  <2>2. \A i \in (a + p)..Len(s) : s[i] # c
        BY <2>1, <1>1, <1>3
  <2>3. IndexFrom(s, c, a + p) = 0
    <3>1. a + p \in Nat /\ Len(s) \in Nat
          BY <1>1
    <3>2. QED BY <2>2, <3>1, IndexNone
  <2>4. QED BY <2>3, <1>4 DEF s, a, l
<1>5. CASE l # 0
  <2>1. l \in p..b /\ v[l] = c /\ \A i \in p..(l - 1) : v[i] # c
        BY <1>2, <1>5
  <2>2. /\ a + p \in Nat /\ a + l \in Nat /\ a + p <= a + l /\ a + l <= Len(s) /\ Len(s) \in Nat
        /\ l \in 1..b
        BY <2>1, <1>1
  <2>3. s[a + l] = c
        BY <2>1, <2>2, <1>1
  <2>4. ASSUME NEW i \in (a + p)..((a + l) - 1)
        PROVE  s[i] # c
    <3>1. i \in (a + p)..(a + b) /\ i - a \in p..(l - 1)
          BY <2>1, <1>1
    <3>2. s[i] = v[i - a]
          BY <3>1, <1>1, <1>3
    <3>3. QED BY <2>1, <3>1, <3>2
  <2>5. IndexFrom(s, c, a + p) = a + l
        BY <2>2, <2>3, <2>4, IndexFirst
  <2>6. QED BY <2>5, <1>5 DEF s, a, l
<1>6. QED BY <1>4, <1>5

(* A part of the second of two sequences. *)
LEMMA PartShift ==
  ASSUME NEW T, NEW u \in Seq(T), NEW v \in Seq(T),
         NEW m \in Nat, m >= 1, NEW n \in Nat, n <= Len(v)
  PROVE  SubSeq(u \o v, Len(u) + m, Len(u) + n) = SubSeq(v, m, n)
<1> DEFINE s == u \o v
           a == Len(u)
           b == Len(v)
<1>1. /\ Len(s) = a + b /\ a \in Nat /\ b \in Nat /\ s \in Seq(T)
      /\ \A i \in 1..b : s[a + i] = v[i]
      BY ConcatHalves
<1>2. /\ \A i \in m..n : v[i] \in T
      /\ \A i \in (a + m)..(a + n) : s[i] \in T
  <2>1. \A i \in m..n : i \in 1..Len(v)
        BY <1>1
  <2>2. \A i \in (a + m)..(a + n) : i \in 1..Len(s)
        BY <1>1
  <2> HIDE DEF s
  <2>3. QED BY <2>1, <2>2, <1>1, ElementOfSeq
<1> HIDE DEF s, a, b
<1> DEFINE k == IF m <= n THEN n - m + 1 ELSE 0
           x == a + m
           y == a + n
<1>3. /\ m \in Int /\ n \in Int /\ x \in Int /\ y \in Int /\ k \in Nat
      /\ k = IF x <= y THEN y - x + 1 ELSE 0
      /\ \A i \in 1..k : /\ i \in 1..n - m + 1 /\ i \in 1..y - x + 1
                         /\ m + i - 1 \in 1..b /\ x + i - 1 = a + (m + i - 1)
  <2>1. n <= b
        BY DEF b
  <2>2. QED BY <2>1, <1>1
<1>4. /\ SubSeq(v, m, n) \in Seq(T) /\ Len(SubSeq(v, m, n)) = k
      /\ \A i \in 1..n - m + 1 : SubSeq(v, m, n)[i] = v[m + i - 1]
      BY <1>2, <1>3, SubSeqProperties
<1> HIDE DEF k
<1>5. /\ SubSeq(s, x, y) \in Seq(T) /\ Len(SubSeq(s, x, y)) = k
      /\ \A i \in 1..y - x + 1 : SubSeq(s, x, y)[i] = s[x + i - 1]
  <2> HIDE DEF x, y
  <2>1. \A i \in x..y : s[i] \in T
        BY <1>2 DEF x, y
  <2>2. QED BY <2>1, <1>3, SubSeqProperties
<1>6. ASSUME NEW i \in 1..k
      PROVE  SubSeq(s, x, y)[i] = SubSeq(v, m, n)[i]
  <2>1. SubSeq(s, x, y)[i] = s[a + (m + i - 1)]
        BY <1>3, <1>5
  <2>2. SubSeq(v, m, n)[i] = v[m + i - 1]
        BY <1>3, <1>4
  <2>3. QED BY <2>1, <2>2, <1>1, <1>3
<1> HIDE DEF x, y
<1>7. SubSeq(s, x, y) = SubSeq(v, m, n)
      BY <1>4, <1>5, <1>6, SeqEqual
<1>8. QED BY <1>7 DEF s, a, x, y

(* The arguments found in the second of two sequences are its own.         *)
LEMMA ArgsShift ==
  ASSUME NEW T, NEW u \in Seq(T), NEW v \in Seq(T), NEW f, NEW g,
         ArgsSolve(f, u \o v), ArgsSolve(g, v)
  PROVE  f[Len(u) + 1] = g[1]
<1> DEFINE s == u \o v
           a == Len(u)
           b == Len(v)
           N == b + 1
           Bad == {n \in 0..b : f[a + (N - n)] # g[N - n]}
<1>1. /\ Len(s) = a + b /\ a \in Nat /\ b \in Nat
      /\ \A i \in 1..b : s[a + i] = v[i]
      BY ConcatHalves
<1>2. ASSUME NEW p \in 1..N, p <= b => \A q \in (p + 1)..N : f[a + q] = g[q]
      PROVE  f[a + p] = g[p]
  <2> DEFINE l == IndexFrom(v, " ", p)
             r == IndexFrom(s, " ", a + p)
  <2>1. f[a + p] = ArgsFrom(f, s, a + p)
    <3>1. a + p \in 1..Len(s) + 1
          BY <1>1
    <3> HIDE DEF s, a
    <3>2. f = [q \in 1..Len(s) + 1 |-> ArgsFrom(f, s, q)]
          BY DEF ArgsSolve, s
    <3>3. QED BY <3>1, <3>2
  <2>2. g[p] = ArgsFrom(g, v, p)
        BY DEF ArgsSolve
  <2>3. p \in Nat /\ p >= 1 /\ (p > b <=> a + p > Len(s))
        BY <1>1
  <2>4. CASE p > b
        BY <2>1, <2>2, <2>3, <2>4 DEF ArgsFrom
  <2>5. CASE ~(p > b)
    <3>1. s[a + p] = v[p]
          BY <2>3, <2>5, <1>1
    <3>2. r = IF l = 0 THEN 0 ELSE a + l
      <4>1. \A c, q : q \in Nat /\ q >= 1 =>
              IndexFrom(u \o v, c, Len(u) + q) =
                IF IndexFrom(v, c, q) = 0 THEN 0 ELSE Len(u) + IndexFrom(v, c, q)
            BY IndexShift
      <4>2. QED BY <4>1, <2>3, Zenon
    <3>3. l = 0 \/ l \in p..b
          BY <2>3, <1>1, IndexRange
    <3>a. l = 0 \/ (l \in Nat /\ l >= 1 /\ p <= l /\ l <= b /\ l + 1 \in (p + 1)..N)
      <4> HIDE DEF l, r, s, a, b
      <4>1. QED BY <3>3, <2>3, <1>1
    <3>4. SubSeq(s, a + (p + 1), a + b) = SubSeq(v, p + 1, b)
      <4>1. p + 1 \in Nat /\ p + 1 >= 1 /\ b \in Nat /\ b <= Len(v)
            BY <2>3, <1>1
      <4>2. QED BY <4>1, PartShift
    <3>5. SubSeq(s, a + p, a + b) = SubSeq(v, p, b)
      <4>1. b \in Nat /\ b <= Len(v)
            BY <2>3, <1>1
      <4>2. QED BY <4>1, <2>3, PartShift
    <3>6. a + (p + 1) = (a + p) + 1 /\ a + b = Len(s)
          BY <1>1, <2>3
    <3>7. ASSUME l # 0
          PROVE  /\ SubSeq(s, a + p, r - 1) = SubSeq(v, p, l - 1)
                 /\ f[r + 1] = g[l + 1]
      <4>1. l - 1 \in Nat /\ l - 1 <= Len(v) /\ l + 1 \in (p + 1)..N /\ p <= b
        <5> HIDE DEF l, r, s, a
        <5>1. QED BY <3>a, <3>7, <2>3, <1>1
      <4>2. r - 1 = a + (l - 1) /\ r + 1 = a + (l + 1)
        <5>1. r = a + l
              BY <3>2, <3>7
        <5>2. l \in Nat /\ a \in Nat
              BY <3>a, <3>7, <1>1
        <5> HIDE DEF l, r, s, a, b, N
        <5>3. QED BY <5>1, <5>2
      <4>3. SubSeq(s, a + p, a + (l - 1)) = SubSeq(v, p, l - 1)
            BY <4>1, <2>3, PartShift
      <4>4. f[a + (l + 1)] = g[l + 1]
            BY <4>1, <1>2
      <4>5. QED BY <4>2, <4>3, <4>4
    <3> HIDE DEF s, a, l, r
    <3>8. r = 0 <=> l = 0
          BY <3>2, <3>a, <1>1
    <3>9. ArgsFrom(f, s, a + p) = ArgsFrom(g, v, p)
          BY <3>1, <3>4, <3>5, <3>6, <3>7, <3>8, <2>3, <2>5 DEF ArgsFrom, l, r
    <3>10. QED BY <2>1, <2>2, <3>9
  <2>6. QED BY <2>4, <2>5
<1>3. ASSUME NEW n \in Bad, \A m \in Nat : m < n => m \notin Bad
      PROVE  FALSE
  <2>1. ASSUME NEW q \in ((N - n) + 1)..N
        PROVE  f[a + q] = g[q]
    <3>1. N - q \in 0..b /\ N - q < n /\ N - (N - q) = q
          BY <1>1
    <3> HIDE DEF N, a, b
    <3>2. QED BY <3>1, <1>3
  <2>2. N - n \in 1..N /\ n \in 0..b
        BY <1>1
  <2> HIDE DEF N, a
  <2>3. f[a + (N - n)] = g[N - n]
        BY <1>2, <2>1, <2>2
  <2>4. QED BY <2>3
<1>4. Bad = {}
  <2>1. Bad \subseteq Nat
        OBVIOUS
  <2> HIDE DEF Bad
  <2>2. QED BY <2>1, <1>3, NoneBad
<1>5. b \in 0..b /\ N - b = 1
      BY <1>1
<1>6. QED BY <1>4, <1>5

(* The four ways an argument ends: a trailer, the line, a separator, nothing. *)
LEMMA ArgumentsEmpty ==
  arguments(<<>>) = <<>>
<1>1. <<>> \in Seq({}) /\ Len(<<>>) = 0
      BY EmptySeq
<1>2. PICK f : ArgsSolve(f, <<>>) /\ arguments(<<>>) = f[1]
      BY <1>1, ArgumentsUnfold
<1>3. 1 \in 1..Len(<<>>) + 1 /\ 1 > Len(<<>>)
      BY <1>1
<1>4. f[1] = ArgsFrom(f, <<>>, 1)
      BY <1>2, <1>3 DEF ArgsSolve
<1>5. QED BY <1>2, <1>3, <1>4 DEF ArgsFrom

(* The first argument of a line that is not empty. *)
LEMMA ArgumentsFirst ==
  ASSUME NEW T, NEW s \in Seq(T), s # <<>>
  PROVE  \E f : ArgsSolve(f, s) /\ arguments(s) =
           IF s[1] = ":" THEN <<SubSeq(s, 2, Len(s))>>
           ELSE IF Index(s, " ") = 0 THEN <<SubSeq(s, 1, Len(s))>>
           ELSE <<SubSeq(s, 1, Index(s, " ") - 1)>> \o f[Index(s, " ") + 1]
<1>1. Len(s) \in Nat /\ Len(s) # 0
      BY LenProperties, EmptySeq
<1>2. PICK f : ArgsSolve(f, s) /\ arguments(s) = f[1]
      BY ArgumentsUnfold
<1>3. 1 \in 1..Len(s) + 1 /\ ~(1 > Len(s)) /\ 1 + 1 = 2
      BY <1>1
<1>4. f[1] = ArgsFrom(f, s, 1)
      BY <1>2, <1>3 DEF ArgsSolve
<1>5. QED BY <1>2, <1>3, <1>4 DEF ArgsFrom, Index

(* The two separators of a line. *)
Space == " "
Colon == ":"

(* A trailer is one argument, whatever it holds. *)
LEMMA ArgumentsTrailer ==
  ASSUME NEW T, NEW t \in Seq(T), Colon \in T
  PROVE  arguments(<<Colon>> \o t) = <<t>>
<1> DEFINE u == <<Colon>>
           s == u \o t
<1>1. u \in Seq(T) /\ Len(u) = 1 /\ u[1] = Colon
      OBVIOUS
<1> HIDE DEF u
<1>2. /\ s \in Seq(T) /\ Len(t) \in Nat /\ Len(s) = 1 + Len(t)
      /\ \A i \in 1..1 : s[i] = u[i]
      /\ \A i \in 1..Len(t) : s[1 + i] = t[i]
  <2>1. \A x \in Seq(T) : /\ x \o t \in Seq(T) /\ Len(t) \in Nat /\ Len(x \o t) = Len(x) + Len(t)
                          /\ \A i \in 1..Len(x) : (x \o t)[i] = x[i]
                          /\ \A i \in 1..Len(t) : (x \o t)[Len(x) + i] = t[i]
        BY ConcatHalves
  <2>2. QED BY <2>1, <1>1
<1> HIDE DEF s
<1>3. s # <<>> /\ s[1] = Colon
      BY <1>1, <1>2, EmptySeq
<1>4. SubSeq(s, 2, Len(s)) = t
  <2>1. /\ SubSeq(s, 1 + 1, 1 + Len(t)) \in Seq(T) /\ Len(SubSeq(s, 1 + 1, 1 + Len(t))) = Len(t)
        /\ \A i \in 1..Len(t) : SubSeq(s, 1 + 1, 1 + Len(t))[i] = s[1 + i]
    <3>1. 1 \in Nat /\ 1 + Len(t) <= Len(s)
          BY <1>2
    <3>2. QED BY <3>1, <1>2, Slice
  <2>2. 1 + 1 = 2
        OBVIOUS
  <2>3. SubSeq(s, 2, Len(s)) \in Seq(T) /\ Len(SubSeq(s, 2, Len(s))) = Len(t)
        /\ \A i \in 1..Len(t) : SubSeq(s, 2, Len(s))[i] = t[i]
        BY <2>1, <2>2, <1>2
  <2>4. QED BY <2>3, SeqEqual
<1>5. arguments(s) = <<SubSeq(s, 2, Len(s))>>
      BY <1>2, <1>3, ArgumentsFirst DEF Colon
<1>6. QED BY <1>4, <1>5 DEF s, u

(* An argument that is not a trailer. *)
Word(w) == w # <<>> /\ w[1] # ":" /\ Free(w, " ")

(* A word alone is one argument. *)
LEMMA ArgumentsLast ==
  ASSUME NEW T, NEW w \in Seq(T), Word(w)
  PROVE  arguments(w) = <<w>>
<1>1. Index(w, " ") = 0
      BY SplitNone DEF Word
<1>2. SubSeq(w, 1, Len(w)) = w
  <2>1. \A i \in 1..Len(w) : w[i] \in T
        BY ElementOfSeq
  <2>2. Len(w) \in Nat
        BY LenProperties
  <2>3. /\ SubSeq(w, 1, Len(w)) \in Seq(T) /\ Len(SubSeq(w, 1, Len(w))) = Len(w)
        /\ \A i \in 1..Len(w) - 1 + 1 : SubSeq(w, 1, Len(w))[i] = w[1 + i - 1]
    <3>1. 1 \in Int /\ Len(w) \in Int /\ (IF 1 <= Len(w) THEN Len(w) - 1 + 1 ELSE 0) = Len(w)
          BY <2>2
    <3>2. QED BY <2>1, <3>1, SubSeqProperties
  <2>4. \A i \in 1..Len(w) : i \in 1..Len(w) - 1 + 1 /\ 1 + i - 1 = i
        BY <2>2
  <2>5. QED BY <2>3, <2>4, SeqEqual
<1>3. arguments(w) = <<SubSeq(w, 1, Len(w))>>
  <2>1. w # <<>> /\ w[1] # ":"
        BY DEF Word
  <2>2. QED BY <2>1, <1>1, ArgumentsFirst
<1>4. QED BY <1>2, <1>3

(* A word and a space: the word is an argument and the rest gives the others. *)
LEMMA ArgumentsMore ==
  ASSUME NEW T, NEW w \in Seq(T), NEW r \in Seq(T), Space \in T, Word(w)
  PROVE  arguments(w \o (<<Space>> \o r)) = <<w>> \o arguments(r)
<1> DEFINE s == w \o (<<Space>> \o r)
           u == w \o <<Space>>
<1>1. <<Space>> \in Seq(T) /\ Len(<<Space>>) = 1
      OBVIOUS
<1>2. s = u \o r /\ u \in Seq(T) /\ Len(u) = Len(w) + 1 /\ Len(w) \in Nat /\ Len(w) # 0
  <2>1. \A x \in Seq(T) : (w \o x) \o r = w \o (x \o r)
        BY ConcatAssociative
  <2>2. \A x \in Seq(T) : w \o x \in Seq(T) /\ Len(w \o x) = Len(w) + Len(x)
        BY ConcatProperties
  <2>3. Len(w) \in Nat /\ Len(w) # 0
        BY LenProperties, EmptySeq DEF Word
  <2>4. QED BY <2>1, <2>2, <2>3, <1>1
<1>3. s \in Seq(T) /\ s # <<>> /\ \A i \in 1..Len(w) : s[i] = w[i]
      BY SplitAt
<1>4. Index(s, Space) = Len(w) + 1 /\ Before(s, Space) = w
      BY SplitFound DEF Word, Space
<1> HIDE DEF s, u
<1>5. s[1] # ":"
  <2>1. 1 \in 1..Len(w)
        BY <1>2
  <2>2. s[1] = w[1]
        BY <2>1, <1>3
  <2>3. QED BY <2>2 DEF Word
<1>6. Index(s, Space) # 0 /\ SubSeq(s, 1, Index(s, Space) - 1) = w
  <2>1. Index(s, Space) # 0
        BY <1>2, <1>4
  <2>2. QED BY <2>1, <1>4 DEF Before
<1>7. PICK f : ArgsSolve(f, s) /\ arguments(s) = <<w>> \o f[Index(s, Space) + 1]
      BY <1>3, <1>5, <1>6, ArgumentsFirst DEF Space
<1>8. PICK g : ArgsSolve(g, r) /\ arguments(r) = g[1]
      BY ArgumentsUnfold
<1>9. f[Len(u) + 1] = g[1]
      BY <1>2, <1>7, <1>8, ArgsShift
<1>10. arguments(s) = <<w>> \o arguments(r)
      BY <1>2, <1>4, <1>7, <1>8, <1>9
<1>11. QED BY <1>10 DEF s

(* The tags from position p on: where the key of the first ends, where its *)
(* value ends, and what follows.                                           *)
KeyEnd(msg, p) == IndexFrom(msg, "=", p)
ValueEnd(msg, p) ==
  IF IndexFrom(msg, ";", KeyEnd(msg, p) + 1) = 0 THEN Len(msg) + 1
  ELSE IndexFrom(msg, ";", KeyEnd(msg, p) + 1)
TagsFrom(f, msg, p) ==
  IF p > Len(msg) THEN [ok |-> TRUE, list |-> <<>>]
  ELSE IF KeyEnd(msg, p) = 0 THEN [ok |-> FALSE, list |-> <<>>]
  ELSE [ok   |-> f[ValueEnd(msg, p) + 1].ok,
        list |-> <<[key   |-> SubSeq(msg, p, KeyEnd(msg, p) - 1),
                    value |-> SubSeq(msg, KeyEnd(msg, p) + 1, ValueEnd(msg, p) - 1)]>>
                   \o f[ValueEnd(msg, p) + 1].list]
TagsSolve(f, msg) == f = [p \in 1..Len(msg) + 2 |-> TagsFrom(f, msg, p)]
TagsOf(T) == Seq([key : Seq(T), value : Seq(T)])
TagResults(T) == [ok : BOOLEAN, list : TagsOf(T)]

(* Where a key and a value end, and what they are. *)
LEMMA TagEnds ==
  ASSUME NEW T, NEW msg \in Seq(T), NEW p \in 1..Len(msg) + 2, ~(p > Len(msg)), KeyEnd(msg, p) # 0
  PROVE  /\ SubSeq(msg, p, KeyEnd(msg, p) - 1) \in Seq(T)
         /\ SubSeq(msg, KeyEnd(msg, p) + 1, ValueEnd(msg, p) - 1) \in Seq(T)
         /\ KeyEnd(msg, p) \in Nat /\ ValueEnd(msg, p) \in Nat
         /\ p <= KeyEnd(msg, p) /\ KeyEnd(msg, p) < ValueEnd(msg, p)
         /\ ValueEnd(msg, p) <= Len(msg) + 1
<1>1. Len(msg) \in Nat /\ p \in Nat /\ p >= 1 /\ p <= Len(msg)
      BY LenProperties
<1> DEFINE q == KeyEnd(msg, p)
           l == ValueEnd(msg, p)
<1>2. q \in p..Len(msg)
  <2>1. q = 0 \/ q \in p..Len(msg)
        BY <1>1, IndexRange DEF KeyEnd
  <2>2. QED BY <2>1
<1>3. l = Len(msg) + 1 \/ l \in (q + 1)..Len(msg)
  <2>1. q + 1 \in Nat
        BY <1>1, <1>2
  <2>2. IndexFrom(msg, ";", q + 1) = 0 \/ IndexFrom(msg, ";", q + 1) \in (q + 1)..Len(msg)
        BY <1>1, <2>1, IndexRange
  <2>3. QED BY <2>2 DEF ValueEnd
<1> HIDE DEF q, l
<1>4. /\ q \in Nat /\ l \in Nat /\ p <= q /\ q < l /\ l <= Len(msg) + 1
      /\ q - 1 \in Nat /\ q - 1 <= Len(msg) /\ q + 1 \in Nat /\ q + 1 >= 1
      /\ l - 1 \in Nat /\ l - 1 <= Len(msg)
      BY <1>1, <1>2, <1>3
<1>5. SubSeq(msg, p, q - 1) \in Seq(T) /\ SubSeq(msg, q + 1, l - 1) \in Seq(T)
      BY <1>1, <1>4, PartType
<1>6. QED BY <1>4, <1>5 DEF q, l

(* parseTags, unfolded once. *)
LEMMA TagsUnfold ==
  ASSUME NEW T, NEW msg \in Seq(T)
  PROVE  \E f : TagsSolve(f, msg) /\ parseTags(msg) = f[1]
<1>0. Len(msg) \in Nat /\ Len(msg) + 2 \in Nat
      BY LenProperties
<1>a. <<>> \in TagsOf(T)
      BY EmptySeq DEF TagsOf
<1>b. [ok |-> TRUE, list |-> <<>>] \in TagResults(T) /\ [ok |-> FALSE,
          list |-> <<>>] \in TagResults(T)
      BY <1>a DEF TagResults
<1> DEFINE N == Len(msg) + 2
           I == 1..N
           V == TagResults(T)
           D == [g \in [I -> V] |-> [p \in I |-> TagsFrom(g, msg, p)]]
           rank == [p \in I |-> N - p]
<1>1. N \in Nat /\ V # {}
      BY <1>0, <1>b, Zenon
<1>2. rank \in [I -> 0..N]
      BY <1>1
<1>3. ASSUME NEW p \in I, ~(p > Len(msg)), KeyEnd(msg, p) # 0
      PROVE  /\ SubSeq(msg, p, KeyEnd(msg, p) - 1) \in Seq(T)
             /\ SubSeq(msg, KeyEnd(msg, p) + 1, ValueEnd(msg, p) - 1) \in Seq(T)
             /\ ValueEnd(msg, p) + 1 \in I
             /\ rank[ValueEnd(msg, p) + 1] < rank[p]
  <2>1. /\ SubSeq(msg, p, KeyEnd(msg, p) - 1) \in Seq(T)
        /\ SubSeq(msg, KeyEnd(msg, p) + 1, ValueEnd(msg, p) - 1) \in Seq(T)
        /\ KeyEnd(msg, p) \in Nat /\ ValueEnd(msg, p) \in Nat
        /\ p <= KeyEnd(msg, p) /\ KeyEnd(msg, p) < ValueEnd(msg, p)
        /\ ValueEnd(msg, p) <= Len(msg) + 1
        BY <1>3, TagEnds
  <2>2. ValueEnd(msg, p) + 1 \in I /\ rank[ValueEnd(msg, p) + 1] < rank[p]
        BY <2>1, <1>0
  <2>3. QED BY <2>1, <2>2
<1>4. D \in [[I -> V] -> [I -> V]]
  <2> SUFFICES ASSUME NEW g \in [I -> V], NEW p \in I
               PROVE  TagsFrom(g, msg, p) \in V
      OBVIOUS
  <2>1. CASE p > Len(msg) \/ KeyEnd(msg, p) = 0
        BY <2>1, <1>b DEF TagsFrom
  <2>2. CASE ~(p > Len(msg)) /\ KeyEnd(msg, p) # 0
    <3> DEFINE k == SubSeq(msg, p, KeyEnd(msg, p) - 1)
               v == SubSeq(msg, KeyEnd(msg, p) + 1, ValueEnd(msg, p) - 1)
               h == g[ValueEnd(msg, p) + 1]
    <3>1. k \in Seq(T) /\ v \in Seq(T) /\ h \in TagResults(T)
          BY <2>2, <1>3
    <3> HIDE DEF k, v, h
    <3>2. h.ok \in BOOLEAN /\ h.list \in TagsOf(T)
          BY <3>1 DEF TagResults
    <3>3. <<[key |-> k, value |-> v]>> \in Seq([key : Seq(T), value : Seq(T)])
          BY <3>1
    <3>4. <<[key |-> k, value |-> v]>> \o h.list \in TagsOf(T)
          BY <3>2, <3>3, ConcatProperties DEF TagsOf
    <3>5. [ok |-> h.ok, list |-> <<[key |-> k, value |-> v]>> \o h.list] \in TagResults(T)
          BY <3>2, <3>4 DEF TagResults
    <3>6. TagsFrom(g, msg, p) = [ok |-> h.ok, list |-> <<[key |-> k, value |-> v]>> \o h.list]
          BY <2>2 DEF TagsFrom, k, v, h
    <3>7. QED BY <3>5, <3>6
  <2>3. QED BY <2>1, <2>2
<1>5. ASSUME NEW g \in [I -> V], NEW h \in [I -> V], NEW p \in I,
             \A q \in I : rank[q] < rank[p] => g[q] = h[q]
      PROVE  D[g][p] = D[h][p]
  <2>1. ~(p > Len(msg)) /\ KeyEnd(msg, p) # 0
          => g[ValueEnd(msg, p) + 1] = h[ValueEnd(msg, p) + 1]
        BY <1>3, <1>5
  <2>2. TagsFrom(g, msg, p) = TagsFrom(h, msg, p)
        BY <2>1 DEF TagsFrom
  <2>3. D[g][p] = TagsFrom(g, msg, p) /\ D[h][p] = TagsFrom(h, msg, p)
        OBVIOUS
  <2>4. QED BY <2>2, <2>3
<1>6. PICK g \in [I -> V] : g = D[g]
  <2>1. \A g, h \in [I -> V], i \in I :
          (\A j \in I : rank[j] < rank[i] => g[j] = h[j]) => D[g][i] = D[h][i]
        BY <1>5
  <2> HIDE DEF I, V, N, D, rank
  <2>2. Descends(I, V, N, rank, D)
        BY <1>1, <1>2, <1>4, <2>1 DEF Descends
  <2>3. QED BY <2>2, Recursion
<1>7. g = [p \in I |-> TagsFrom(g, msg, p)]
      BY <1>6
<1> DEFINE f == CHOOSE h : h = [p \in I |-> TagsFrom(h, msg, p)]
<1>8. f = [p \in I |-> TagsFrom(f, msg, p)]
  <2> HIDE DEF I
  <2>1. QED BY <1>7
<1>9. parseTags(msg) = f[1]
      BY Zenon DEF parseTags, TagsFrom, KeyEnd, ValueEnd
<1> HIDE DEF f, D, rank
<1>10. QED BY <1>8, <1>9 DEF TagsSolve

(* Nothing written, no tags. *)
LEMMA TagsEmpty ==
  parseTags(<<>>) = [ok |-> TRUE, list |-> <<>>]
<1>1. <<>> \in Seq({}) /\ Len(<<>>) = 0
      BY EmptySeq
<1>2. PICK f : TagsSolve(f, <<>>) /\ parseTags(<<>>) = f[1]
      BY <1>1, TagsUnfold
<1>3. 1 \in 1..Len(<<>>) + 2 /\ 1 > Len(<<>>)
      BY <1>1
<1>4. f[1] = TagsFrom(f, <<>>, 1)
      BY <1>2, <1>3 DEF TagsSolve
<1>5. QED BY <1>2, <1>3, <1>4 DEF TagsFrom

Equals == "="
Semicolon == ";"

(* A key, an equals sign and a value stand in s after position o, and then *)
(* s ends or a semicolon follows.                                          *)
TagAt(s, o, key, value) ==
  /\ o \in Nat /\ Len(s) \in Nat /\ o + (Len(key) + 1 + Len(value)) <= Len(s)
  /\ \A q \in 1..Len(key) : s[o + q] = key[q]
  /\ s[o + (Len(key) + 1)] = Equals
  /\ \A q \in 1..Len(value) : s[o + (Len(key) + 1) + q] = value[q]
  /\ \/ Len(s) = o + (Len(key) + 1 + Len(value))
     \/ /\ Len(s) > o + (Len(key) + 1 + Len(value))
        /\ s[o + (Len(key) + 1 + Len(value)) + 1] = Semicolon

(* parseTags finds a key and a value that stand after position o. *)
LEMMA TagRead ==
  ASSUME NEW T, NEW s \in Seq(T), NEW o \in Nat, NEW key \in Seq(T), NEW value \in Seq(T),
         TagAt(s, o, key, value), Free(key, Equals), Free(value, Semicolon)
  PROVE  /\ o + 1 \in 1..Len(s)
         /\ KeyEnd(s, o + 1) # 0
         /\ ValueEnd(s, o + 1) = o + (Len(key) + 1 + Len(value)) + 1
         /\ SubSeq(s, o + 1, KeyEnd(s, o + 1) - 1) = key
         /\ SubSeq(s, KeyEnd(s, o + 1) + 1, ValueEnd(s, o + 1) - 1) = value
<1> DEFINE a == Len(key)
           b == Len(value)
           e == o + (a + 1)
           l == o + (a + 1 + b)
<1>1. a \in Nat /\ b \in Nat
      BY LenProperties
<1>2. /\ o \in Nat /\ Len(s) \in Nat /\ l <= Len(s)
      /\ \A q \in 1..a : s[o + q] = key[q]
      /\ s[e] = Equals
      /\ \A q \in 1..b : s[e + q] = value[q]
      /\ Len(s) = l \/ (Len(s) > l /\ s[l + 1] = Semicolon)
      BY DEF TagAt
<1>3. (\A q \in 1..a : key[q] # Equals) /\ (\A q \in 1..b : value[q] # Semicolon)
      BY DEF Free
<1>a. o \in Nat /\ Len(s) \in Nat /\ l <= Len(s)
      BY <1>2
<1> HIDE DEF a, b
<1>4. /\ e \in Nat /\ l \in Nat /\ e = o + a + 1 /\ l = e + b /\ e <= Len(s)
      /\ o + 1 \in Nat /\ o + 1 <= e /\ e # 0 /\ e + 1 \in Nat /\ l + 1 \in Nat
      /\ e - 1 = o + a /\ (l + 1) - 1 = l
      BY <1>1, <1>a
<1> HIDE DEF e, l
<1>b. l = o + a + 1 + b
      BY <1>1, <1>4
<1>5. KeyEnd(s, o + 1) = e
  <2>1. ASSUME NEW i \in (o + 1)..(e - 1)
        PROVE  s[i] # Equals
    <3>1. i - o \in 1..a /\ o + (i - o) = i
          BY <1>1, <1>a, <1>4
    <3>2. QED BY <3>1, <1>2, <1>3
  <2>2. IndexFrom(s, Equals, o + 1) = e
        BY <1>2, <1>4, <2>1, IndexFirst
  <2>3. QED BY <2>2 DEF KeyEnd, Equals
<1>6. ValueEnd(s, o + 1) = l + 1
  <2>1. ASSUME NEW i \in (e + 1)..l
        PROVE  s[i] # Semicolon
    <3>1. i - e \in 1..b /\ e + (i - e) = i
          BY <1>1, <1>4
    <3>2. QED BY <3>1, <1>2, <1>3
  <2>2. CASE Len(s) = l
    <3>a. \A i \in (e + 1)..Len(s) : s[i] # Semicolon
          BY <2>1, <2>2
    <3>1. IndexFrom(s, Semicolon, e + 1) = 0
          BY <3>a, <1>a, <1>4, IndexNone
    <3>2. QED BY <3>1, <2>2, <1>5 DEF ValueEnd, Semicolon
  <2>3. CASE Len(s) > l
    <3>1. l + 1 <= Len(s) /\ e + 1 <= l + 1 /\ s[l + 1] = Semicolon /\ l + 1 # 0
          BY <2>3, <1>1, <1>2, <1>4
    <3>a. \A i \in (e + 1)..((l + 1) - 1) : s[i] # Semicolon
          BY <2>1, <1>4
    <3>2. IndexFrom(s, Semicolon, e + 1) = l + 1
      <4> DEFINE m == l + 1
                 n == e + 1
      <4>1. /\ n \in Nat /\ m \in Nat /\ n <= m /\ m <= Len(s) /\ Len(s) \in Nat
            /\ s[m] = Semicolon /\ \A i \in n..(m - 1) : s[i] # Semicolon
            BY <3>1, <3>a, <1>a, <1>4
      <4> HIDE DEF m, n
      <4>2. IndexFrom(s, Semicolon, n) = m
            BY <4>1, IndexFirst
      <4>3. QED BY <4>2 DEF m, n
    <3>3. QED BY <3>1, <3>2, <1>5 DEF ValueEnd, Semicolon
  <2>4. QED BY <2>2, <2>3, <1>2
<1>7. SubSeq(s, o + 1, o + a) = key
  <2>1. /\ SubSeq(s, o + 1, o + a) \in Seq(T) /\ Len(SubSeq(s, o + 1, o + a)) = a
        /\ \A i \in 1..a : SubSeq(s, o + 1, o + a)[i] = s[o + i]
    <3>1. o + a <= Len(s)
          BY <1>1, <1>2, <1>4
    <3>2. QED BY <3>1, <1>1, <1>2, Slice
  <2>2. \A i \in 1..a : SubSeq(s, o + 1, o + a)[i] = key[i]
        BY <2>1, <1>2
  <2>3. QED BY <2>1, <2>2, SeqEqual DEF a
<1>8. SubSeq(s, e + 1, l) = value
  <2>1. /\ SubSeq(s, e + 1, e + b) \in Seq(T) /\ Len(SubSeq(s, e + 1, e + b)) = b
        /\ \A i \in 1..b : SubSeq(s, e + 1, e + b)[i] = s[e + i]
    <3>1. e + b <= Len(s) /\ e \in Nat /\ b \in Nat
          BY <1>1, <1>2, <1>4
    <3>2. QED BY <3>1, Slice
  <2>2. SubSeq(s, e + 1, l) \in Seq(T) /\ Len(SubSeq(s, e + 1, l)) = b
        /\ \A i \in 1..b : SubSeq(s, e + 1, l)[i] = value[i]
        BY <2>1, <1>2, <1>4
  <2>3. QED BY <2>2, SeqEqual DEF b
<1>9. o + 1 \in 1..Len(s)
      BY <1>2, <1>4
<1>10. l + 1 = o + (Len(key) + 1 + Len(value)) + 1
      BY DEF l, a, b
<1>11. QED BY <1>4, <1>5, <1>6, <1>7, <1>8, <1>9, <1>10

(* The tags of a line as they are written.                                 *)
OneTag(tag) == tag.key \o <<"=">> \o tag.value
Written(tags) ==
  [i \in DOMAIN tags |-> IF i = 1 THEN OneTag(tags[i]) ELSE <<";">> \o OneTag(tags[i])]

(* Tags whose keys hold no equals sign and whose values no semicolon.      *)
Tags(T, tags) ==
  /\ tags \in TagsOf(T)
  /\ \A i \in 1..Len(tags) : Free(tags[i].key, Equals) /\ Free(tags[i].value, Semicolon)

(* The parts of a tag. *)
LEMMA TagParts ==
  ASSUME NEW T, NEW tags, Tags(T, tags), NEW i \in 1..Len(tags)
  PROVE  /\ tags[i].key \in Seq(T) /\ tags[i].value \in Seq(T)
         /\ tags[i] = [key |-> tags[i].key, value |-> tags[i].value]
         /\ Free(tags[i].key, Equals) /\ Free(tags[i].value, Semicolon)
<1>1. tags[i] \in [key : Seq(T), value : Seq(T)]
      BY ElementOfSeq DEF Tags, TagsOf
<1>2. QED BY <1>1 DEF Tags

(* s is a key, an equals sign and a value. *)
KeyValue(T, s, k, v) ==
  /\ s \in Seq(T) /\ Len(s) = Len(k) + 1 + Len(v)
  /\ Len(k) \in Nat /\ Len(v) \in Nat
  /\ \A q \in 1..Len(k) : s[q] = k[q]
  /\ s[Len(k) + 1] = Equals
  /\ \A q \in 1..Len(v) : s[Len(k) + 1 + q] = v[q]

(* A key, an equals sign and a value, put together. *)
LEMMA KeyValueAt ==
  ASSUME NEW T, NEW k \in Seq(T), NEW v \in Seq(T), Equals \in T
  PROVE  KeyValue(T, (k \o <<Equals>>) \o v, k, v)
<1> DEFINE s == k \o (<<Equals>> \o v)
<1>1. <<Equals>> \in Seq(T)
      OBVIOUS
<1>2. (k \o <<Equals>>) \o v = s
      BY <1>1, ConcatAssociative
<1>3. /\ s \in Seq(T) /\ Len(s) = Len(k) + (1 + Len(v))
      /\ Len(k) \in Nat /\ Len(v) \in Nat
      /\ \A i \in 1..Len(k) : s[i] = k[i]
      /\ s[Len(k) + 1] = Equals
      /\ \A i \in 1..Len(v) : s[(Len(k) + 1) + i] = v[i]
      BY SplitAt
<1> HIDE DEF s
<1>4. Len(k) + (1 + Len(v)) = Len(k) + 1 + Len(v)
      BY <1>3
<1>5. QED BY <1>2, <1>3, <1>4 DEF KeyValue

(* The same for one tag of a line. *)
LEMMA OneTagAt ==
  ASSUME NEW T, NEW tag, tag.key \in Seq(T), tag.value \in Seq(T), Equals \in T
  PROVE  KeyValue(T, OneTag(tag), tag.key, tag.value)
<1> DEFINE k == tag.key
           v == tag.value
<1>1. k \in Seq(T) /\ v \in Seq(T)
      OBVIOUS
<1>2. OneTag(tag) = (k \o <<Equals>>) \o v
      BY Zenon DEF OneTag, Equals
<1> HIDE DEF k, v
<1>3. KeyValue(T, (k \o <<Equals>>) \o v, k, v)
      BY <1>1, KeyValueAt
<1>4. QED BY <1>2, <1>3, Zenon DEF k, v

(* The tags as they are written, one after the other. *)
LEMMA WrittenType ==
  ASSUME NEW T, NEW tags, Tags(T, tags), Equals \in T, Semicolon \in T
  PROVE  /\ Len(tags) \in Nat
         /\ Written(tags) \in Seq(Seq(T)) /\ Len(Written(tags)) = Len(tags)
         /\ \A i \in 1..Len(tags) :
              /\ OneTag(tags[i]) \in Seq(T)
              /\ Written(tags)[i] =
                   IF i = 1 THEN OneTag(tags[i]) ELSE <<Semicolon>> \o OneTag(tags[i])
<1>1. tags \in TagsOf(T)
      BY DEF Tags
<1>2. DOMAIN tags = 1..Len(tags) /\ Len(tags) \in Nat
      BY <1>1, LenProperties DEF TagsOf
<1>3. \A i \in 1..Len(tags) : OneTag(tags[i]) \in Seq(T)
      BY TagParts, OneTagAt DEF KeyValue
<1>4. <<Semicolon>> \in Seq(T)
      OBVIOUS
<1>5. \A i \in 1..Len(tags) : <<Semicolon>> \o OneTag(tags[i]) \in Seq(T)
  <2>1. \A x \in Seq(T) : <<Semicolon>> \o x \in Seq(T)
        BY <1>4, ConcatProperties
  <2>2. QED BY <2>1, <1>3
<1> DEFINE n == Len(tags)
           w(i) == IF i = 1 THEN OneTag(tags[i]) ELSE <<Semicolon>> \o OneTag(tags[i])
           ss == [i \in 1..n |-> w(i)]
<1>6. Written(tags) = ss
      BY <1>2 DEF Written, Semicolon
<1>7. \A i \in 1..n : w(i) \in Seq(T)
      BY <1>3, <1>5
<1>8. ss \in [1..n -> Seq(T)] /\ \A i \in 1..n : ss[i] = w(i)
  <2> HIDE DEF w
  <2>1. QED BY <1>7
<1>9. ss \in Seq(Seq(T)) /\ Len(ss) = n
  <2>1. n \in Nat
        BY <1>2
  <2> HIDE DEF ss, n
  <2>2. QED BY <2>1, <1>8
<1>10. QED BY <1>2, <1>3, <1>6, <1>8, <1>9

(* Where the k-th tag stands in what is written. *)
Offset(tags, k) == IF k = 1 THEN 0 ELSE EndOf(Written(tags), k - 1) + 1

Placed(T, tags, k) ==
  LET all == FlattenSeq(Written(tags))
      end == EndOf(Written(tags), k)
  IN /\ all \in Seq(T) /\ Offset(tags, k) \in Nat
     /\ TagAt(all, Offset(tags, k), tags[k].key, tags[k].value)
     /\ end = Offset(tags, k) + (Len(tags[k].key) + 1 + Len(tags[k].value))
     /\ IF k = Len(tags) THEN end = Len(all)
        ELSE k + 1 \in 1..Len(tags) /\ end + 1 = Offset(tags, k + 1)

(* Every tag stands where it should in what is written. *)
LEMMA WrittenAt ==
  ASSUME NEW T, NEW tags, Tags(T, tags), Equals \in T, Semicolon \in T, NEW k \in 1..Len(tags)
  PROVE  Placed(T, tags, k)
<1> DEFINE ss == Written(tags)
           all == FlattenSeq(ss)
           n == Len(tags)
           s == OneTag(tags[k])
           c == Len(tags[k].key) + 1 + Len(tags[k].value)
           o == Offset(tags, k)
           d == EndOf(ss, k - 1)
           e == EndOf(ss, k)
<1>1. /\ n \in Nat /\ ss \in Seq(Seq(T)) /\ Len(ss) = n
      /\ \A i \in 1..n : ss[i] = IF i = 1 THEN OneTag(tags[i]) ELSE <<Semicolon>> \o OneTag(tags[i])
      BY WrittenType
<1>2. /\ tags[k].key \in Seq(T) /\ tags[k].value \in Seq(T)
      BY TagParts
<1>3. /\ s \in Seq(T) /\ Len(s) = c
      /\ Len(tags[k].key) \in Nat /\ Len(tags[k].value) \in Nat
      /\ \A q \in 1..Len(tags[k].key) : s[q] = tags[k].key[q]
      /\ s[Len(tags[k].key) + 1] = Equals
      /\ \A q \in 1..Len(tags[k].value) : s[Len(tags[k].key) + 1 + q] = tags[k].value[q]
  <2>1. KeyValue(T, OneTag(tags[k]), tags[k].key, tags[k].value)
        BY <1>2, OneTagAt, Zenon
  <2>2. QED BY <2>1, Zenon DEF KeyValue
<1> HIDE DEF ss, s, all
<1>4. all \in Seq(T) /\ Len(all) \in Nat /\ FlattenSeq(SubSeq(ss, 1, n)) = all /\ EndOf(ss, n) =
          Len(all)
  <2>1. SubSeq(ss, 1, n) = ss
        BY <1>1, SubSeqFull
  <2>2. all \in Seq(T)
        BY <1>1, FlattenType DEF all
  <2>3. QED BY <2>1, <2>2, LenProperties DEF EndOf, all
<1>5. /\ d \in Nat /\ e \in Nat /\ e = d + Len(ss[k]) /\ (k = 1 => d = 0)
  <2>1. k - 1 \in 0..Len(ss) /\ k \in 0..Len(ss) /\ k \in 1..Len(ss) /\ (k = 1 => k - 1 = 0)
        BY <1>1
  <2>2. QED BY <2>1, <1>1, FlattenEnds
<1>6. /\ e <= Len(all)
      /\ \A q \in 1..Len(ss[k]) : all[d + q] = ss[k][q]
  <2>1. k \in 1..Len(ss) /\ n \in k..Len(ss)
        BY <1>1
  <2>2. /\ EndOf(ss, k) <= EndOf(ss, n)
        /\ \A q \in 1..Len(ss[k]) :
             FlattenSeq(SubSeq(ss, 1, n))[EndOf(ss, k - 1) + q] = ss[k][q]
        BY <2>1, <1>1, FlattenAt
  <2>3. QED BY <2>2, <1>4
<1>7. /\ o \in Nat /\ e = o + c
      /\ \A q \in 1..c : all[o + q] = s[q]
  <2> HIDE DEF d, e, c
  <2>0. c \in Nat
        BY <1>3, LenProperties
  <2>1. CASE k = 1
    <3>1. o = 0 /\ ss[k] = s /\ d = 0
          BY <2>1, <1>1, <1>5 DEF Offset, s
    <3>2. QED BY <3>1, <1>3, <1>5, <1>6, <2>0
  <2>2. CASE k # 1
    <3>1. o = d + 1 /\ ss[k] = <<Semicolon>> \o s
          BY <2>2, <1>1 DEF Offset, s, d, ss
    <3>2. <<Semicolon>> \in Seq(T) /\ Len(<<Semicolon>>) = 1
          OBVIOUS
    <3>3. /\ Len(<<Semicolon>> \o s) = 1 + Len(s)
          /\ \A i \in 1..Len(s) : (<<Semicolon>> \o s)[1 + i] = s[i]
      <4>1. \A x, y \in Seq(T) : /\ Len(x \o y) = Len(x) + Len(y)
                                 /\ \A i \in 1..Len(y) : (x \o y)[Len(x) + i] = y[i]
            BY ConcatHalves
      <4>2. QED BY <4>1, <3>2, <1>3
    <3>4. Len(ss[k]) = 1 + c /\ \A i \in 1..c : ss[k][1 + i] = s[i]
          BY <3>1, <3>3, <1>3
    <3>5. \A i \in 1..c : 1 + i \in 1..1 + c /\ d + (1 + i) = o + i
          BY <3>1, <1>5, <2>0
    <3> HIDE DEF o
    <3>6. \A i \in 1..c : all[o + i] = s[i]
          BY <3>4, <3>5, <1>6
    <3>7. o \in Nat /\ e = o + c
          BY <3>1, <3>4, <1>5, <2>0
    <3>8. QED BY <3>6, <3>7
  <2>3. QED BY <2>1, <2>2
<1>8. IF k = n THEN e = Len(all)
      ELSE /\ k + 1 \in 1..n /\ e + 1 = Offset(tags, k + 1)
           /\ e < Len(all) /\ all[e + 1] = Semicolon
  <2>1. CASE k = n
        BY <2>1, <1>4
  <2>2. CASE k # n
    <3>1. k + 1 \in 1..n /\ k + 1 # 1 /\ (k + 1) - 1 = k
          BY <2>2, <1>1
    <3>2. e + 1 = Offset(tags, k + 1)
          BY <3>1 DEF Offset, ss
    <3>3. ss[k + 1] = <<Semicolon>> \o OneTag(tags[k + 1]) /\ OneTag(tags[k + 1]) \in Seq(T)
          BY <3>1, <1>1, WrittenType
    <3>4. Len(ss[k + 1]) \in Nat /\ Len(ss[k + 1]) >= 1 /\ ss[k + 1][1] = Semicolon
      <4>1. <<Semicolon>> \in Seq(T) /\ Len(<<Semicolon>>) = 1 /\ <<Semicolon>>[1] = Semicolon
            OBVIOUS
      <4>2. \A x, y \in Seq(T) : /\ Len(x \o y) = Len(x) + Len(y) /\ Len(y) \in Nat
                                 /\ \A i \in 1..Len(x) : (x \o y)[i] = x[i]
            BY ConcatHalves
      <4>3. QED BY <4>1, <4>2, <3>3
    <3>5. /\ EndOf(ss, k + 1) <= Len(all)
          /\ all[e + 1] = ss[k + 1][1]
      <4>1. k + 1 \in 1..Len(ss) /\ n \in (k + 1)..Len(ss)
            BY <3>1, <1>1
      <4>2. /\ EndOf(ss, k + 1) <= EndOf(ss, n)
            /\ \A q \in 1..Len(ss[k + 1]) :
                 FlattenSeq(SubSeq(ss, 1, n))[EndOf(ss, (k + 1) - 1) + q] = ss[k + 1][q]
            BY <4>1, <1>1, FlattenAt
      <4>3. 1 \in 1..Len(ss[k + 1])
            BY <3>4
      <4>4. QED BY <4>2, <4>3, <3>1, <1>4
    <3>6. EndOf(ss, k + 1) = e + Len(ss[k + 1])
          BY <3>1, <1>1, FlattenEnds
    <3>7. e < Len(all)
      <4> HIDE DEF e
      <4>1. QED BY <3>4, <3>5, <3>6, <1>4, <1>5
    <3>8. QED BY <3>1, <3>2, <3>4, <3>5, <3>7, <2>2
  <2>3. QED BY <2>1, <2>2
<1>9. TagAt(all, o, tags[k].key, tags[k].value)
  <2> DEFINE K == tags[k].key
             V == tags[k].value
             a == Len(K)
             b == Len(V)
  <2>1. /\ a \in Nat /\ b \in Nat /\ c = a + 1 + b
        /\ \A q \in 1..a : s[q] = K[q]
        /\ s[a + 1] = Equals
        /\ \A q \in 1..b : s[a + 1 + q] = V[q]
        BY <1>3
  <2>2. o \in Nat /\ Len(all) \in Nat /\ e <= Len(all) /\ e = o + c
        BY <1>4, <1>6, <1>7
  <2> HIDE DEF K, V, a, b, c, o, e
  <2>3. /\ \A q \in 1..a : q \in 1..c
        /\ a + 1 \in 1..c
        /\ \A q \in 1..b : a + 1 + q \in 1..c /\ o + (a + 1 + q) = o + (a + 1) + q
        BY <2>1, <2>2
  <2>4. /\ \A q \in 1..a : all[o + q] = K[q]
        /\ all[o + (a + 1)] = Equals
        /\ \A q \in 1..b : all[o + (a + 1) + q] = V[q]
        BY <2>1, <2>3, <1>7
  <2>5. Len(all) = o + c \/ (Len(all) > o + c /\ all[o + c + 1] = Semicolon)
        BY <1>8, <2>2
  <2>6. QED BY <2>1, <2>2, <2>4, <2>5 DEF TagAt, K, V, a, b
<1>10. QED BY <1>4, <1>7, <1>8, <1>9 DEF ss, all, Placed

(* What is written of tags is read back as those tags. *)
THEOREM TagsRead ==
  ASSUME NEW T, NEW tags, Tags(T, tags), Equals \in T, Semicolon \in T, 1 \in 1..Len(tags)
  PROVE  parseTags(FlattenSeq(Written(tags))) = [ok |-> TRUE, list |-> tags]
<1>0. \A k \in 1..Len(tags) : Placed(T, tags, k)
      BY WrittenAt
<1> DEFINE all == FlattenSeq(Written(tags))
           n == Len(tags)
           R == [key : Seq(T), value : Seq(T)]
           Rest(k) == [ok |-> TRUE, list |-> SubSeq(tags, k, n)]
<1>1. n \in Nat /\ tags \in Seq(R)
      BY WrittenType DEF Tags, TagsOf
<1>2. all \in Seq(T)
      BY <1>0 DEF Placed
<1>3. PICK f : TagsSolve(f, all) /\ parseTags(all) = f[1]
  <2> HIDE DEF all
  <2>1. QED BY <1>2, TagsUnfold
<1> DEFINE p(k) == Offset(tags, k) + 1
<1> HIDE DEF all, R
<1>4. ASSUME NEW k \in 1..n, k # n => f[p(k + 1)] = Rest(k + 1)
      PROVE  f[p(k)] = Rest(k)
  <2> DEFINE end == EndOf(Written(tags), k)
             o == Offset(tags, k)
             q == ValueEnd(all, o + 1) + 1
             tag == tags[k]
  <2>1. /\ all \in Seq(T) /\ o \in Nat /\ Len(all) \in Nat
        /\ TagAt(all, o, tags[k].key, tags[k].value)
        /\ end = o + (Len(tags[k].key) + 1 + Len(tags[k].value))
        /\ IF k = n THEN end = Len(all)
           ELSE k + 1 \in 1..n /\ end + 1 = Offset(tags, k + 1)
    <3>1. Placed(T, tags, k)
          BY <1>0
    <3>2. Len(all) \in Nat
          BY <1>2, LenProperties
    <3>3. QED BY <3>1, <3>2, Zenon DEF all, Placed
  <2>2. /\ tags[k].key \in Seq(T) /\ tags[k].value \in Seq(T)
        /\ tags[k] = [key |-> tags[k].key, value |-> tags[k].value]
        /\ Free(tags[k].key, Equals) /\ Free(tags[k].value, Semicolon)
        BY TagParts
  <2>3. /\ o + 1 \in 1..Len(all)
        /\ KeyEnd(all, o + 1) # 0
        /\ ValueEnd(all, o + 1) = o + (Len(tags[k].key) + 1 + Len(tags[k].value)) + 1
        /\ SubSeq(all, o + 1, KeyEnd(all, o + 1) - 1) = tags[k].key
        /\ SubSeq(all, KeyEnd(all, o + 1) + 1, ValueEnd(all, o + 1) - 1) = tags[k].value
    <3> HIDE DEF o, end
    <3>1. QED BY <2>1, <2>2, TagRead
  <2> HIDE DEF end
  <2>4. q = end + 1 + 1
        BY <2>1, <2>3
  <2>5. f[o + 1] = TagsFrom(f, all, o + 1)
    <3>1. o + 1 \in 1..Len(all) + 2
          BY <2>1, <2>3
    <3> HIDE DEF o
    <3>2. f = [i \in 1..Len(all) + 2 |-> TagsFrom(f, all, i)]
          BY <1>3 DEF TagsSolve
    <3>3. QED BY <3>1, <3>2
  <2>6. ~(o + 1 > Len(all))
        BY <2>1, <2>3
  <2>7. f[o + 1] = [ok |-> f[q].ok, list |-> <<[key |-> tags[k].key,
            value |-> tags[k].value]>> \o f[q].list]
    <3> HIDE DEF o
    <3>1. QED BY <2>3, <2>5, <2>6 DEF TagsFrom
  <2>8. f[o + 1] = [ok |-> f[q].ok, list |-> <<tag>> \o f[q].list]
        BY <2>2, <2>7, Zenon
  <2>9. f[q] = [ok |-> TRUE, list |-> SubSeq(tags, k + 1, n)]
    <3>1. CASE k = n
      <4>1. end = Len(all)
            BY <3>1, <2>1
      <4>2. q = Len(all) + 2 /\ q \in 1..Len(all) + 2 /\ q > Len(all)
        <5>1. Len(all) \in Nat
              BY <2>1
        <5> HIDE DEF q, o, n, tag
        <5>2. QED BY <4>1, <5>1, <2>4
      <4> HIDE DEF q
      <4>3. f[q] = TagsFrom(f, all, q)
        <5>1. f = [i \in 1..Len(all) + 2 |-> TagsFrom(f, all, i)]
              BY <1>3 DEF TagsSolve
        <5>2. QED BY <4>2, <5>1
      <4>4. f[q] = [ok |-> TRUE, list |-> <<>>]
            BY <4>2, <4>3 DEF TagsFrom
      <4>5. SubSeq(tags, k + 1, n) = <<>>
        <5>1. k + 1 \in Int /\ n \in Int /\ n < k + 1
              BY <3>1, <1>1
        <5>2. QED BY <5>1, SubSeqEmpty
      <4>6. QED BY <4>4, <4>5
    <3>2. CASE k # n
      <4>1. end + 1 = Offset(tags, k + 1)
            BY <3>2, <2>1
      <4>2. q = p(k + 1)
            BY <4>1, <2>4
      <4>3. QED BY <4>2, <3>2, <1>4
    <3>3. QED BY <3>1, <3>2
  <2>10. SubSeq(tags, k, n) = <<tag>> \o SubSeq(tags, k + 1, n)
    <3>1. k \in 1..Len(tags) /\ n \in k..Len(tags)
          BY <1>1
    <3>2. QED BY <3>1, <1>1, SubSeqRecursiveFirst
  <2>11. QED BY <2>8, <2>9, <2>10
<1> DEFINE Bad == {m \in 0..(n - 1) : f[p(n - m)] # Rest(n - m)}
<1>5. ASSUME NEW m \in Bad, \A i \in Nat : i < m => i \notin Bad
      PROVE  FALSE
  <2>1. n - m \in 1..n /\ m \in 0..(n - 1)
        BY <1>1
  <2>2. n - m # n => f[p((n - m) + 1)] = Rest((n - m) + 1)
    <3>1. n - m # n => m - 1 \in 0..(n - 1) /\ m - 1 < m /\ n - (m - 1) = (n - m) + 1
          BY <2>1, <1>1
    <3> HIDE DEF n, p, Rest
    <3>2. QED BY <3>1, <1>5
  <2> HIDE DEF n, p, Rest
  <2>3. f[p(n - m)] = Rest(n - m)
        BY <2>1, <2>2, <1>4
  <2>4. QED BY <2>3
<1>6. Bad = {}
  <2>1. Bad \subseteq Nat
        BY <1>1
  <2> HIDE DEF Bad
  <2>2. QED BY <2>1, <1>5, NoneBad
<1>7. n - 1 \in 0..(n - 1) /\ n - (n - 1) = 1
      BY <1>1
<1>8. f[p(1)] = Rest(1)
  <2> HIDE DEF p, Rest, n
  <2>1. QED BY <1>6, <1>7
<1>9. p(1) = 1 /\ SubSeq(tags, 1, n) = tags
      BY <1>1, SubSeqFull DEF Offset
<1>10. QED BY <1>3, <1>8, <1>9 DEF all

At == "@"

(* What parseIRCv3 makes of a line once its tags are off. *)
Parsed(tags, body) ==
  LET prefixed == body # <<>> /\ body[1] = ":"
      command  == IF prefixed THEN After(body, " ") ELSE body
      params   == Index(command, " ") # 0
  IN [ok     |-> /\ body # <<>>
                 /\ prefixed => Index(body, " ") # 0
                 /\ command # <<>>
                 /\ params => After(command, " ") # <<>>,
      tags   |-> tags,
      prefix |-> IF prefixed THEN Tail(Before(body, " ")) ELSE <<>>,
      name   |-> Before(command, " "),
      args   |-> IF params THEN arguments(After(command, " ")) ELSE <<>>]

(* parseIRCv3, with the names of its first three values for parameters. *)
ParsedFrom(tagged, tags, body, msg) ==
  LET prefixed == body # <<>> /\ body[1] = ":"
      command  == IF prefixed THEN After(body, " ") ELSE body
      params   == Index(command, " ") # 0
  IN [ok     |-> /\ tagged => Index(msg, " ") # 0 /\ tags.ok
                 /\ body # <<>>
                 /\ prefixed => Index(body, " ") # 0
                 /\ command # <<>>
                 /\ params => After(command, " ") # <<>>,
      tags   |-> tags.list,
      prefix |-> IF prefixed THEN Tail(Before(body, " ")) ELSE <<>>,
      name   |-> Before(command, " "),
      args   |-> IF params THEN arguments(After(command, " ")) ELSE <<>>]

(* parseIRCv3 is ParsedFrom. *)
LEMMA ParsedAny ==
  ASSUME NEW msg
  PROVE  LET tagged == msg # <<>> /\ msg[1] = "@" IN
         parseIRCv3(msg) =
           ParsedFrom(tagged, parseTags(IF tagged THEN Tail(Before(msg, " ")) ELSE <<>>),
                      IF tagged THEN After(msg, " ") ELSE msg, msg)
BY Zenon DEF parseIRCv3, ParsedFrom

(* A line without tags. *)
LEMMA ParsedBare ==
  ASSUME NEW line, line # <<>>, line[1] # "@"
  PROVE  parseIRCv3(line) = Parsed(<<>>, line)
<1>1. parseTags(<<>>) = [ok |-> TRUE, list |-> <<>>]
      BY TagsEmpty
<1>2. parseIRCv3(line) = ParsedFrom(FALSE, [ok |-> TRUE, list |-> <<>>], line, line)
      BY <1>1, ParsedAny
<1>3. ParsedFrom(FALSE, [ok |-> TRUE, list |-> <<>>], line, line) = Parsed(<<>>, line)
      BY DEF ParsedFrom, Parsed
<1>4. QED BY <1>2, <1>3

(* A line with tags. *)
LEMMA ParsedTagged ==
  ASSUME NEW msg, NEW list, msg # <<>>, msg[1] = "@", Index(msg, " ") # 0,
         parseTags(Tail(Before(msg, " "))) = [ok |-> TRUE, list |-> list]
  PROVE  parseIRCv3(msg) = Parsed(list, After(msg, " "))
<1> DEFINE body == After(msg, " ")
           tags == [ok |-> TRUE, list |-> list]
<1>1. parseIRCv3(msg) = ParsedFrom(TRUE, tags, body, msg)
      BY ParsedAny
<1>2. tags.ok = TRUE /\ tags.list = list
      OBVIOUS
<1> HIDE DEF body, tags
<1>3. ParsedFrom(TRUE, tags, body, msg) = Parsed(list, body)
      BY <1>2 DEF ParsedFrom, Parsed
<1>4. QED BY <1>1, <1>3 DEF body

(* The characters the parser looks for, among the tokens. *)
Marks(T) == {Space, Colon, Equals, Semicolon, At} \subseteq T

(* The characters the parser looks for differ from each other. *)
LEMMA MarksDiffer ==
  ASSUME NEW T, Marks(T)
  PROVE  /\ Space \in T /\ Colon \in T /\ At \in T
         /\ Equals \in T \ {Space} /\ Semicolon \in T \ {Space} /\ At # Space /\ Colon # Space
<1>1. Equals # Space /\ Semicolon # Space /\ At # Space /\ Colon # Space
      BY DEF Equals, Semicolon, At, Space, Colon
<1>2. QED BY <1>1 DEF Marks

(* A sequence over the tokens but c is free of c. *)
LEMMA FreeWithout ==
  ASSUME NEW T, NEW c, NEW w \in Seq(T \ {c})
  PROVE  w \in Seq(T) /\ Free(w, c)
<1>1. w \in Seq(T)
      BY SeqMonotonic
<1>2. \A i \in 1..Len(w) : w[i] \in T \ {c}
      BY ElementOfSeq
<1>3. QED BY <1>1, <1>2 DEF Free

(* One more token that is not c leaves it so. *)
LEMMA FreeCons ==
  ASSUME NEW T, NEW w \in Seq(T), NEW x \in T, NEW c, x # c, Free(w, c)
  PROVE  Free(<<x>> \o w, c)
<1> DEFINE s == <<x>> \o w
<1>1. <<x>> \in Seq(T) /\ Len(<<x>>) = 1 /\ <<x>>[1] = x
      OBVIOUS
<1>2. /\ Len(w) \in Nat /\ Len(s) = 1 + Len(w)
      /\ s[1] = x /\ \A i \in 1..Len(w) : s[1 + i] = w[i]
  <2>1. /\ Len(w) \in Nat
        /\ Len(<<x>> \o w) = Len(<<x>>) + Len(w)
        /\ \A i \in 1..Len(<<x>>) : (<<x>> \o w)[i] = <<x>>[i]
        /\ \A i \in 1..Len(w) : (<<x>> \o w)[Len(<<x>>) + i] = w[i]
        BY <1>1, ConcatHalves
  <2>2. QED BY <1>1, <2>1
<1> HIDE DEF s
<1>3. ASSUME NEW i \in 1..Len(s)
      PROVE  s[i] # c
  <2>1. CASE i = 1
        BY <2>1, <1>2
  <2>2. CASE i # 1
    <3>1. i - 1 \in 1..Len(w) /\ 1 + (i - 1) = i
          BY <2>2, <1>2
    <3>2. s[i] = w[i - 1]
          BY <3>1, <1>2
    <3>3. QED BY <3>1, <3>2 DEF Free
  <2>3. QED BY <2>1, <2>2
<1>4. QED BY <1>3 DEF Free, s

(* A line that a command starts. *)
Body(T, line) == line \in Seq(T) /\ line # <<>> /\ line[1] # "@"

(* Tags do not disturb the line after them, and come back as they were.    *)
LEMMA TagsStripped ==
  ASSUME NEW T, Marks(T), NEW tags, Tags(T \ {Space}, tags), NEW line, Body(T, line)
  PROVE  parseIRCv3(Tagged(tags, line)) = Parsed(tags, line)
<1>1. CASE tags = <<>>
  <2>1. Tagged(tags, line) = line
        BY <1>1 DEF Tagged
  <2>2. parseIRCv3(line) = Parsed(<<>>, line)
        BY ParsedBare DEF Body
  <2>3. QED BY <2>1, <2>2, <1>1
<1>2. CASE tags # <<>>
  <2> DEFINE S == T \ {Space}
             all == FlattenSeq(Written(tags))
             w == <<At>> \o all
             msg == w \o (<<Space>> \o line)
  <2>1. Equals \in S /\ Semicolon \in S
        BY MarksDiffer
  <2>2. 1 \in 1..Len(tags)
    <3>1. tags \in Seq([key : Seq(S), value : Seq(S)])
          BY DEF Tags, TagsOf
    <3>2. Len(tags) \in Nat /\ Len(tags) # 0
          BY <3>1, <1>2, LenProperties, EmptySeq
    <3>3. QED BY <3>2
  <2>3. parseTags(all) = [ok |-> TRUE, list |-> tags]
    <3> HIDE DEF S
    <3>1. QED BY <2>1, <2>2, TagsRead DEF S
  <2>4. all \in Seq(S)
    <3>1. Placed(S, tags, 1)
      <4> HIDE DEF S
      <4>1. QED BY <2>1, <2>2, WrittenAt DEF S
    <3>2. QED BY <3>1 DEF Placed
  <2> HIDE DEF all
  <2>5. all \in Seq(T) /\ Free(all, Space)
        BY <2>4, FreeWithout
  <2>6. Space \in T /\ At \in T /\ At # Space
        BY MarksDiffer
  <2>7. w \in Seq(T) /\ w # <<>> /\ w[1] = At /\ Tail(w) = all /\ Free(w, Space)
        BY <2>5, <2>6, ConsTail, FreeCons
  <2>8. line \in Seq(T)
        BY DEF Body
  <2>9. Tagged(tags, line) = msg
    <3>1. Tagged(tags, line) = <<"@">> \o all \o <<" ">> \o line
          BY <1>2 DEF Tagged, all, Written, OneTag
    <3>2. Tagged(tags, line) = (w \o <<Space>>) \o line
          BY <3>1, Zenon DEF At, Space
    <3> HIDE DEF w
    <3>3. <<Space>> \in Seq(T)
          BY <2>6
    <3>4. (w \o <<Space>>) \o line = w \o (<<Space>> \o line)
          BY <3>3, <2>7, <2>8, ConcatAssociative
    <3>5. QED BY <3>2, <3>4
  <2> HIDE DEF w
  <2>10. /\ msg \in Seq(T) /\ msg # <<>> /\ Len(w) \in Nat
         /\ \A i \in 1..Len(w) : msg[i] = w[i]
         BY <2>6, <2>7, <2>8, SplitAt
  <2>11. Index(msg, Space) = Len(w) + 1 /\ Before(msg, Space) = w /\ After(msg, Space) = line
         BY <2>6, <2>7, <2>8, SplitFound
  <2> HIDE DEF msg
  <2>12. msg[1] = At /\ Index(msg, Space) # 0
    <3>1. 1 \in 1..Len(w)
          BY <2>7, <2>10, EmptySeq
    <3>2. QED BY <3>1, <2>7, <2>10, <2>11
  <2>13. parseTags(Tail(Before(msg, Space))) = [ok |-> TRUE, list |-> tags]
         BY <2>3, <2>7, <2>11
  <2>14. parseIRCv3(msg) = Parsed(tags, After(msg, Space))
         BY <2>10, <2>12, <2>13, ParsedTagged DEF Space, At
  <2>15. QED BY <2>9, <2>11, <2>14
<1>3. QED BY <1>1, <1>2

(* A line that parses. *)
ParsedAs(tags, prefix, name, args) ==
  [ok |-> TRUE, tags |-> tags, prefix |-> prefix, name |-> name, args |-> args]

(* The first space of a line is the one after its first word. *)
LEMMA SplitWord ==
  ASSUME NEW T, Marks(T), NEW w \in Seq(T), Free(w, Space), NEW r \in Seq(T)
  PROVE  /\ w \o (<<Space>> \o r) \in Seq(T) /\ w \o (<<Space>> \o r) # <<>>
         /\ Index(w \o (<<Space>> \o r), " ") # 0
         /\ Before(w \o (<<Space>> \o r), " ") = w /\ After(w \o (<<Space>> \o r), " ") = r
<1> DEFINE s == w \o (<<Space>> \o r)
<1>1. Space \in T
      BY MarksDiffer
<1>2. s \in Seq(T) /\ s # <<>> /\ Len(w) \in Nat
      BY <1>1, SplitAt
<1>3. Index(s, Space) = Len(w) + 1 /\ Before(s, Space) = w /\ After(s, Space) = r
      BY <1>1, SplitFound
<1> HIDE DEF s
<1>4. Index(s, Space) # 0
      BY <1>2, <1>3
<1>5. QED BY <1>2, <1>3, <1>4 DEF s, Space

(* A line starts as its first word does. *)
LEMMA FirstOfWord ==
  ASSUME NEW T, Marks(T), NEW w \in Seq(T), w # <<>>, NEW r \in Seq(T)
  PROVE  (w \o (<<Space>> \o r))[1] = w[1]
<1>1. Space \in T
      BY MarksDiffer
<1>2. 1 \in 1..Len(w)
      BY LenProperties, EmptySeq
<1>3. \A i \in 1..Len(w) : (w \o (<<Space>> \o r))[i] = w[i]
      BY <1>1, SplitAt
<1>4. QED BY <1>2, <1>3

(* A command and its arguments. *)
LEMMA ParsedCommand ==
  ASSUME NEW T, Marks(T), NEW cmd \in Seq(T), Word(cmd), NEW a \in Seq(T), a # <<>>, NEW tags
  PROVE  Parsed(tags, cmd \o (<<Space>> \o a)) = ParsedAs(tags, <<>>, cmd, arguments(a))
<1> DEFINE body == cmd \o (<<Space>> \o a)
<1>1. Free(cmd, Space) /\ cmd # <<>> /\ cmd[1] # ":"
      BY DEF Word, Space
<1>2. /\ body # <<>> /\ Index(body, " ") # 0
      /\ Before(body, " ") = cmd /\ After(body, " ") = a
      BY <1>1, SplitWord
<1>3. body[1] # ":"
      BY <1>1, FirstOfWord
<1> HIDE DEF body
<1>4. Parsed(tags, body) = ParsedAs(tags, <<>>, cmd, arguments(a))
      BY <1>2, <1>3 DEF Parsed, ParsedAs
<1>5. QED BY <1>4 DEF body

(* A prefix before them. *)
LEMMA ParsedPrefix ==
  ASSUME NEW T, Marks(T), NEW pre \in Seq(T), Free(pre, Space),
         NEW cmd \in Seq(T), Word(cmd), NEW a \in Seq(T), a # <<>>, NEW tags
  PROVE  LET body == (<<Colon>> \o pre) \o (<<Space>> \o (cmd \o (<<Space>> \o a)))
         IN /\ Parsed(tags, body) = ParsedAs(tags, pre, cmd, arguments(a))
            /\ Body(T, body)
<1> DEFINE command == cmd \o (<<Space>> \o a)
           w == <<Colon>> \o pre
           body == w \o (<<Space>> \o command)
<1>1. Free(cmd, Space) /\ cmd # <<>> /\ cmd[1] # ":"
      BY DEF Word, Space
<1>2. /\ command \in Seq(T) /\ command # <<>> /\ Index(command, " ") # 0
      /\ Before(command, " ") = cmd /\ After(command, " ") = a
      BY <1>1, SplitWord
<1>3. Colon \in T /\ Colon # Space
      BY MarksDiffer
<1>4. w \in Seq(T) /\ w # <<>> /\ w[1] = Colon /\ Tail(w) = pre
      BY <1>3, ConsTail
<1>5. Free(w, Space)
      BY <1>3, FreeCons
<1> HIDE DEF command, w
<1>6. /\ body \in Seq(T) /\ body # <<>> /\ Index(body, " ") # 0
      /\ Before(body, " ") = w /\ After(body, " ") = command
      BY <1>2, <1>4, <1>5, SplitWord
<1>7. body[1] = Colon
  <2>1. \A r \in Seq(T) : (w \o (<<Space>> \o r))[1] = w[1]
        BY <1>4, FirstOfWord
  <2>2. QED BY <2>1, <1>2, <1>4
<1> HIDE DEF body
<1>8. Parsed(tags, body) = ParsedAs(tags, pre, cmd, arguments(a))
      BY <1>2, <1>4, <1>6, <1>7 DEF Parsed, ParsedAs, Colon
<1>9. Body(T, body)
      BY <1>6, <1>7 DEF Body, Colon
<1>10. QED BY <1>8, <1>9 DEF body, w, command

(* The tokens of the lines. *)
Tokens ==
  STRING \cup {" ", ":", "@", "=", ";", "!", "#", "*", ">", "me", "me.tmi.twitch.tv",
               "tmi.twitch.tv", "twitch.tv/tags", "channel", "bob", "PING", "CAP", "ACK",
               "NAK", "376", "001", "NOTICE", "Login", "authentication", "failed", "Improperly",
               "formatted", "auth", "JOIN", "Welcome", "USERSTATE", "slow", "PRIVMSG"}

(* They hold the characters the parser looks for. *)
LEMMA TokensMarks == Marks(Tokens)
BY DEF Marks, Tokens, Space, Colon, Equals, Semicolon, At

(* One token that is neither a colon nor a space is a word. *)
LEMMA OneWord ==
  ASSUME NEW x, x # ":", x # " "
  PROVE  Word(<<x>>) /\ Free(<<x>>, Space)
<1>1. <<x>>[1] = x /\ <<x>> # <<>> /\ \A i \in 1..Len(<<x>>) : i = 1
      BY OneToken, Zenon
<1>2. Free(<<x>>, " ")
      BY <1>1, Zenon DEF Free
<1>3. QED BY <1>1, <1>2, Zenon DEF Word, Space

(* Sequences of tokens, cut into words. *)
LEMMA ServerName ==
  /\ <<"tmi.twitch.tv">> \in Seq(Tokens) /\ Free(<<"tmi.twitch.tv">>, Space)
  /\ <<":", "tmi.twitch.tv", Space>> = (<<":">> \o <<"tmi.twitch.tv">>) \o <<Space>>
<1>1. "tmi.twitch.tv" \in Tokens /\ "tmi.twitch.tv" # ":" /\ "tmi.twitch.tv" # " "
      BY DEF Tokens
<1>2. \A x \in Tokens : <<x>> \in Seq(Tokens)
      OBVIOUS
<1>3. <<":", "tmi.twitch.tv", Space>> = (<<":">> \o <<"tmi.twitch.tv">>) \o <<Space>>
  <2>1. <<":", "tmi.twitch.tv">> = <<":">> \o <<"tmi.twitch.tv">>
        OBVIOUS
  <2>2. <<":", "tmi.twitch.tv", Space>> = <<":", "tmi.twitch.tv">> \o <<Space>>
        OBVIOUS
  <2>3. QED BY <2>1, <2>2
<1>4. QED BY <1>1, <1>2, <1>3, OneWord

(* A line of the server: its name, a command of one word and arguments. *)
LEMMA ServerLine ==
  ASSUME NEW cmd \in Seq(Tokens), Word(cmd), NEW a \in Seq(Tokens), a # <<>>,
         NEW tags, Tags(Tokens \ {Space}, tags)
  PROVE  parseIRCv3(Tagged(tags, FromServer(cmd \o (<<Space>> \o a)))) =
           ParsedAs(tags, <<"tmi.twitch.tv">>, cmd, arguments(a))
<1> DEFINE line == cmd \o (<<Space>> \o a)
           pre == <<"tmi.twitch.tv">>
           w == <<Colon>> \o pre
           body == w \o (<<Space>> \o line)
<1>1. pre \in Seq(Tokens) /\ Free(pre, Space)
      BY ServerName
<1>2. Parsed(tags, body) = ParsedAs(tags, pre, cmd, arguments(a)) /\ Body(Tokens, body)
  <2> HIDE DEF pre
  <2>1. QED BY <1>1, TokensMarks, ParsedPrefix
<1>3. FromServer(line) = body
  <2>1. line \in Seq(Tokens)
        BY TokensMarks, SplitWord DEF Word, Space
  <2>2. <<Colon>> \in Seq(Tokens) /\ <<Space>> \in Seq(Tokens) /\ w \in Seq(Tokens)
        BY <1>1, TokensMarks, MarksDiffer, ConsTail
  <2>4. FromServer(line) = (w \o <<Space>>) \o line
        BY ServerName, Zenon DEF FromServer, Colon, Space
  <2> HIDE DEF line, w
  <2>5. (w \o <<Space>>) \o line = w \o (<<Space>> \o line)
        BY <2>1, <2>2, ConcatAssociative
  <2>6. QED BY <2>4, <2>5
<1> HIDE DEF body
<1>4. parseIRCv3(Tagged(tags, body)) = Parsed(tags, body)
      BY <1>2, TokensMarks, TagsStripped
<1>5. QED BY <1>2, <1>3, <1>4

(* A line of a user. *)
LEMMA UserLine ==
  ASSUME NEW pre \in Seq(Tokens), Free(pre, Space),
         NEW cmd \in Seq(Tokens), Word(cmd), NEW a \in Seq(Tokens), a # <<>>,
         NEW tags, Tags(Tokens \ {Space}, tags)
  PROVE  parseIRCv3(Tagged(tags, (<<Colon>> \o pre) \o (<<Space>> \o (cmd \o (<<Space>> \o a))))) =
           ParsedAs(tags, pre, cmd, arguments(a))
<1> DEFINE body == (<<Colon>> \o pre) \o (<<Space>> \o (cmd \o (<<Space>> \o a)))
<1>1. Parsed(tags, body) = ParsedAs(tags, pre, cmd, arguments(a)) /\ Body(Tokens, body)
      BY TokensMarks, ParsedPrefix
<1> HIDE DEF body
<1>2. parseIRCv3(Tagged(tags, body)) = Parsed(tags, body)
      BY <1>1, TokensMarks, TagsStripped
<1>3. QED BY <1>1, <1>2 DEF body

(* A line without a prefix. *)
LEMMA BareLine ==
  ASSUME NEW cmd \in Seq(Tokens), Word(cmd), cmd[1] # "@", NEW a \in Seq(Tokens), a # <<>>,
         NEW tags, Tags(Tokens \ {Space}, tags)
  PROVE  parseIRCv3(Tagged(tags, cmd \o (<<Space>> \o a))) = ParsedAs(tags, <<>>, cmd, arguments(a))
<1> DEFINE body == cmd \o (<<Space>> \o a)
<1>0. Free(cmd, Space) /\ cmd # <<>>
      BY DEF Word, Space
<1>1. Parsed(tags, body) = ParsedAs(tags, <<>>, cmd, arguments(a))
      BY TokensMarks, ParsedCommand
<1>2. body \in Seq(Tokens) /\ body # <<>> /\ body[1] = cmd[1]
      BY <1>0, TokensMarks, SplitWord, FirstOfWord
<1> HIDE DEF body
<1>3. Body(Tokens, body)
      BY <1>2 DEF Body
<1>4. parseIRCv3(Tagged(tags, body)) = Parsed(tags, body)
      BY <1>3, TokensMarks, TagsStripped
<1>5. QED BY <1>1, <1>4 DEF body

(* A word and a trailer are two arguments. *)
LEMMA ArgumentsTwo ==
  ASSUME NEW x \in Seq(Tokens), Word(x), NEW t \in Seq(Tokens)
  PROVE  /\ arguments(x \o (<<Space>> \o (<<Colon>> \o t))) = <<x, t>>
         /\ x \o (<<Space>> \o (<<Colon>> \o t)) \in Seq(Tokens)
         /\ x \o (<<Space>> \o (<<Colon>> \o t)) # <<>>
<1> DEFINE r == <<Colon>> \o t
<1>1. Space \in Tokens /\ Colon \in Tokens
      BY TokensMarks, MarksDiffer
<1>2. r \in Seq(Tokens) /\ arguments(r) = <<t>>
      BY <1>1, ConsTail, ArgumentsTrailer
<1> HIDE DEF r
<1>3. arguments(x \o (<<Space>> \o r)) = <<x>> \o arguments(r)
      BY <1>1, <1>2, ArgumentsMore
<1>4. x \o (<<Space>> \o r) \in Seq(Tokens) /\ x \o (<<Space>> \o r) # <<>>
      BY <1>2, TokensMarks, SplitWord DEF Word, Space
<1>5. <<x, t>> = <<x>> \o <<t>>
      OBVIOUS
<1>6. QED BY <1>2, <1>3, <1>4, <1>5 DEF r

(* Two words and a trailer are three. *)
LEMMA ArgumentsThree ==
  ASSUME NEW x \in Seq(Tokens), Word(x), NEW y \in Seq(Tokens), Word(y), NEW t \in Seq(Tokens)
  PROVE  LET s == x \o (<<Space>> \o (y \o (<<Space>> \o (<<Colon>> \o t))))
         IN arguments(s) = <<x, y, t>> /\ s \in Seq(Tokens) /\ s # <<>>
<1> DEFINE r == y \o (<<Space>> \o (<<Colon>> \o t))
<1>1. Space \in Tokens
      BY TokensMarks, MarksDiffer
<1>2. r \in Seq(Tokens) /\ arguments(r) = <<y, t>>
      BY ArgumentsTwo
<1> HIDE DEF r
<1>3. arguments(x \o (<<Space>> \o r)) = <<x>> \o arguments(r)
      BY <1>1, <1>2, ArgumentsMore
<1>4. x \o (<<Space>> \o r) \in Seq(Tokens) /\ x \o (<<Space>> \o r) # <<>>
      BY <1>2, TokensMarks, SplitWord DEF Word, Space
<1>5. <<x, y, t>> = <<x>> \o <<y, t>>
      OBVIOUS
<1>6. QED BY <1>2, <1>3, <1>4, <1>5 DEF r

(* Tokens that are words of their own. *)
Plain ==
  {"*", ">", "me", "PING", "CAP", "ACK", "NAK", "376", "001", "NOTICE", "JOIN", "USERSTATE",
   "PRIVMSG", "tmi.twitch.tv", "twitch.tv/tags", "Welcome", "slow", "channel"}

(* Each of them is a word. *)
LEMMA PlainWord ==
  \A x \in Plain : /\ <<x>> \in Seq(Tokens) /\ Word(<<x>>)
                   /\ <<x>> # <<>> /\ <<x>>[1] = x /\ x # "@"
<1> SUFFICES ASSUME NEW x \in Plain
             PROVE  /\ <<x>> \in Seq(Tokens) /\ Word(<<x>>)
                    /\ <<x>> # <<>> /\ <<x>>[1] = x /\ x # "@"
    OBVIOUS
<1>1. x \in Tokens /\ x # ":" /\ x # " " /\ x # "@"
      BY DEF Plain, Tokens
<1>2. \A y \in Tokens : <<y>> \in Seq(Tokens)
      OBVIOUS
<1>3. QED BY <1>1, <1>2, OneWord, OneToken, Zenon

(* The lines of the server, cut into words. *)
LEMMA Cuts ==
  /\ <<"PING", Space, ":", "tmi.twitch.tv">> =
         <<"PING">> \o (<<Space>> \o (<<":">> \o <<"tmi.twitch.tv">>))
  /\ <<"CAP", Space, "*", Space, "ACK", Space, ":", "twitch.tv/tags">> =
       <<"CAP">> \o (<<Space>> \o (<<"*">> \o (<<Space>> \o (<<"ACK">> \o (<<Space>> \o (<<":">> \o
           <<"twitch.tv/tags">>))))))
  /\ <<"CAP", Space, "*", Space, "NAK", Space, ":", "twitch.tv/tags">> =
       <<"CAP">> \o (<<Space>> \o (<<"*">> \o (<<Space>> \o (<<"NAK">> \o (<<Space>> \o (<<":">> \o
           <<"twitch.tv/tags">>))))))
  /\ <<"376", Space, "me", Space, ":", ">">> =
       <<"376">> \o (<<Space>> \o (<<"me">> \o (<<Space>> \o (<<":">> \o <<">">>))))
  /\ <<"001", Space, "me", Space, ":", "Welcome">> =
       <<"001">> \o (<<Space>> \o (<<"me">> \o (<<Space>> \o (<<":">> \o <<"Welcome">>))))
  /\ <<"NOTICE", Space, "*", Space, ":", "Login", Space, "authentication", Space, "failed">> =
       <<"NOTICE">> \o (<<Space>> \o (<<"*">> \o (<<Space>> \o (<<":">> \o <<"Login", Space,
           "authentication", Space, "failed">>))))
  /\ <<"NOTICE", Space, "*", Space, ":", "Improperly", Space, "formatted", Space, "auth">> =
       <<"NOTICE">> \o (<<Space>> \o (<<"*">> \o (<<Space>> \o (<<":">> \o <<"Improperly", Space,
           "formatted", Space, "auth">>))))
<1>1. <<"PING", Space, ":", "tmi.twitch.tv">> =
          <<"PING">> \o (<<Space>> \o (<<":">> \o <<"tmi.twitch.tv">>))
      OBVIOUS
<1>2. <<"CAP", Space, "*", Space, "ACK", Space, ":", "twitch.tv/tags">> =
       <<"CAP">> \o (<<Space>> \o (<<"*">> \o (<<Space>> \o (<<"ACK">> \o (<<Space>> \o (<<":">> \o
           <<"twitch.tv/tags">>))))))
      OBVIOUS
<1>3. <<"CAP", Space, "*", Space, "NAK", Space, ":", "twitch.tv/tags">> =
       <<"CAP">> \o (<<Space>> \o (<<"*">> \o (<<Space>> \o (<<"NAK">> \o (<<Space>> \o (<<":">> \o
           <<"twitch.tv/tags">>))))))
      OBVIOUS
<1>4. <<"376", Space, "me", Space, ":", ">">> =
       <<"376">> \o (<<Space>> \o (<<"me">> \o (<<Space>> \o (<<":">> \o <<">">>))))
      OBVIOUS
<1>5. <<"001", Space, "me", Space, ":", "Welcome">> =
       <<"001">> \o (<<Space>> \o (<<"me">> \o (<<Space>> \o (<<":">> \o <<"Welcome">>))))
      OBVIOUS
<1>6. <<"NOTICE", Space, "*", Space, ":", "Login", Space, "authentication", Space, "failed">> =
       <<"NOTICE">> \o (<<Space>> \o (<<"*">> \o (<<Space>> \o (<<":">> \o <<"Login", Space,
           "authentication", Space, "failed">>))))
      OBVIOUS
<1>7. <<"NOTICE", Space, "*", Space, ":", "Improperly", Space, "formatted", Space, "auth">> =
       <<"NOTICE">> \o (<<Space>> \o (<<"*">> \o (<<Space>> \o (<<":">> \o <<"Improperly", Space,
           "formatted", Space, "auth">>))))
      OBVIOUS
<1>8. QED BY <1>1, <1>2, <1>3, <1>4, <1>5, <1>6, <1>7, Zenon

Bob  == <<"bob", "!", "bob">>
Hash == <<"#", "channel">>

(* The tokens of names are no separators. *)
LEMMA NameTokens ==
  /\ {"me", "!", "@", "me.tmi.twitch.tv", "bob", "#", "channel", Colon, Space} \subseteq Tokens
  /\ \A x \in {"me", "!", "@", "me.tmi.twitch.tv", "bob", "#", "channel"} : x # Space
<1>1. \A x \in {"me", "!", "@", "me.tmi.twitch.tv", "bob", "#", "channel"} : x # Space
      BY Zenon DEF Space
<1>2. {"me", "!", "@", "me.tmi.twitch.tv", "bob", "#", "channel", Colon, Space} \subseteq Tokens
      BY Zenon DEF Tokens, Space, Colon
<1>3. QED BY <1>1, <1>2

(* A name grows by a token. *)
LEMMA Grow ==
  ASSUME NEW w, w \in Seq(Tokens) /\ Free(w, Space), NEW x \in Tokens, x # Space
  PROVE  <<x>> \o w \in Seq(Tokens) /\ Free(<<x>> \o w, Space)
BY ConsTail, FreeCons

(* No name holds a space. *)
LEMMA NamesFree ==
  /\ Me \in Seq(Tokens) /\ Free(Me, Space)
  /\ Bob \in Seq(Tokens) /\ Free(Bob, Space)
  /\ Hash \in Seq(Tokens) /\ Word(Hash) /\ Hash # <<>>
<1> DEFINE G(w) == w \in Seq(Tokens) /\ Free(w, Space)
<1>0. \A x \in {"me", "!", "@", "me.tmi.twitch.tv", "bob", "#",
          "channel"} : x \in Tokens /\ x # Space
      BY NameTokens, Zenon
<1>1. \A x \in {"me.tmi.twitch.tv", "bob", "channel"} : G(<<x>>)
  <2>1. \A x \in Tokens : <<x>> \in Seq(Tokens)
        OBVIOUS
  <2>2. \A x \in {"me.tmi.twitch.tv", "bob", "channel"} : x # ":" /\ x # " "
        BY Zenon
  <2>3. QED BY <2>1, <2>2, <1>0, OneWord, Zenon
<1>2. \A w : \A x \in {"me", "!", "@", "bob", "#"} : G(w) => G(<<x>> \o w)
      BY <1>0, Grow, Zenon
<1> HIDE DEF G
<1>3. G(<<"@">> \o <<"me.tmi.twitch.tv">>) /\ G(<<"!">> \o <<"bob">>) /\ G(<<"#">> \o <<"channel">>)
      BY <1>1, <1>2, Zenon
<1>4. G(<<"me">> \o (<<"@">> \o <<"me.tmi.twitch.tv">>)) /\ G(<<"bob">> \o (<<"!">> \o <<"bob">>))
      BY <1>3, <1>2, Zenon
<1>5. G(<<"!">> \o (<<"me">> \o (<<"@">> \o <<"me.tmi.twitch.tv">>)))
      BY <1>4, <1>2, Zenon
<1>6. G(<<"me">> \o (<<"!">> \o (<<"me">> \o (<<"@">> \o <<"me.tmi.twitch.tv">>))))
      BY <1>5, <1>2, Zenon
<1>7. /\ <<"me", "!", "me", "@", "me.tmi.twitch.tv">> =
           <<"me">> \o (<<"!">> \o (<<"me">> \o (<<"@">> \o <<"me.tmi.twitch.tv">>)))
      /\ <<"bob", "!", "bob">> = <<"bob">> \o (<<"!">> \o <<"bob">>)
      /\ <<"#", "channel">> = <<"#">> \o <<"channel">>
      OBVIOUS
<1>8. G(Me) /\ G(Bob) /\ G(Hash)
      BY <1>3, <1>4, <1>6, <1>7, Zenon DEF Me, Bob, Hash
<1>9. Hash # <<>> /\ Hash[1] # ":"
  <2>1. <<"#", "channel">> # <<>> /\ <<"#", "channel">>[1] = "#"
        OBVIOUS
  <2>2. "#" # ":"
        BY Zenon
  <2>3. QED BY <2>1, <2>2, Zenon DEF Hash
<1>10. QED BY <1>8, <1>9, Zenon DEF G, Word, Space

(* The lines with the name of a channel or a user, cut into words. *)
LEMMA NameCuts ==
  /\ <<"USERSTATE", Space, "#">> \o Channel = <<"USERSTATE">> \o (<<Space>> \o Hash)
  /\ <<"NOTICE", Space, "#">> \o Channel \o <<Space, ":", "slow">> =
       <<"NOTICE">> \o (<<Space>> \o (Hash \o (<<Space>> \o (<<":">> \o <<"slow">>))))
  /\ <<Space, "JOIN", Space, "#">> \o Channel = <<Space>> \o (<<"JOIN">> \o (<<Space>> \o Hash))
  /\ <<":", "bob", "!", "bob", Space, "JOIN", Space, "#">> \o Channel =
       (<<":">> \o Bob) \o (<<Space>> \o (<<"JOIN">> \o (<<Space>> \o Hash)))
  /\ <<":", "bob", "!", "bob", Space, "PRIVMSG", Space, "#">> \o Channel =
       (<<":">> \o Bob) \o (<<Space>> \o (<<"PRIVMSG">> \o (<<Space>> \o Hash)))
<1>1. <<"USERSTATE", Space, "#">> \o Channel = <<"USERSTATE">> \o (<<Space>> \o Hash)
  <2>1. <<"USERSTATE", Space, "#", "channel">> = <<"USERSTATE", Space, "#">> \o <<"channel">>
        OBVIOUS
  <2>2. <<"USERSTATE", Space, "#", "channel">> =
            <<"USERSTATE">> \o (<<Space>> \o <<"#", "channel">>)
        OBVIOUS
  <2>3. QED BY <2>1, <2>2, Zenon DEF Hash, Channel
<1>2. <<"NOTICE", Space, "#">> \o Channel \o <<Space, ":", "slow">> =
       <<"NOTICE">> \o (<<Space>> \o (Hash \o (<<Space>> \o (<<":">> \o <<"slow">>))))
  <2>1. <<"NOTICE", Space, "#", "channel">> = <<"NOTICE", Space, "#">> \o <<"channel">>
        OBVIOUS
  <2>2. <<"NOTICE", Space, "#", "channel", Space, ":", "slow">> =
          <<"NOTICE", Space, "#", "channel">> \o <<Space, ":", "slow">>
        OBVIOUS
  <2>3. <<"NOTICE", Space, "#", "channel", Space, ":", "slow">> =
          <<"NOTICE">> \o (<<Space>> \o (<<"#",
              "channel">> \o (<<Space>> \o (<<":">> \o <<"slow">>))))
        OBVIOUS
  <2>4. QED BY <2>1, <2>2, <2>3, Zenon DEF Hash, Channel
<1>3. <<Space, "JOIN", Space, "#">> \o Channel = <<Space>> \o (<<"JOIN">> \o (<<Space>> \o Hash))
  <2>1. <<Space, "JOIN", Space, "#", "channel">> = <<Space, "JOIN", Space, "#">> \o <<"channel">>
        OBVIOUS
  <2>2. <<Space, "JOIN", Space, "#", "channel">> =
          <<Space>> \o (<<"JOIN">> \o (<<Space>> \o <<"#", "channel">>))
        OBVIOUS
  <2>3. QED BY <2>1, <2>2, Zenon DEF Hash, Channel
<1>4. <<":", "bob", "!", "bob">> = <<":">> \o <<"bob", "!", "bob">>
      OBVIOUS
<1>5. <<":", "bob", "!", "bob", Space, "JOIN", Space, "#">> \o Channel =
       (<<":">> \o Bob) \o (<<Space>> \o (<<"JOIN">> \o (<<Space>> \o Hash)))
  <2>1. <<":", "bob", "!", "bob", Space, "JOIN", Space, "#", "channel">> =
          <<":", "bob", "!", "bob", Space, "JOIN", Space, "#">> \o <<"channel">>
        OBVIOUS
  <2>2. <<":", "bob", "!", "bob", Space, "JOIN", Space, "#", "channel">> =
          <<":", "bob", "!", "bob">> \o (<<Space>> \o (<<"JOIN">> \o (<<Space>> \o <<"#",
              "channel">>)))
        OBVIOUS
  <2>3. QED BY <2>1, <2>2, <1>4, Zenon DEF Hash, Channel, Bob
<1>6. <<":", "bob", "!", "bob", Space, "PRIVMSG", Space, "#">> \o Channel =
       (<<":">> \o Bob) \o (<<Space>> \o (<<"PRIVMSG">> \o (<<Space>> \o Hash)))
  <2>1. <<":", "bob", "!", "bob", Space, "PRIVMSG", Space, "#", "channel">> =
          <<":", "bob", "!", "bob", Space, "PRIVMSG", Space, "#">> \o <<"channel">>
        OBVIOUS
  <2>2. <<":", "bob", "!", "bob", Space, "PRIVMSG", Space, "#", "channel">> =
          <<":", "bob", "!", "bob">> \o (<<Space>> \o (<<"PRIVMSG">> \o (<<Space>> \o <<"#",
              "channel">>)))
        OBVIOUS
  <2>3. QED BY <2>1, <2>2, <1>4, Zenon DEF Hash, Channel, Bob
<1>7. QED BY <1>1, <1>2, <1>3, <1>5, <1>6, Zenon

Srv      == <<"tmi.twitch.tv">>
Login    == <<"Login", Space, "authentication", Space, "failed">>
Malformed == <<"Improperly", Space, "formatted", Space, "auth">>

(* The trailers of the two notices are made of tokens. *)
LEMMA TrailerTokens == Login \in Seq(Tokens) /\ Malformed \in Seq(Tokens)
<1>1. /\ "Login" \in Tokens /\ "authentication" \in Tokens /\ "failed" \in Tokens
      /\ "Improperly" \in Tokens /\ "formatted" \in Tokens /\ "auth" \in Tokens /\ Space \in Tokens
      BY Zenon DEF Tokens, Space
<1>2. \A S : \A a, b, c, d, e \in S : <<a, b, c, d, e>> \in Seq(S)
      OBVIOUS
<1>3. QED BY <1>1, <1>2, Zenon DEF Login, Malformed

(* The parser takes a server line for the name and the arguments given. *)
ServerSays(tags, line, name, args) ==
  parseIRCv3(Tagged(tags, FromServer(line))) = ParsedAs(tags, Srv, name, args)

TwoWords(c, x, t) == <<c>> \o (<<Space>> \o (<<x>> \o (<<Space>> \o (<<Colon>> \o t))))
ThreeWords(c, x, y, t) ==
  <<c>> \o (<<Space>> \o (<<x>> \o (<<Space>> \o (<<y>> \o (<<Space>> \o (<<Colon>> \o t))))))

(* A server line with a trailer after one or two words. *)
LEMMA ServerTwo ==
  ASSUME NEW c \in Plain, NEW x \in Plain, NEW t \in Seq(Tokens),
         NEW tags, Tags(Tokens \ {Space}, tags)
  PROVE  ServerSays(tags, TwoWords(c, x, t), <<c>>, <<<<x>>, t>>)
<1>1. /\ <<c>> \in Seq(Tokens) /\ Word(<<c>>) /\ <<x>> \in Seq(Tokens) /\ Word(<<x>>)
      BY PlainWord, Zenon
<1> DEFINE a == <<x>> \o (<<Space>> \o (<<Colon>> \o t))
           w == <<x>>
           cmd == <<c>>
<1>2. arguments(a) = <<w, t>> /\ a \in Seq(Tokens) /\ a # <<>>
  <2> HIDE DEF w
  <2>1. QED BY <1>1, ArgumentsTwo DEF w
<1> HIDE DEF a, cmd
<1>3. parseIRCv3(Tagged(tags, FromServer(cmd \o (<<Space>> \o a)))) =
        ParsedAs(tags, <<"tmi.twitch.tv">>, cmd, arguments(a))
  <2>1. cmd \in Seq(Tokens) /\ Word(cmd)
        BY <1>1, Zenon DEF cmd
  <2>2. QED BY <2>1, <1>2, ServerLine
<1>4. QED BY <1>2, <1>3, Zenon DEF a, cmd, Srv, TwoWords, ServerSays

(* The same after two words. *)
LEMMA ServerThree ==
  ASSUME NEW c \in Plain, NEW x \in Plain, NEW y \in Plain, NEW t \in Seq(Tokens),
         NEW tags, Tags(Tokens \ {Space}, tags)
  PROVE  ServerSays(tags, ThreeWords(c, x, y, t), <<c>>, <<<<x>>, <<y>>, t>>)
<1>1. /\ <<c>> \in Seq(Tokens) /\ Word(<<c>>) /\ <<x>> \in Seq(Tokens) /\ Word(<<x>>)
      /\ <<y>> \in Seq(Tokens) /\ Word(<<y>>)
      BY PlainWord, Zenon
<1> DEFINE a == <<x>> \o (<<Space>> \o (<<y>> \o (<<Space>> \o (<<Colon>> \o t))))
           w == <<x>>
           v == <<y>>
           cmd == <<c>>
<1>2. arguments(a) = <<w, v, t>> /\ a \in Seq(Tokens) /\ a # <<>>
  <2> HIDE DEF w, v
  <2>1. LET s == w \o (<<Space>> \o (v \o (<<Space>> \o (<<Colon>> \o t))))
        IN arguments(s) = <<w, v, t>> /\ s \in Seq(Tokens) /\ s # <<>>
    <3>1. w \in Seq(Tokens) /\ Word(w) /\ v \in Seq(Tokens) /\ Word(v)
          BY <1>1, Zenon DEF w, v
    <3>2. QED BY <3>1, ArgumentsThree
  <2>2. QED BY <2>1, Zenon DEF w, v
<1> HIDE DEF a, cmd
<1>3. parseIRCv3(Tagged(tags, FromServer(cmd \o (<<Space>> \o a)))) =
        ParsedAs(tags, <<"tmi.twitch.tv">>, cmd, arguments(a))
  <2>1. cmd \in Seq(Tokens) /\ Word(cmd)
        BY <1>1, Zenon DEF cmd
  <2>2. QED BY <2>1, <1>2, ServerLine
<1>4. QED BY <1>2, <1>3, Zenon DEF a, cmd, Srv, ThreeWords, ServerSays

(* The name of the channel is one argument. *)
LEMMA HashAlone == arguments(Hash) = <<Hash>>
BY NamesFree, ArgumentsLast

(* The server's lines. *)
LEMMA ServerLines ==
  ASSUME NEW tags, Tags(Tokens \ {Space}, tags)
  PROVE  /\ ServerSays(tags, <<"CAP", " ", "*", " ", "ACK", " ", ":", "twitch.tv/tags">>,
                       <<"CAP">>, <<<<"*">>, <<"ACK">>, <<"twitch.tv/tags">>>>)
         /\ ServerSays(tags, <<"CAP", " ", "*", " ", "NAK", " ", ":", "twitch.tv/tags">>,
                       <<"CAP">>, <<<<"*">>, <<"NAK">>, <<"twitch.tv/tags">>>>)
         /\ ServerSays(tags, <<"376", " ", "me", " ", ":", ">">>, <<"376">>, <<<<"me">>, <<">">>>>)
         /\ ServerSays(tags, <<"001", " ", "me", " ", ":", "Welcome">>,
                       <<"001">>, <<<<"me">>, <<"Welcome">>>>)
         /\ ServerSays(tags, <<"NOTICE", " ", "*", " ", ":", "Login", " ", "authentication",
                               " ", "failed">>, <<"NOTICE">>, <<<<"*">>, Login>>)
         /\ ServerSays(tags, <<"NOTICE", " ", "*", " ", ":", "Improperly", " ", "formatted",
                               " ", "auth">>, <<"NOTICE">>, <<<<"*">>, Malformed>>)
         /\ ServerSays(tags, <<"USERSTATE", " ", "#">> \o Channel, <<"USERSTATE">>, <<Hash>>)
         /\ ServerSays(tags, <<"NOTICE", " ", "#">> \o Channel \o <<" ", ":", "slow">>,
                       <<"NOTICE">>, <<Hash, <<"slow">>>>)
<1>0. \A x \in Plain : <<x>> \in Seq(Tokens) /\ Word(<<x>>) /\ <<x>> # <<>>
      BY PlainWord, Zenon
<1>a. /\ "CAP" \in Plain /\ "*" \in Plain /\ "ACK" \in Plain /\ "NAK" \in Plain
      /\ "376" \in Plain /\ "001" \in Plain /\ "me" \in Plain /\ ">" \in Plain
      /\ "Welcome" \in Plain /\ "NOTICE" \in Plain /\ "USERSTATE" \in Plain
      /\ "slow" \in Plain /\ "twitch.tv/tags" \in Plain
      BY Zenon DEF Plain
<1>t. /\ <<"twitch.tv/tags">> \in Seq(Tokens) /\ <<">">> \in Seq(Tokens)
      /\ <<"Welcome">> \in Seq(Tokens) /\ <<"slow">> \in Seq(Tokens)
      BY <1>0, <1>a, Zenon
<1>1. \A c, x \in Plain : \A t \in Seq(Tokens) :
        ServerSays(tags, TwoWords(c, x, t), <<c>>, <<<<x>>, t>>)
      BY ServerTwo, Zenon
<1>2. \A c, x, y \in Plain : \A t \in Seq(Tokens) :
        ServerSays(tags, ThreeWords(c, x, y, t), <<c>>, <<<<x>>, <<y>>, t>>)
      BY ServerThree, Zenon
<1>3. ServerSays(tags, <<"USERSTATE">> \o (<<Space>> \o Hash), <<"USERSTATE">>, <<Hash>>)
  <2> DEFINE c == <<"USERSTATE">>
  <2>1. c \in Seq(Tokens) /\ Word(c) /\ Hash \in Seq(Tokens) /\ Hash # <<>>
        BY <1>0, <1>a, NamesFree, Zenon
  <2> HIDE DEF c
  <2>2. parseIRCv3(Tagged(tags, FromServer(c \o (<<Space>> \o Hash)))) =
          ParsedAs(tags, <<"tmi.twitch.tv">>, c, arguments(Hash))
        BY <2>1, ServerLine
  <2>3. QED BY <2>2, HashAlone, Zenon DEF c, Srv, ServerSays
<1>4. ServerSays(tags, <<"NOTICE">> \o (<<Space>> \o (Hash \o (<<Space>> \o (<<Colon>> \o
          <<"slow">>)))),
                 <<"NOTICE">>, <<Hash, <<"slow">>>>)
  <2> DEFINE c == <<"NOTICE">>
             t == <<"slow">>
             a == Hash \o (<<Space>> \o (<<Colon>> \o t))
  <2>1. c \in Seq(Tokens) /\ Word(c) /\ t \in Seq(Tokens)
        BY <1>0, <1>a, Zenon
  <2> HIDE DEF c, t
  <2>2. arguments(a) = <<Hash, t>> /\ a \in Seq(Tokens) /\ a # <<>>
        BY <2>1, NamesFree, ArgumentsTwo
  <2> HIDE DEF a
  <2>3. parseIRCv3(Tagged(tags, FromServer(c \o (<<Space>> \o a)))) =
          ParsedAs(tags, <<"tmi.twitch.tv">>, c, arguments(a))
        BY <2>1, <2>2, ServerLine
  <2>4. QED BY <2>2, <2>3, Zenon DEF a, c, t, Srv, ServerSays
<1>c1. ServerSays(tags, <<"CAP", Space, "*", Space, "ACK", Space, ":", "twitch.tv/tags">>,
           <<"CAP">>, <<<<"*">>, <<"ACK">>, <<"twitch.tv/tags">>>>)
  <2>1. \A t \in Seq(Tokens) : ServerSays(tags, ThreeWords("CAP", "*", "ACK", t), <<"CAP">>,
            <<<<"*">>, <<"ACK">>, t>>)
        BY <1>a, <1>2, Zenon
  <2>2. ServerSays(tags, ThreeWords("CAP", "*", "ACK", <<"twitch.tv/tags">>), <<"CAP">>, <<<<"*">>,
            <<"ACK">>, <<"twitch.tv/tags">>>>)
        BY <1>t, <2>1, Zenon
  <2>3. QED BY <2>2, Cuts, Zenon DEF Colon, ThreeWords
<1>c2. ServerSays(tags, <<"CAP", Space, "*", Space, "NAK", Space, ":", "twitch.tv/tags">>,
           <<"CAP">>, <<<<"*">>, <<"NAK">>, <<"twitch.tv/tags">>>>)
  <2>1. \A t \in Seq(Tokens) : ServerSays(tags, ThreeWords("CAP", "*", "NAK", t), <<"CAP">>,
            <<<<"*">>, <<"NAK">>, t>>)
        BY <1>a, <1>2, Zenon
  <2>2. ServerSays(tags, ThreeWords("CAP", "*", "NAK", <<"twitch.tv/tags">>), <<"CAP">>, <<<<"*">>,
            <<"NAK">>, <<"twitch.tv/tags">>>>)
        BY <1>t, <2>1, Zenon
  <2>3. QED BY <2>2, Cuts, Zenon DEF Colon, ThreeWords
<1>c3. ServerSays(tags, <<"376", Space, "me", Space, ":", ">">>, <<"376">>, <<<<"me">>, <<">">>>>)
  <2>2. ServerSays(tags, TwoWords("376", "me", <<">">>), <<"376">>, <<<<"me">>, <<">">>>>)
        BY <1>a, <1>t, <1>1, TrailerTokens, Zenon
  <2>3. QED BY <2>2, Cuts, Zenon DEF Colon, TwoWords
<1>c4. ServerSays(tags, <<"001", Space, "me", Space, ":", "Welcome">>, <<"001">>, <<<<"me">>,
           <<"Welcome">>>>)
  <2>2. ServerSays(tags, TwoWords("001", "me", <<"Welcome">>), <<"001">>, <<<<"me">>,
            <<"Welcome">>>>)
        BY <1>a, <1>t, <1>1, TrailerTokens, Zenon
  <2>3. QED BY <2>2, Cuts, Zenon DEF Colon, TwoWords
<1>c5. ServerSays(tags, <<"NOTICE", Space, "*", Space, ":", "Login", Space, "authentication", Space,
           "failed">>, <<"NOTICE">>, <<<<"*">>, Login>>)
  <2>2. ServerSays(tags, TwoWords("NOTICE", "*", Login), <<"NOTICE">>, <<<<"*">>, Login>>)
        BY <1>a, <1>t, <1>1, TrailerTokens, Zenon
  <2>3. QED BY <2>2, Cuts, Zenon DEF Colon, TwoWords, Login
<1>c6. ServerSays(tags, <<"NOTICE", Space, "*", Space, ":", "Improperly", Space, "formatted", Space,
           "auth">>, <<"NOTICE">>, <<<<"*">>, Malformed>>)
  <2>2. ServerSays(tags, TwoWords("NOTICE", "*", Malformed), <<"NOTICE">>, <<<<"*">>, Malformed>>)
        BY <1>a, <1>t, <1>1, TrailerTokens, Zenon
  <2>3. QED BY <2>2, Cuts, Zenon DEF Colon, TwoWords, Malformed
<1>8. /\ ServerSays(tags, <<"USERSTATE", Space, "#">> \o Channel, <<"USERSTATE">>, <<Hash>>)
      /\ ServerSays(tags, <<"NOTICE", Space, "#">> \o Channel \o <<Space, ":", "slow">>,
                    <<"NOTICE">>, <<Hash, <<"slow">>>>)
      BY <1>3, <1>4, NameCuts, Zenon DEF Colon
<1>9. QED BY <1>c1, <1>c2, <1>c3, <1>c4, <1>c5, <1>c6, <1>8, Zenon DEF Space

(* The parser takes a line for the prefix, the name and the arguments given. *)
Says(tags, line, prefix, name, args) ==
  parseIRCv3(Tagged(tags, line)) = ParsedAs(tags, prefix, name, args)

(* PING has one argument, the name of the server. *)
LEMMA PingLine ==
  ASSUME NEW tags, Tags(Tokens \ {Space}, tags)
  PROVE  Says(tags, <<"PING", " ", ":", "tmi.twitch.tv">>, <<>>, <<"PING">>, <<Srv>>)
<1> DEFINE c == <<"PING">>
           t == <<"tmi.twitch.tv">>
           a == <<Colon>> \o t
<1>0. "PING" \in Plain /\ "tmi.twitch.tv" \in Plain
      BY Zenon DEF Plain
<1>1. c \in Seq(Tokens) /\ Word(c) /\ c[1] # "@" /\ t \in Seq(Tokens)
      BY <1>0, PlainWord, Zenon
<1> HIDE DEF c, t
<1>2. a \in Seq(Tokens) /\ a # <<>> /\ arguments(a) = <<t>>
      BY <1>1, TokensMarks, MarksDiffer, ConsTail, ArgumentsTrailer
<1> HIDE DEF a
<1>3. parseIRCv3(Tagged(tags, c \o (<<Space>> \o a))) = ParsedAs(tags, <<>>, c, arguments(a))
      BY <1>1, <1>2, BareLine
<1>4. c \o (<<Space>> \o a) = <<"PING", Space, ":", "tmi.twitch.tv">>
      BY Cuts, Zenon DEF c, a, t, Colon
<1>5. Says(tags, <<"PING", Space, ":", "tmi.twitch.tv">>, <<>>, <<"PING">>, <<Srv>>)
      BY <1>2, <1>3, <1>4, Zenon DEF Says, c, t, Srv
<1>6. QED BY <1>5, Zenon DEF Space

(* Someone's line: a prefix, a command of one word, and its arguments. *)
LEMMA SomeonesLine ==
  ASSUME NEW tags, Tags(Tokens \ {Space}, tags),
         NEW pre \in {Me, Bob}, NEW x \in Plain, NEW a \in Seq(Tokens), a # <<>>
  PROVE  Says(tags, (<<Colon>> \o pre) \o (<<Space>> \o (<<x>> \o (<<Space>> \o a))),
              pre, <<x>>, arguments(a))
<1> DEFINE c == <<x>>
<1>1. c \in Seq(Tokens) /\ Word(c)
      BY PlainWord, Zenon
<1>2. pre \in Seq(Tokens) /\ Free(pre, Space)
      BY NamesFree, Zenon
<1> HIDE DEF c
<1>3. parseIRCv3(Tagged(tags, (<<Colon>> \o pre) \o (<<Space>> \o (c \o (<<Space>> \o a))))) =
        ParsedAs(tags, pre, c, arguments(a))
  <2>1. \A p \in Seq(Tokens) : Free(p, Space) => \A d \in Seq(Tokens) : Word(d) =>
          parseIRCv3(Tagged(tags, (<<Colon>> \o p) \o (<<Space>> \o (d \o (<<Space>> \o a))))) =
            ParsedAs(tags, p, d, arguments(a))
        BY UserLine, Zenon
  <2>2. QED BY <1>1, <1>2, <2>1, Zenon
<1>4. QED BY <1>3, Zenon DEF c, Says

(* The two lines that tell of a join. *)
LEMMA JoinLines ==
  ASSUME NEW tags, Tags(Tokens \ {Space}, tags)
  PROVE  /\ Says(tags, <<":">> \o Me \o <<" ", "JOIN", " ", "#">> \o Channel,
                 Me, <<"JOIN">>, <<Hash>>)
         /\ Says(tags, <<":", "bob", "!", "bob", " ", "JOIN", " ", "#">> \o Channel,
                 Bob, <<"JOIN">>, <<Hash>>)
<1>0. "JOIN" \in Plain /\ Me \in {Me, Bob} /\ Bob \in {Me, Bob}
      BY Zenon DEF Plain
<1>1. \A pre \in {Me, Bob} : \A x \in Plain : \A a \in Seq(Tokens) :
        a # <<>> => Says(tags, (<<Colon>> \o pre) \o (<<Space>> \o (<<x>> \o (<<Space>> \o a))),
                         pre, <<x>>, arguments(a))
      BY SomeonesLine, Zenon
<1>2. \A pre \in {Me, Bob} :
        Says(tags, (<<Colon>> \o pre) \o (<<Space>> \o (<<"JOIN">> \o (<<Space>> \o Hash))),
             pre, <<"JOIN">>, arguments(Hash))
  <2>1. \A pre \in {Me, Bob} : \A a \in Seq(Tokens) :
          a # <<>> => Says(tags, (<<Colon>> \o pre) \o (<<Space>> \o (<<"JOIN">> \o (<<Space>> \o
              a))),
                           pre, <<"JOIN">>, arguments(a))
        BY <1>0, <1>1, Zenon
  <2>2. QED BY <2>1, NamesFree, Zenon
<1>3. <<":">> \o Me \o <<Space, "JOIN", Space, "#">> \o Channel =
        (<<Colon>> \o Me) \o (<<Space>> \o (<<"JOIN">> \o (<<Space>> \o Hash)))
  <2> DEFINE w == <<Colon>> \o Me
             j == <<Space, "JOIN", Space, "#">>
  <2>1. <<Space, "JOIN", Space, "#">> \in Seq(Tokens)
    <3>1. Space \in Tokens /\ "JOIN" \in Tokens /\ "#" \in Tokens
          BY Zenon DEF Tokens, Space
    <3>2. \A S : \A u, v, x, y \in S : <<u, v, x, y>> \in Seq(S)
          OBVIOUS
    <3>3. QED BY <3>1, <3>2, Zenon
  <2>2. w \in Seq(Tokens)
        BY NamesFree, TokensMarks, MarksDiffer, ConsTail
  <2>3. Channel \in Seq(Tokens)
    <3>1. "channel" \in Plain
          BY Zenon DEF Plain
    <3>2. QED BY <3>1, PlainWord, Zenon DEF Channel
  <2>4. <<":">> \o Me \o <<Space, "JOIN", Space, "#">> \o Channel = (w \o j) \o Channel
        BY Zenon DEF Colon
  <2>5. j \in Seq(Tokens)
        BY <2>1
  <2> HIDE DEF w, j
  <2>6. (w \o j) \o Channel = w \o (j \o Channel)
        BY <2>2, <2>3, <2>5, ConcatAssociative
  <2>7. QED BY <2>4, <2>6, NameCuts, Zenon DEF w, j
<1>4. Says(tags, <<":">> \o Me \o <<Space, "JOIN", Space, "#">> \o Channel,
           Me, <<"JOIN">>, <<Hash>>)
      BY <1>0, <1>2, <1>3, HashAlone, Zenon
<1>5. Says(tags, <<":", "bob", "!", "bob", Space, "JOIN", Space, "#">> \o Channel,
           Bob, <<"JOIN">>, <<Hash>>)
      BY <1>0, <1>2, NameCuts, HashAlone, Zenon DEF Colon
<1>6. QED BY <1>4, <1>5, Zenon DEF Space

(* y with t after it is r. *)
Glued(y, t, r) == y \in Seq(Tokens) /\ y \o t = r

(* What is put before y is before r. *)
LEMMA GluedMore ==
  ASSUME NEW t \in Seq(Tokens)
  PROVE  \A x \in Seq(Tokens) : \A y, r : Glued(y, t, r) => Glued(x \o y, t, x \o r)
<1>0. \A p, q, v \in Seq(Tokens) : (p \o q) \o v = p \o (q \o v)
      BY ConcatAssociative
<1> SUFFICES ASSUME NEW x \in Seq(Tokens), NEW y, NEW r, Glued(y, t, r)
             PROVE  Glued(x \o y, t, x \o r)
    OBVIOUS
<1>1. y \in Seq(Tokens)
      BY DEF Glued
<1>2. x \o y \in Seq(Tokens)
      BY <1>1, ConcatProperties
<1>3. (x \o y) \o t = x \o (y \o t)
      BY <1>0, <1>1, Zenon
<1>4. QED BY <1>2, <1>3, Zenon DEF Glued

(* A space and a colon. *)
LEMMA TwoTokens == <<Space, ":">> = <<Space>> \o <<":">>
OBVIOUS

(* A chat line has two arguments, the channel and the text, whatever the text. *)
LEMMA ChatParsed ==
  ASSUME NEW tags, Tags(Tokens \ {Space}, tags), NEW text \in Seq(Tokens)
  PROVE  Says(tags, ChatLine(text), Bob, <<"PRIVMSG">>, <<Hash, text>>)
<1> DEFINE t == <<Space>> \o (<<Colon>> \o text)
           a == Hash \o t
<1>1. arguments(a) = <<Hash, text>> /\ a \in Seq(Tokens) /\ a # <<>>
      BY NamesFree, ArgumentsTwo
<1>2. Says(tags, (<<Colon>> \o Bob) \o (<<Space>> \o (<<"PRIVMSG">> \o (<<Space>> \o a))),
           Bob, <<"PRIVMSG">>, arguments(a))
  <2>1. "PRIVMSG" \in Plain /\ Bob \in {Me, Bob}
        BY Zenon DEF Plain
  <2> HIDE DEF a
  <2>2. \A pre \in {Me, Bob} : \A x \in Plain :
          Says(tags, (<<Colon>> \o pre) \o (<<Space>> \o (<<x>> \o (<<Space>> \o a))),
               pre, <<x>>, arguments(a))
        BY <1>1, SomeonesLine, Zenon
  <2>3. QED BY <2>1, <2>2, Zenon
<1>3. Colon \in Tokens /\ Space \in Tokens
      BY TokensMarks, MarksDiffer
<1>4. /\ <<Space>> \in Seq(Tokens) /\ <<Colon>> \in Seq(Tokens)
      /\ <<"PRIVMSG">> \in Seq(Tokens) /\ (<<Colon>> \o Bob) \in Seq(Tokens)
      /\ Hash \in Seq(Tokens) /\ t \in Seq(Tokens)
  <2>1. \A x \in Tokens : <<x>> \in Seq(Tokens)
        OBVIOUS
  <2>2. "PRIVMSG" \in Tokens
        BY Zenon DEF Tokens
  <2>3. <<Space>> \in Seq(Tokens) /\ <<Colon>> \in Seq(Tokens) /\ <<"PRIVMSG">> \in Seq(Tokens)
        BY <1>3, <2>1, <2>2, Zenon
  <2>4. \A x \in Tokens : \A y \in Seq(Tokens) : <<x>> \o y \in Seq(Tokens)
    <3> HIDE DEF t
    <3>1. QED BY ConsTail, Zenon
  <2>6. (<<Colon>> \o Bob) \in Seq(Tokens) /\ t \in Seq(Tokens)
        BY <1>3, <2>4, NamesFree, Zenon
  <2>5. QED BY <2>3, <2>6, NamesFree, Zenon
<1>e. \A x, y \in Seq(Tokens) : (x \o y) \o text = x \o (y \o text)
      BY ConcatAssociative
<1>5. <<Space, ":">> \o text = t
  <2>1. <<Space, Colon>> = <<Space>> \o <<Colon>>
        BY TwoTokens, Zenon DEF Colon
  <2>2. (<<Space>> \o <<Colon>>) \o text = <<Space>> \o (<<Colon>> \o text)
        BY <1>4, <1>e, Zenon
  <2>3. QED BY <2>1, <2>2, Zenon DEF Colon
<1>6. <<Space, ":">> \in Seq(Tokens)
  <2>1. \A x, y \in Tokens : <<x, y>> \in Seq(Tokens)
        OBVIOUS
  <2>2. QED BY <1>3, <2>1, Zenon DEF Colon
<1> HIDE DEF t
<1> DEFINE w == <<Colon>> \o Bob
           s == <<Space>>
           c == <<"PRIVMSG">>
           u == <<Space, ":">>
<1>7. ChatLine(text) = ((w \o (s \o (c \o (s \o Hash)))) \o u) \o text
      BY NameCuts, Zenon DEF ChatLine, Colon, Space
<1>8. w \in Seq(Tokens) /\ s \in Seq(Tokens) /\ c \in Seq(Tokens) /\ u \in Seq(Tokens)
      /\ Hash \in Seq(Tokens) /\ t \in Seq(Tokens)
      BY <1>4, <1>6
<1>9. u \o text = t
      BY <1>5
<1> HIDE DEF w, s, c, u, a
<1>10. ((w \o (s \o (c \o (s \o Hash)))) \o u) \o text = w \o (s \o (c \o (s \o (Hash \o t))))
  <2>1. \A x \in Seq(Tokens) : \A y, r : Glued(y, t, r) => Glued(x \o y, t, x \o r)
        BY <1>8, GluedMore, Zenon
  <2>2. Glued(Hash, t, Hash \o t)
        BY <1>8, Zenon DEF Glued
  <2>3. Glued(s \o Hash, t, s \o (Hash \o t))
        BY <1>8, <2>1, <2>2, Zenon
  <2>4. Glued(c \o (s \o Hash), t, c \o (s \o (Hash \o t)))
        BY <1>8, <2>1, <2>3, Zenon
  <2>5. Glued(s \o (c \o (s \o Hash)), t, s \o (c \o (s \o (Hash \o t))))
        BY <1>8, <2>1, <2>4, Zenon
  <2>6. Glued(w \o (s \o (c \o (s \o Hash))), t, w \o (s \o (c \o (s \o (Hash \o t)))))
        BY <1>8, <2>1, <2>5, Zenon
  <2>7. \A y \in Seq(Tokens) : (y \o u) \o text = y \o (u \o text)
        BY <1>8, <1>e, ConcatAssociative
  <2>8. QED BY <1>9, <2>6, <2>7, Zenon DEF Glued
<1>11. Says(tags, w \o (s \o (c \o (s \o a))), Bob, <<"PRIVMSG">>, arguments(a))
      BY <1>2, Zenon DEF w, s, c
<1>12. QED BY <1>1, <1>7, <1>10, <1>11, Zenon DEF a

Bang   == "!"
Failed == "failed"

(* Words that differ. *)
LEMMA WordsDiffer == \A x, y : x # y => <<x>> # <<y>>
<1> SUFFICES ASSUME NEW x, NEW y, x # y PROVE <<x>> # <<y>>
    OBVIOUS
<1>1. <<x>>[1] = x /\ <<y>>[1] = y
      BY OneToken, Zenon
<1>2. QED BY <1>1, Zenon

(* How names and trailers start. *)
LEMMA FirstTokens ==
  /\ Login[1] = "Login" /\ Malformed[1] = "Improperly" /\ Me[1] = "me" /\ Bob[1] = "bob"
  /\ Hash[1] = "#" /\ Hash[2] = "channel" /\ Len(Hash) = 2 /\ Srv # <<>>
<1>1. <<"Login", Space, "authentication", Space, "failed">>[1] = "Login"
      OBVIOUS
<1>2. <<"Improperly", Space, "formatted", Space, "auth">>[1] = "Improperly"
      OBVIOUS
<1>3. <<"me", "!", "me", "@", "me.tmi.twitch.tv">>[1] = "me" /\ <<"bob", "!", "bob">>[1] = "bob"
      OBVIOUS
<1>4. QED BY <1>1, <1>2, <1>3, Pairs, OneToken, Zenon DEF Login, Malformed, Me, Bob, Hash, Srv

(* "failed" is in the trailer of the first notice and not in that of the last. *)
LEMMA Failures ==
  Index(Login, "failed") # 0 /\ Index(<<"slow">>, "failed") = 0
<1>1. <<"Login", Space, "authentication", Space, "failed">>[5] = "failed"
      /\ Len(<<"Login", Space, "authentication", Space, "failed">>) = 5
      OBVIOUS
<1>2. Login[5] = Failed /\ Len(Login) = 5
      BY <1>1, Zenon DEF Login, Failed
<1>3. Index(Login, Failed) # 0
  <2> DEFINE s == Login
  <2>1. s[5] = Failed /\ Len(s) = 5
        BY <1>2
  <2> HIDE DEF s
  <2>2. \/ IndexFrom(s, Failed, 1) = 0 /\ \A i \in 1..Len(s) : s[i] # Failed
        \/ IndexFrom(s, Failed, 1) \in 1..Len(s)
        BY <2>1, IndexRange
  <2>3. 5 \in 1..Len(s)
        BY <2>1
  <2>4. IndexFrom(s, Failed, 1) # 0
        BY <2>1, <2>2, <2>3
  <2>5. QED BY <2>4 DEF Index, s
<1>4. Free(<<"slow">>, Failed)
  <2>1. \A i \in 1..Len(<<"slow">>) : <<"slow">>[i] = "slow"
        BY OneToken, Zenon
  <2>2. "slow" # "failed"
        BY Zenon
  <2>3. QED BY <2>1, <2>2, Zenon DEF Free, Failed
<1>5. <<"slow">> \in Seq(Tokens)
  <2>1. "slow" \in Plain
        BY Zenon DEF Plain
  <2>2. QED BY <2>1, PlainWord, Zenon
<1>6. Index(<<"slow">>, Failed) = 0
      BY <1>4, <1>5, SplitNone
<1>7. QED BY <1>3, <1>6, Zenon DEF Failed

(* The sender is what is before the exclamation mark. *)
LEMMA Sender ==
  Index(Bob, "!") # 0 /\ Before(Bob, "!") = <<"bob">>
<1> DEFINE w == <<"bob">>
<1>1. Bob = w \o (<<Bang>> \o w)
  <2>1. <<"bob", "!", "bob">> = <<"bob">> \o (<<"!">> \o <<"bob">>)
        OBVIOUS
  <2>2. QED BY <2>1, Zenon DEF Bob, Bang
<1>2. w \in Seq(Tokens) /\ Bang \in Tokens
  <2>1. "bob" \in Tokens /\ Bang \in Tokens
        BY Zenon DEF Tokens, Bang
  <2>2. \A x \in Tokens : <<x>> \in Seq(Tokens)
        OBVIOUS
  <2>3. QED BY <2>1, <2>2, Zenon
<1>3. Free(w, Bang)
  <2>1. \A i \in 1..Len(<<"bob">>) : <<"bob">>[i] = "bob"
        BY OneToken, Zenon
  <2>2. "bob" # "!"
        BY Zenon
  <2>3. QED BY <2>1, <2>2, Zenon DEF Free, Bang
<1> HIDE DEF w
<1>4. LET s == w \o (<<Bang>> \o w) IN Index(s, Bang) = Len(w) + 1 /\ Before(s, Bang) = w
      BY <1>2, <1>3, SplitFound
<1>5. Len(w) \in Nat
      BY <1>2
<1>6. Index(w \o (<<Bang>> \o w), Bang) # 0
      BY <1>4, <1>5
<1>7. QED BY <1>1, <1>4, <1>6, Zenon DEF w, Bang

(* The name of the channel, with and without its hash. *)
LEMMA ChannelName == Tail(Hash) = Channel /\ <<"#">> \o Channel = Hash
<1>1. <<"#", "channel">> = <<"#">> \o <<"channel">>
      OBVIOUS
<1>2. "#" \in Tokens /\ <<"channel">> \in Seq(Tokens)
  <2>1. "channel" \in Plain /\ "#" \in Tokens
        BY Zenon DEF Plain, Tokens
  <2>2. QED BY <2>1, PlainWord, Zenon
<1>3. Tail(<<"#">> \o <<"channel">>) = <<"channel">>
  <2>1. \A c \in Tokens : \A w \in Seq(Tokens) : Tail(<<c>> \o w) = w
        BY ConsTail
  <2>2. QED BY <1>2, <2>1, Zenon
<1>4. QED BY <1>1, <1>3, Zenon DEF Hash, Channel

(* What is seen of a message. *)
Shows(m, tags, prefix, name, args) ==
  /\ m.ok = TRUE /\ m.tags = tags /\ m.prefix = prefix
  /\ m.name = name /\ m.args = args

(* The fields of a line that parses. *)
LEMMA Fields ==
  \A tags, prefix, name, args :
    Shows(ParsedAs(tags, prefix, name, args), tags, prefix, name, args)
BY DEF ParsedAs, Shows

(* The lines the loops read as answers. *)
LEMMA HeardReply ==
  ASSUME NEW m, m.ok = TRUE, m.name # <<"PING">>, m.name # <<"PRIVMSG">>,
         m.name = <<"NOTICE">> => m.args[2] # Malformed,
         m.name = <<"JOIN">> => m.args # <<>>
  PROVE  listenContext(m) = "reply"
BY Zenon DEF listenContext, Malformed, Space

(* The notice of an improper token. *)
LEMMA HeardImproper ==
  ASSUME NEW m, m.ok = TRUE, m.name = <<"NOTICE">>, Len(m.args) > 1, m.args[2] = Malformed
  PROVE  listenContext(m) = "improper"
<1>1. /\ <<"NOTICE">> # <<"PING">> /\ <<"NOTICE">> # <<"PRIVMSG">> /\ <<"NOTICE">> # <<"JOIN">>
      BY WordsDiffer, Zenon
<1>2. QED BY <1>1, Zenon DEF listenContext, Malformed, Space

(* PING with an argument. *)
LEMMA HeardPing ==
  ASSUME NEW m, m.ok = TRUE, m.name = <<"PING">>, m.args # <<>>, m.args[1] # <<>>
  PROVE  listenContext(m) = "ping"
<1>1. /\ <<"PING">> # <<"NOTICE">> /\ <<"PING">> # <<"PRIVMSG">> /\ <<"PING">> # <<"JOIN">>
      BY WordsDiffer, Zenon
<1>2. QED BY <1>1, Zenon DEF listenContext

(* PRIVMSG with a channel, a text and a sender. *)
LEMMA HeardChat ==
  ASSUME NEW m, m.ok = TRUE, m.name = <<"PRIVMSG">>, ~(Len(m.args) < 2),
         ~(Len(m.args[1]) < 2), Index(m.prefix, "!") # 0
  PROVE  listenContext(m) = "chat"
<1>1. /\ <<"PRIVMSG">> # <<"NOTICE">> /\ <<"PRIVMSG">> # <<"PING">>
      /\ <<"PRIVMSG">> # <<"JOIN">>
      BY WordsDiffer, Zenon
<1>2. QED BY <1>1, Zenon DEF listenContext

(* What the waiting loops make of a message. *)
LEMMA AnswerGiven ==
  ASSUME NEW m
  PROVE  /\ m.name = <<"CAP">> /\ Len(m.args) > 1 /\ m.args[2] = <<"ACK">>
              => answer(m, Me, Channel) = "ack"
         /\ m.name = <<"376">> => answer(m, Me, Channel) = "welcome"
         /\ m.name = <<"NOTICE">> /\ Index(trailer(m), "failed") # 0
              => answer(m, Me, Channel) = "failed"
         /\ m.name = <<"JOIN">> /\ m.prefix = Me /\ m.args[1] = Hash
              => answer(m, Me, Channel) = "joined"
         /\ (/\ m.name = <<"CAP">> => m.args[2] # <<"ACK">>
             /\ m.name # <<"376">>
             /\ m.name = <<"NOTICE">> => Index(trailer(m), "failed") = 0
             /\ m.name = <<"JOIN">> => m.prefix # Me)
              => answer(m, Me, Channel) = "system"
<1>1. /\ <<"376">> # <<"CAP">> /\ <<"NOTICE">> # <<"CAP">> /\ <<"NOTICE">> # <<"376">>
      /\ <<"JOIN">> # <<"CAP">> /\ <<"JOIN">> # <<"376">> /\ <<"JOIN">> # <<"NOTICE">>
      BY WordsDiffer, Zenon
<1>2. <<"#">> \o Channel = Hash
      BY ChannelName
<1>3. m.name = <<"CAP">> /\ Len(m.args) > 1 /\ m.args[2] = <<"ACK">>
        => answer(m, Me, Channel) = "ack"
      BY <1>1, Zenon DEF answer
<1>4. m.name = <<"376">> => answer(m, Me, Channel) = "welcome"
      BY <1>1, Zenon DEF answer
<1>5. m.name = <<"NOTICE">> /\ Index(trailer(m), "failed") # 0
        => answer(m, Me, Channel) = "failed"
      BY <1>1, Zenon DEF answer
<1>6. m.name = <<"JOIN">> /\ m.prefix = Me /\ m.args[1] = Hash
        => answer(m, Me, Channel) = "joined"
      BY <1>1, <1>2, Zenon DEF answer
<1>7. (/\ m.name = <<"CAP">> => m.args[2] # <<"ACK">>
       /\ m.name # <<"376">>
       /\ m.name = <<"NOTICE">> => Index(trailer(m), "failed") = 0
       /\ m.name = <<"JOIN">> => m.prefix # Me)
         => answer(m, Me, Channel) = "system"
      BY Zenon DEF answer
<1>8. QED BY <1>3, <1>4, <1>5, <1>6, <1>7, Zenon

(* A message is understood as one of a kind. *)
Taken(m, kind) ==
  IF listenContext(m) = "reply" THEN answer(m, Me, Channel) = kind ELSE listenContext(m) = kind

(* CAP is an acknowledgement only if its second argument says so. *)
LEMMA CapTaken ==
  ASSUME NEW tags, NEW x
  PROVE  LET m == ParsedAs(tags, Srv, <<"CAP">>, <<<<"*">>, x, <<"twitch.tv/tags">>>>) IN
           /\ x = <<"ACK">> => Taken(m, "ack")
           /\ x # <<"ACK">> => Taken(m, "system")
<1> DEFINE args == <<<<"*">>, x, <<"twitch.tv/tags">>>>
           m == ParsedAs(tags, Srv, <<"CAP">>, args)
<1>1. Len(args) > 1 /\ args[2] = x
      OBVIOUS
<1> HIDE DEF args
<1>f. Shows(m, tags, Srv, <<"CAP">>, args)
      BY Fields, Zenon
<1>2. m.ok = TRUE /\ m.name = <<"CAP">> /\ m.args = args
  <2> HIDE DEF m
  <2>1. QED BY <1>f, Zenon DEF Shows
<1> HIDE DEF m
<1>3. /\ <<"CAP">> # <<"PING">> /\ <<"CAP">> # <<"PRIVMSG">> /\ <<"CAP">> # <<"NOTICE">>
      /\ <<"CAP">> # <<"JOIN">> /\ <<"CAP">> # <<"376">>
      BY WordsDiffer, Zenon
<1>4. listenContext(m) = "reply"
      BY <1>2, <1>3, HeardReply, Zenon
<1>5. x = <<"ACK">> => answer(m, Me, Channel) = "ack"
      BY <1>1, <1>2, AnswerGiven, Zenon
<1>6. x # <<"ACK">> => answer(m, Me, Channel) = "system"
      BY <1>1, <1>2, <1>3, AnswerGiven, Zenon
<1>7. QED BY <1>4, <1>5, <1>6, Zenon DEF Taken, m, args

(* 376 ends the waiting for authentication; 001 and USERSTATE end nothing. *)
LEMMA NumericTaken ==
  ASSUME NEW tags, NEW args
  PROVE  /\ Taken(ParsedAs(tags, Srv, <<"376">>, args), "welcome")
         /\ Taken(ParsedAs(tags, Srv, <<"001">>, args), "system")
         /\ Taken(ParsedAs(tags, Srv, <<"USERSTATE">>, args), "system")
<1> DEFINE m(c) == ParsedAs(tags, Srv, <<c>>, args)
<1>1. \A c \in {"376", "001", "USERSTATE"} :
         /\ <<c>> # <<"PING">> /\ <<c>> # <<"PRIVMSG">> /\ <<c>> # <<"NOTICE">>
         /\ <<c>> # <<"JOIN">> /\ <<c>> # <<"CAP">>
  <2>1. \A c \in {"376", "001", "USERSTATE"} :
           c # "PING" /\ c # "PRIVMSG" /\ c # "NOTICE" /\ c # "JOIN" /\ c # "CAP"
        BY Zenon
  <2>2. QED BY <2>1, WordsDiffer, Zenon
<1>f. \A c : Shows(m(c), tags, Srv, <<c>>, args)
      BY Fields, Zenon
<1>2. \A c : m(c).ok = TRUE /\ m(c).name = <<c>>
  <2> HIDE DEF m
  <2>1. QED BY <1>f, Zenon DEF Shows
<1> HIDE DEF m
<1>3. \A c \in {"376", "001", "USERSTATE"} : listenContext(m(c)) = "reply"
      BY <1>1, <1>2, HeardReply, Zenon
<1>4. answer(m("376"), Me, Channel) = "welcome"
      BY <1>2, AnswerGiven, Zenon
<1>5. \A c \in {"001", "USERSTATE"} : answer(m(c), Me, Channel) = "system"
  <2>1. \A c \in {"001", "USERSTATE"} : <<c>> # <<"376">>
        BY WordsDiffer, Zenon
  <2>2. QED BY <1>1, <1>2, <2>1, AnswerGiven, Zenon
<1>6. QED BY <1>3, <1>4, <1>5, Zenon DEF Taken, m

(* A notice is a failure, an improper token or nothing by its trailer. *)
LEMMA NoticeTaken ==
  ASSUME NEW tags, NEW x
  PROVE  /\ Taken(ParsedAs(tags, Srv, <<"NOTICE">>, <<x, Login>>), "failed")
         /\ Taken(ParsedAs(tags, Srv, <<"NOTICE">>, <<x, Malformed>>), "improper")
         /\ Taken(ParsedAs(tags, Srv, <<"NOTICE">>, <<x, <<"slow">>>>), "system")
<1> DEFINE m(y) == ParsedAs(tags, Srv, <<"NOTICE">>, <<x, y>>)
<1>1. /\ <<"NOTICE">> # <<"PING">> /\ <<"NOTICE">> # <<"PRIVMSG">> /\ <<"NOTICE">> # <<"JOIN">>
      /\ <<"NOTICE">> # <<"CAP">> /\ <<"NOTICE">> # <<"376">>
      BY WordsDiffer, Zenon
<1>f. \A y : Shows(m(y), tags, Srv, <<"NOTICE">>, <<x, y>>)
      BY Fields, Zenon
<1>2. \A y : m(y).ok = TRUE /\ m(y).name = <<"NOTICE">> /\ m(y).args = <<x, y>>
  <2> HIDE DEF m
  <2>1. QED BY <1>f, Zenon DEF Shows
<1> HIDE DEF m
<1>3. \A y : Len(m(y).args) > 1 /\ m(y).args[2] = y
  <2>1. \A y : Len(<<x, y>>) > 1 /\ <<x, y>>[2] = y
        OBVIOUS
  <2>2. QED BY <1>2, <2>1, Zenon
<1>4. \A y : trailer(m(y)) = y
  <2>1. \A y : <<x, y>> # <<>> /\ Last(<<x, y>>) = y
        BY Pairs, PairsLast, Zenon
  <2>2. QED BY <1>2, <2>1, Zenon DEF trailer
<1>5. Login # Malformed /\ <<"slow">> # Malformed
  <2>1. "Login" # "Improperly" /\ "slow" # "Improperly" /\ <<"slow">>[1] = "slow"
        BY OneToken, Zenon
  <2>2. QED BY <2>1, FirstTokens, Zenon
<1>6. \A y \in {Login, <<"slow">>} : listenContext(m(y)) = "reply"
  <2>1. \A y : y # Malformed => listenContext(m(y)) = "reply"
        BY <1>1, <1>2, <1>3, HeardReply, Zenon
  <2>2. QED BY <1>5, <2>1, Zenon
<1>7. listenContext(m(Malformed)) = "improper"
      BY <1>2, <1>3, HeardImproper, Zenon
<1>8. answer(m(Login), Me, Channel) = "failed"
  <2>1. m(Login).name = <<"NOTICE">> /\ trailer(m(Login)) = Login
        BY <1>2, <1>4, Zenon
  <2>2. Index(trailer(m(Login)), "failed") # 0
        BY <2>1, Failures, Zenon
  <2>3. QED BY <2>1, <2>2, AnswerGiven, Zenon
<1>9. answer(m(<<"slow">>), Me, Channel) = "system"
      BY <1>1, <1>2, <1>4, Failures, AnswerGiven, Zenon
<1>10. "improper" # "reply"
      BY Zenon
<1>11. QED BY <1>6, <1>7, <1>8, <1>9, <1>10, Zenon DEF Taken, m

(* JOIN is the answer only if its prefix is the one of the client. *)
LEMMA JoinTaken ==
  ASSUME NEW tags
  PROVE  /\ Taken(ParsedAs(tags, Me, <<"JOIN">>, <<Hash>>), "joined")
         /\ Taken(ParsedAs(tags, Bob, <<"JOIN">>, <<Hash>>), "system")
<1> DEFINE m(p) == ParsedAs(tags, p, <<"JOIN">>, <<Hash>>)
<1>1. /\ <<"JOIN">> # <<"PING">> /\ <<"JOIN">> # <<"PRIVMSG">> /\ <<"JOIN">> # <<"NOTICE">>
      /\ <<"JOIN">> # <<"CAP">> /\ <<"JOIN">> # <<"376">>
      BY WordsDiffer, Zenon
<1>f. \A p : Shows(m(p), tags, p, <<"JOIN">>, <<Hash>>)
      BY Fields, Zenon
<1>2. \A p : /\ m(p).ok = TRUE /\ m(p).name = <<"JOIN">> /\ m(p).prefix = p
             /\ m(p).args = <<Hash>>
  <2> HIDE DEF m
  <2>1. QED BY <1>f, Zenon DEF Shows
<1>3. <<Hash>> # <<>> /\ <<Hash>>[1] = Hash
      BY OneToken, Zenon
<1> HIDE DEF m
<1>4. \A p : listenContext(m(p)) = "reply"
      BY <1>1, <1>2, <1>3, HeardReply, Zenon
<1>5. answer(m(Me), Me, Channel) = "joined"
      BY <1>2, <1>3, AnswerGiven, Zenon
<1>6. Bob # Me
  <2>1. "bob" # "me"
        BY Zenon
  <2>2. QED BY <2>1, FirstTokens, Zenon
<1>7. answer(m(Bob), Me, Channel) = "system"
  <2>1. m(Bob).name = <<"JOIN">> /\ m(Bob).prefix = Bob
        BY <1>2, Zenon
  <2>2. QED BY <1>1, <1>6, <2>1, AnswerGiven, Zenon
<1>8. QED BY <1>4, <1>5, <1>7, Zenon DEF Taken, m

(* PING is answered. *)
LEMMA PingTaken ==
  ASSUME NEW tags
  PROVE  Taken(ParsedAs(tags, <<>>, <<"PING">>, <<Srv>>), "ping")
<1> DEFINE m == ParsedAs(tags, <<>>, <<"PING">>, <<Srv>>)
<1>f. Shows(m, tags, <<>>, <<"PING">>, <<Srv>>)
      BY Fields, Zenon
<1>1. m.ok = TRUE /\ m.name = <<"PING">> /\ m.args = <<Srv>>
  <2> HIDE DEF m
  <2>1. QED BY <1>f, Zenon DEF Shows
<1>2. <<Srv>> # <<>> /\ <<Srv>>[1] = Srv
      BY OneToken, Zenon
<1> HIDE DEF m
<1>3. listenContext(m) = "ping"
      BY <1>1, <1>2, FirstTokens, HeardPing, Zenon
<1>4. "ping" # "reply"
      BY Zenon
<1>5. QED BY <1>3, <1>4, Zenon DEF Taken, m

(* PRIVMSG becomes the message that was sent. *)
LEMMA ChatTaken ==
  ASSUME NEW tags, NEW text
  PROVE  LET m == ParsedAs(tags, Bob, <<"PRIVMSG">>, <<Hash, text>>) IN
           /\ listenContext(m) = "chat"
           /\ chatMessage(m) = [sender |-> <<"bob">>, channel |-> Channel, trailer |-> text,
                                tags |-> tags]
<1> DEFINE m == ParsedAs(tags, Bob, <<"PRIVMSG">>, <<Hash, text>>)
<1>f. Shows(m, tags, Bob, <<"PRIVMSG">>, <<Hash, text>>)
      BY Fields, Zenon
<1>1. /\ m.ok = TRUE /\ m.name = <<"PRIVMSG">> /\ m.args = <<Hash, text>> /\ m.prefix = Bob
      /\ m.tags = tags
  <2> HIDE DEF m
  <2>1. QED BY <1>f, Zenon DEF Shows
<1>2. /\ <<Hash, text>>[1] = Hash /\ <<Hash, text>> # <<>> /\ Last(<<Hash, text>>) = text
      /\ ~(Len(<<Hash, text>>) < 2) /\ ~(Len(Hash) < 2)
  <2>1. ~(Len(<<Hash, text>>) < 2) /\ ~(Len(Hash) < 2)
        BY FirstTokens, Pairs
  <2>2. QED BY <2>1, Pairs, PairsLast, Zenon
<1> HIDE DEF m
<1>3. listenContext(m) = "chat"
      BY <1>1, <1>2, Sender, HeardChat, Zenon
<1>4. trailer(m) = text
      BY <1>1, <1>2, Zenon DEF trailer
<1>5. chatMessage(m) = [sender |-> <<"bob">>, channel |-> Channel, trailer |-> text, tags |-> tags]
      BY <1>1, <1>2, <1>4, Sender, ChannelName, Zenon DEF chatMessage
<1>6. QED BY <1>3, <1>5 DEF m

(* The texts are made of tokens. *)
LEMMA TextTokens == \A text \in Texts : text \in Seq(Tokens)
<1>1. STRING \subseteq Tokens
      BY DEF Tokens
<1>2. QED BY <1>1, LinesAssumption, SeqMonotonic

(* The tags are tags the parser can read. *)
LEMMA TagTokens == \A tags \in TagLists : Tags(Tokens \ {Space}, tags)
<1> DEFINE K == STRING \ {"=", " "}
           V == STRING \ {";", " "}
           Q == Tokens \ {Space}
<1> SUFFICES ASSUME NEW tags \in TagLists
             PROVE  Tags(Q, tags)
    BY Zenon
<1>1. /\ K \subseteq Q \ {Equals} /\ V \subseteq Q \ {Semicolon}
      BY Zenon DEF Tokens, Space, Equals, Semicolon
<1>2. tags \in Seq([key : Seq(K), value : Seq(V)])
      BY LinesAssumption, Zenon
<1> HIDE DEF K, V, Q
<1>3. Seq(K) \subseteq Seq(Q \ {Equals}) /\ Seq(V) \subseteq Seq(Q \ {Semicolon})
      BY <1>1, SeqMonotonic
<1>4. \A w \in Seq(K) : w \in Seq(Q) /\ Free(w, Equals)
      BY <1>3, FreeWithout, Zenon
<1>5. \A w \in Seq(V) : w \in Seq(Q) /\ Free(w, Semicolon)
      BY <1>3, FreeWithout, Zenon
<1>6. [key : Seq(K), value : Seq(V)] \subseteq [key : Seq(Q), value : Seq(Q)]
      BY <1>4, <1>5
<1>7. tags \in TagsOf(Q)
      BY <1>2, <1>6, SeqMonotonic DEF TagsOf
<1>8. \A i \in 1..Len(tags) : tags[i].key \in Seq(K) /\ tags[i].value \in Seq(V)
  <2>1. \A i \in 1..Len(tags) : tags[i] \in [key : Seq(K), value : Seq(V)]
        BY <1>2, ElementOfSeq
  <2>2. QED BY <2>1
<1>9. QED BY <1>4, <1>5, <1>7, <1>8 DEF Tags, Q

(* The lines of a kind are taken for the kind. *)
LEMMA LinesTaken ==
  ASSUME NEW tags, Tags(Tokens \ {Space}, tags)
  PROVE  \A kind \in DOMAIN Lines : \A line \in Lines[kind] :
           Taken(parseIRCv3(Tagged(tags, line)), kind)
<1> DEFINE T(line, kind) == Taken(parseIRCv3(Tagged(tags, line)), kind)
<1>1. T(<<"PING", " ", ":", "tmi.twitch.tv">>, "ping")
      BY PingLine, PingTaken, Zenon DEF Says
<1>2. /\ T(FromServer(<<"CAP", " ", "*", " ", "ACK", " ", ":", "twitch.tv/tags">>), "ack")
      /\ T(FromServer(<<"CAP", " ", "*", " ", "NAK", " ", ":", "twitch.tv/tags">>), "system")
  <2>1. <<"NAK">> # <<"ACK">>
        BY WordsDiffer, Zenon
  <2>2. /\ Taken(ParsedAs(tags, Srv, <<"CAP">>, <<<<"*">>, <<"ACK">>, <<"twitch.tv/tags">>>>),
               "ack")
        /\ Taken(ParsedAs(tags, Srv, <<"CAP">>, <<<<"*">>, <<"NAK">>, <<"twitch.tv/tags">>>>),
               "system")
        BY <2>1, CapTaken, Zenon
  <2>3. QED BY <2>2, ServerLines, Zenon DEF ServerSays
<1>3. /\ T(FromServer(<<"376", " ", "me", " ", ":", ">">>), "welcome")
      /\ T(FromServer(<<"001", " ", "me", " ", ":", "Welcome">>), "system")
      /\ T(FromServer(<<"USERSTATE", " ", "#">> \o Channel), "system")
      BY NumericTaken, ServerLines, Zenon DEF ServerSays
<1>4. /\ T(FromServer(<<"NOTICE", " ", "*", " ", ":", "Login", " ", "authentication", " ",
             "failed">>),
           "failed")
      /\ T(FromServer(<<"NOTICE", " ", "*", " ", ":", "Improperly", " ", "formatted", " ",
             "auth">>),
           "improper")
      /\ T(FromServer(<<"NOTICE", " ", "#">> \o Channel \o <<" ", ":", "slow">>), "system")
      BY NoticeTaken, ServerLines, Zenon DEF ServerSays
<1>5. /\ T(<<":">> \o Me \o <<" ", "JOIN", " ", "#">> \o Channel, "joined")
      /\ T(<<":", "bob", "!", "bob", " ", "JOIN", " ", "#">> \o Channel, "system")
      BY JoinTaken, JoinLines, Zenon DEF Says
<1> HIDE DEF T
<1>6. \A kind \in DOMAIN Lines : \A line \in Lines[kind] : T(line, kind)
  <2>1. /\ \A line \in Lines.ping : T(line, "ping")
        /\ \A line \in Lines.ack : T(line, "ack")
        /\ \A line \in Lines.welcome : T(line, "welcome")
        /\ \A line \in Lines.failed : T(line, "failed")
        /\ \A line \in Lines.improper : T(line, "improper")
        /\ \A line \in Lines.joined : T(line, "joined")
        /\ \A line \in Lines.system : T(line, "system")
        BY <1>1, <1>2, <1>3, <1>4, <1>5, Zenon DEF Lines
  <2>2. DOMAIN Lines = {"ping", "ack", "welcome", "failed", "improper", "joined", "system"}
        BY Zenon DEF Lines
  <2>3. QED BY <2>1, <2>2, Zenon
<1>7. QED BY <1>6, Zenon DEF T

(* Every kind of line is taken for what it is, whatever its tags and its text. *)
THEOREM AllUnderstood ==
  /\ ChatUnderstood
  /\ \A kind \in DOMAIN Lines : KindUnderstood(kind)
<1>1. ChatUnderstood
  <2> SUFFICES ASSUME NEW tags \in TagLists, NEW text \in Texts
               PROVE  LET m == parseIRCv3(Tagged(tags, ChatLine(text))) IN
                        /\ listenContext(m) = "chat"
                        /\ chatMessage(m) = [sender |-> <<"bob">>, channel |-> Channel,
                                             trailer |-> text, tags |-> tags]
      BY Zenon DEF ChatUnderstood
  <2>1. Tags(Tokens \ {Space}, tags) /\ text \in Seq(Tokens)
        BY TextTokens, TagTokens, Zenon
  <2>2. parseIRCv3(Tagged(tags, ChatLine(text))) =
          ParsedAs(tags, Bob, <<"PRIVMSG">>, <<Hash, text>>)
        BY <2>1, ChatParsed, Zenon DEF Says
  <2>3. QED BY <2>2, ChatTaken, Zenon
<1>2. \A kind \in DOMAIN Lines : KindUnderstood(kind)
  <2>1. \A tags \in TagLists : \A kind \in DOMAIN Lines : \A line \in Lines[kind] :
          Taken(parseIRCv3(Tagged(tags, line)), kind)
        BY TagTokens, LinesTaken, Zenon
  <2>2. QED BY <2>1, Zenon DEF KindUnderstood, Taken
<1>3. QED BY <1>1, <1>2

(* The function of the invariant holds of every kind. *)
LEMMA UnderstoodAll ==
  \A kind \in {"chat", "ping", "ack", "welcome", "failed", "improper", "joined", "system"} :
    Understood[kind]
<1> DEFINE K == {"ping", "ack", "welcome", "failed", "improper", "joined", "system"}
<1>1. DOMAIN Lines = K
      BY Zenon DEF Lines
<1>2. "chat" \notin K
      BY Zenon
<1>3. QED BY <1>1, <1>2, AllUnderstood, Zenon DEF Understood

(* LinesUnderstood: whatever line a listener handles, with any tags before *)
(* it and any text in it, the parser and the loops take it for what Twitch *)
(* sent.                                                                   *)
THEOREM LinesCorrect == Spec => []LinesUnderstood
<1>1. TypeInv => LinesUnderstood
  <2> SUFFICES ASSUME TypeInv, NEW k \in Conns, lmsg[k] # NoMsg
               PROVE  Understood[lmsg[k].kind]
      BY DEF LinesUnderstood
  <2>1. lmsg[k] \in Messages
        BY DEF TypeInv, ReadType
  <2>2. lmsg[k].kind \in {"chat", "ping", "ack", "welcome", "failed", "improper", "joined",
            "system"}
        BY <2>1 DEF Messages, Kinds, NoMsg, Msg
  <2>3. QED BY <2>2, UnderstoodAll, Zenon
<1>2. QED BY <1>1, TypeCorrect, PTL
=============================================================================
