------------------------ MODULE GameIntegrationProofs ------------------------
(***************************************************************************)
(* Theorems about GameIntegration, for any number of initialisations,      *)
(* frames, versions and kinds of events, and any set of reloads.           *)
(***************************************************************************)
EXTENDS GameIntegration, FiniteSetTheorems, TLAPS

(* A loop has a frame exactly while it looks it up and enqueues it, and    *)
(* then some action of it is left.                                         *)
Held ==
  \A w \in Inits :
    /\ loop[w] \in {"config", "enqueue"} => frame[w] \in Frames
    /\ loop[w] # "enqueue" => acts[w].i = 0
    /\ loop[w] = "enqueue" => acts[w].i < ActionCount[acts[w].v][frame[w].k]

(* A loop is started once, by the initialisation that has its number.      *)
Started ==
  /\ \A w \in Inits : loop[w] # "off" => w <= inits
  /\ api \in {"config", "context", "go"} => inits \in Inits /\ loop[inits] = "off"

ApiType ==
  /\ api \in {"idle", "config", "context", "go", "start", "dropctx", "dropcnf"}
  /\ inits \in 0..MaxInits
  /\ appCtx \in Pointers /\ appCtxCancel \in Pointers /\ activeCnf \in Pointers
  /\ cancelled \subseteq Inits

QueueType == queue \in Seq(Entries) /\ given \in Seq(Entries)

LoopType ==
  /\ loop \in [Inits -> {"off", "watch", "dial", "read", "config", "enqueue", "sleep"}]
  /\ ctx \in [Inits -> Pointers]
  /\ watchCtx \in [Inits -> Pointers]
  /\ conn \in [Inits -> {"none", "up", "lost", "closed"}]
  /\ pipe \in [Inits -> Seq(Frames)]
  /\ frame \in [Inits -> Frames \cup {NoFrame}]
  /\ acts \in [Inits -> [v : Versions, i : Nat]]

ServerType == serverUp \in BOOLEAN /\ emitted \in 0..MaxEvents

ReloadType ==
  /\ reload \in [Reloads -> {"idle", "check", "write"}]
  /\ read \in [Reloads -> Versions]
  /\ target \in [Reloads -> Pointers]

FileType == cnf \in [Inits -> Versions] /\ file \in Versions

TypeInv ==
  /\ ApiType /\ QueueType /\ LoopType /\ Held /\ Started /\ ServerType /\ ReloadType /\ FileType
  /\ crashed \in BOOLEAN

LEMMA Constants ==
  /\ MaxInits \in Nat /\ MaxEvents \in Nat /\ 1 \in Versions /\ Versions \subseteq Nat
  /\ ActionCount \in [Versions -> [Kinds -> Nat]]
  /\ NoFrame.k \in Kinds /\ NoFrame.n = 0
  /\ Nil \in Pointers /\ Nil \notin Inits /\ 0..MaxInits \subseteq Pointers
<1>1. NoFrame.k \in Kinds /\ NoFrame.n = 0
      BY GameAssumption DEF NoFrame
<1>2. QED BY <1>1, GameAssumption DEF Versions, Pointers, Inits, Nil

LEMMA TypeInit == Init => TypeInv
<1> SUFFICES ASSUME Init
             PROVE  TypeInv
    OBVIOUS
<1>1. ApiType
      BY Constants DEF Init, ApiType
<1>2. QueueType /\ emitted \in 0..MaxEvents
      BY Constants DEF Init, QueueType
<1>0. serverUp \in BOOLEAN /\ crashed \in BOOLEAN
      BY DEF Init
<1>3. LoopType
  <2>1. NoActs \in [v : Versions, i : Nat]
        BY Constants DEF NoActs
  <2>2. <<>> \in Seq(Frames)
        OBVIOUS
  <2>3. pipe = [w \in Inits |-> <<>>] /\ pipe \in [Inits -> Seq(Frames)]
        BY <2>2 DEF Init
  <2>4. frame \in [Inits -> Frames \cup {NoFrame}] /\ acts \in [Inits -> [v : Versions, i : Nat]]
        BY <2>1, Zenon DEF Init
  <2>5. QED BY <2>3, <2>4, Constants DEF Init, LoopType
<1>4. Held /\ Started
      BY DEF Init, Held, Started, NoActs
<1>5. ReloadType /\ FileType
      BY Constants DEF Init, ReloadType, FileType
<1>6. QED BY <1>0, <1>1, <1>2, <1>3, <1>4, <1>5 DEF TypeInv, ServerType

(* What a step leaves alone keeps its type. *)
LEMMA TypeKept ==
  ASSUME TypeInv
  PROVE  /\ UNCHANGED apiVars => ApiType'
         /\ UNCHANGED queueVars => QueueType'
         /\ UNCHANGED loopVars => LoopType' /\ Held'
         /\ UNCHANGED <<apiVars, loop>> => Started'
         /\ UNCHANGED serverVars => ServerType'
         /\ UNCHANGED reloadVars => ReloadType'
         /\ UNCHANGED <<cnf, file>> => FileType'
         /\ UNCHANGED crashed => crashed' \in BOOLEAN
<1>1. UNCHANGED loopVars => LoopType' /\ Held'
      BY DEF TypeInv, LoopType, Held, loopVars
<1>2. QED BY <1>1 DEF TypeInv, ApiType, Started, QueueType, ServerType, ReloadType, FileType,
                      apiVars, queueVars, serverVars, reloadVars

(* A loop goes on, with the frame and the actions that belong to its place. *)
LEMMA LoopMoves ==
  ASSUME LoopType, Held, NEW w \in Inits,
         NEW to \in {"off", "watch", "dial", "read", "config", "enqueue", "sleep"},
         loop' = [loop EXCEPT ![w] = to],
         ctx' \in [Inits -> Pointers], watchCtx' \in [Inits -> Pointers],
         conn' \in [Inits -> {"none", "up", "lost", "closed"}],
         pipe' \in [Inits -> Seq(Frames)],
         frame' \in [Inits -> Frames \cup {NoFrame}],
         acts' \in [Inits -> [v : Versions, i : Nat]],
         to \in {"config", "enqueue"} => frame'[w] \in Frames,
         to # "enqueue" => acts'[w].i = 0,
         to = "enqueue" => acts'[w].i < ActionCount[acts'[w].v][frame'[w].k],
         \A x \in Inits \ {w} : frame'[x] = frame[x] /\ acts'[x] = acts[x]
  PROVE  LoopType' /\ Held'
<1>1. /\ loop' \in [Inits -> {"off", "watch", "dial", "read", "config", "enqueue", "sleep"}]
      /\ \A x \in Inits : loop'[x] = IF x = w THEN to ELSE loop[x]
      BY DEF LoopType
<1>2. LoopType'
      BY <1>1 DEF LoopType
<1>3. Held'
  <2> SUFFICES ASSUME NEW x \in Inits
               PROVE  /\ loop'[x] \in {"config", "enqueue"} => frame'[x] \in Frames
                      /\ loop'[x] # "enqueue" => acts'[x].i = 0
                      /\ loop'[x] = "enqueue" =>
                           acts'[x].i < ActionCount[acts'[x].v][frame'[x].k]
      BY DEF Held, Frames
  <2>1. CASE x = w
        BY <2>1, <1>1
  <2>2. CASE x # w
    <3>1. loop'[x] = loop[x] /\ frame'[x] = frame[x] /\ acts'[x] = acts[x]
          BY <2>2, <1>1
    <3>2. QED BY <3>1 DEF Held
  <2>3. QED BY <2>1, <2>2
<1>4. QED BY <1>2, <1>3

LEMMA MarkerEnqueued ==
  ASSUME QueueType, NEW m \in {"INIT", "START"}, queue' = Append(queue, Marker(m)),
         given' = given
  PROVE  QueueType'
BY DEF QueueType, Entries

LEMMA InitTypes ==
  ASSUME TypeInv, InitCall
  PROVE  TypeInv'
<1> USE TypeKept, Constants DEF TypeInv
<1>1. CASE InitBegin
  <2>1. ApiType'
        BY <1>1 DEF InitBegin, ApiType
  <2>2. QueueType'
        BY <1>1, MarkerEnqueued DEF InitBegin
  <2>3. Started'
        BY <1>1 DEF InitBegin, Started, ApiType, Inits, loopVars
  <2>4. QED BY <1>1, <2>1, <2>2, <2>3 DEF InitBegin
<1>2. CASE InitConfigFails
      BY <1>2 DEF InitConfigFails, ApiType, Started, loopVars
<1>3. CASE InitConfig
  <2>1. ApiType' /\ FileType' /\ Started'
        BY <1>3 DEF InitConfig, ApiType, FileType, Started, loopVars
  <2>2. QED BY <1>3, <2>1 DEF InitConfig
<1>4. CASE InitContext
  <2>1. ApiType' /\ Started'
        BY <1>4 DEF InitContext, ApiType, Started, loopVars
  <2>2. QED BY <1>4, <2>1 DEF InitContext
<1>5. CASE InitGo
  <2>1. ApiType'
        BY <1>5 DEF InitGo, ApiType
  <2>2. inits \in Inits /\ acts[inits].i = 0 /\ LoopType
        BY <1>5 DEF InitGo, Started, Held
  <2>3. LoopType' /\ Held'
    <3>1. /\ ctx' \in [Inits -> Pointers] /\ watchCtx' \in [Inits -> Pointers]
          /\ conn' \in [Inits -> {"none", "up", "lost", "closed"}]
          /\ pipe' \in [Inits -> Seq(Frames)]
          /\ frame' \in [Inits -> Frames \cup {NoFrame}]
          /\ acts' \in [Inits -> [v : Versions, i : Nat]]
          /\ frame' = frame /\ acts' = acts /\ loop' = [loop EXCEPT ![inits] = "watch"]
          BY <1>5, <2>2 DEF InitGo, LoopType
    <3>2. QED BY <2>2, <3>1, LoopMoves
  <2>4. Started'
        BY <1>5, <2>2 DEF InitGo, Started, LoopType, Inits
  <2>5. QED BY <1>5, <2>1, <2>3, <2>4 DEF InitGo
<1>6. CASE InitStart
  <2>1. ApiType' /\ QueueType' /\ Started'
        BY <1>6, MarkerEnqueued DEF InitStart, ApiType, Started, loopVars
  <2>2. QED BY <1>6, <2>1 DEF InitStart
<1>7. QED BY <1>1, <1>2, <1>3, <1>4, <1>5, <1>6 DEF InitCall

LEMMA ShutdownTypes ==
  ASSUME TypeInv, ShutdownCall
  PROVE  TypeInv'
<1> USE TypeKept, Constants DEF TypeInv
<1>1. CASE ShutdownCancel
  <2>1. ApiType' /\ Started'
        BY <1>1 DEF ShutdownCancel, ApiType, Pointers, Started, loopVars
  <2>2. QED BY <1>1, <2>1 DEF ShutdownCancel
<1>2. CASE ShutdownContext \/ ShutdownConfig
  <2>1. ApiType' /\ Started'
        BY <1>2 DEF ShutdownContext, ShutdownConfig, ApiType, Started, loopVars
  <2>2. QED BY <1>2, <2>1 DEF ShutdownContext, ShutdownConfig
<1>3. QED BY <1>1, <1>2 DEF ShutdownCall

LEMMA PanicTypes ==
  ASSUME TypeInv, Panic
  PROVE  TypeInv'
BY TypeKept DEF TypeInv, Panic, loopVars

LEMMA HandleTypes ==
  ASSUME TypeInv, HandleEvents
  PROVE  TypeInv'
<1>1. QueueType'
      BY DEF TypeInv, QueueType, HandleEvents
<1>2. QED BY <1>1, TypeKept DEF TypeInv, HandleEvents, loopVars

(* A step of a loop: what the loop step must show. *)
LEMMA LoopMoved ==
  ASSUME TypeInv, NEW w \in Inits, LoopType', Held', QueueType',
         UNCHANGED <<apiVars, cnf, serverVars, file, reloadVars, crashed>>,
         \A x \in Inits : loop'[x] # "off" => loop[x] # "off"
  PROVE  TypeInv'
<1>1. Started'
      BY DEF TypeInv, Started, apiVars
<1>2. QED BY <1>1, TypeKept DEF TypeInv

LEMMA DoneTypes ==
  ASSUME LoopType, Held, NEW w \in Inits, loop[w] # "off", FrameDone(w),
         UNCHANGED <<ctx, watchCtx, conn, pipe>>
  PROVE  LoopType' /\ Held' /\ \A x \in Inits : loop'[x] # "off" => loop[x] # "off"
<1>1. NoActs \in [v : Versions, i : Nat] /\ NoActs.i = 0
      BY Constants DEF NoActs
<1>2. frame' \in [Inits -> Frames \cup {NoFrame}]
      BY DEF FrameDone, LoopType
<1>3. acts' \in [Inits -> [v : Versions, i : Nat]] /\ acts'[w].i = 0
      BY <1>1 DEF FrameDone, LoopType
<1>4. /\ loop' = [loop EXCEPT ![w] = "read"]
      /\ \A x \in Inits \ {w} : frame'[x] = frame[x] /\ acts'[x] = acts[x]
      BY DEF FrameDone, LoopType
<1>5. LoopType' /\ Held'
      BY <1>2, <1>3, <1>4, LoopMoves DEF LoopType
<1>6. QED BY <1>4, <1>5 DEF LoopType

LEMMA CallIsMade ==
  ASSUME NEW w \in Inits, NEW n \in 1..MaxEvents, NEW v \in Versions, NEW k \in Kinds,
         NEW i \in 1..ActionCount[v][k]
  PROVE  Call(w, n, i, v) \in Calls
<1>1. i \in Nat \ {0} /\ i <= ActionCount[v][k]
      BY Constants
<1>2. QED BY <1>1 DEF Calls, Call

(* What a loop holds while it enqueues. *)
LEMMA Holding ==
  ASSUME TypeInv, NEW w \in Inits, loop[w] = "enqueue"
  PROVE  /\ frame[w] \in Frames /\ frame[w].n \in 1..MaxEvents /\ frame[w].k \in Kinds
         /\ acts[w] \in [v : Versions, i : Nat] /\ acts[w].i \in Nat
         /\ acts[w].v \in Versions
         /\ acts[w].i < ActionCount[acts[w].v][frame[w].k]
         /\ Call(w, frame[w].n, acts[w].i + 1, acts[w].v) \in Calls
<1>1. /\ frame[w] \in Frames /\ frame[w].n \in 1..MaxEvents /\ frame[w].k \in Kinds
      /\ acts[w] \in [v : Versions, i : Nat] /\ acts[w].i \in Nat
      /\ acts[w].v \in Versions
      /\ acts[w].i < ActionCount[acts[w].v][frame[w].k]
  <2>1. LoopType /\ Held
        BY DEF TypeInv
  <2>2. frame[w] \in Frames /\ acts[w].i < ActionCount[acts[w].v][frame[w].k]
        BY <2>1 DEF Held
  <2>3. acts[w] \in [v : Versions, i : Nat]
        BY <2>1 DEF LoopType
  <2>4. QED BY <2>2, <2>3 DEF Frames
<1>2. ActionCount[acts[w].v][frame[w].k] \in Nat
  <2>1. ActionCount \in [Versions -> [Kinds -> Nat]]
        BY Constants
  <2>2. acts[w].v \in Versions /\ frame[w].k \in Kinds
        BY <1>1
  <2>3. QED BY <2>1, <2>2
<1>3. acts[w].i + 1 \in 1..ActionCount[acts[w].v][frame[w].k]
      BY <1>1, <1>2
<1>4. QED BY <1>1, <1>3, CallIsMade

LEMMA LoopTypes ==
  ASSUME TypeInv, NEW w \in Inits, LoopStep(w)
  PROVE  TypeInv'
<1> USE Constants DEF TypeInv
<1>0. LoopType /\ Held /\ QueueType
      OBVIOUS
<1>1. CASE Watch(w) \/ WatchUnavailable(w) \/ Dial(w) \/ DialFails(w) \/ Wake(w)
  <2>1. PICK to \in {"dial", "read", "sleep"} : loop' = [loop EXCEPT ![w] = to]
        BY <1>1 DEF Watch, WatchUnavailable, Dial, DialFails, Wake
  <2>2. /\ ctx' \in [Inits -> Pointers] /\ watchCtx' \in [Inits -> Pointers]
        /\ conn' \in [Inits -> {"none", "up", "lost", "closed"}]
    <3>1. CASE Watch(w)
          BY <3>1, <1>0 DEF Watch, LoopType, ApiType
    <3>2. CASE Dial(w)
          BY <3>2, <1>0 DEF Dial, LoopType, ApiType
    <3>3. CASE WatchUnavailable(w) \/ DialFails(w) \/ Wake(w)
          BY <3>3, <1>0 DEF WatchUnavailable, DialFails, Wake, LoopType
    <3>4. QED BY <1>1, <3>1, <3>2, <3>3
  <2>3. frame' = frame /\ acts' = acts /\ pipe' = pipe
        BY <1>1 DEF Watch, WatchUnavailable, Dial, DialFails, Wake
  <2>4. acts[w].i = 0 /\ loop[w] # "off"
        BY <1>1, <1>0 DEF Watch, WatchUnavailable, Dial, DialFails, Wake, Held
  <2>5. LoopType' /\ Held'
        BY <1>0, <2>1, <2>2, <2>3, <2>4, LoopMoves DEF LoopType
  <2>6. \A x \in Inits : loop'[x] # "off" => loop[x] # "off"
        BY <1>0, <2>1, <2>4 DEF LoopType
  <2>7. /\ UNCHANGED <<apiVars, cnf, serverVars, file, reloadVars, crashed>>
        /\ UNCHANGED queueVars
        BY <1>1 DEF Watch, WatchUnavailable, Dial, DialFails, Wake
  <2>8. QED BY <2>5, <2>6, <2>7, TypeKept, LoopMoved
<1>2. CASE WatchPanics(w) \/ DialPanics(w) \/ GetConfigPanics(w)
      BY <1>2, PanicTypes DEF WatchPanics, DialPanics, GetConfigPanics
<1>3. CASE CloseOnCancel(w)
  <2>1. LoopType' /\ Held'
        BY <1>3, <1>0 DEF CloseOnCancel, LoopType, Held
  <2>2. QED BY <1>3, <2>1, TypeKept, LoopMoved DEF CloseOnCancel
<1>4. CASE ReadFrame(w)
  <2>1. Head(pipe[w]) \in Frames /\ pipe' \in [Inits -> Seq(Frames)]
        BY <1>4, <1>0 DEF ReadFrame, LoopType
  <2>2. /\ frame' \in [Inits -> Frames \cup {NoFrame}] /\ frame'[w] \in Frames
        /\ \A x \in Inits \ {w} : frame'[x] = frame[x]
        BY <1>4, <1>0, <2>1 DEF ReadFrame, LoopType
  <2>3. acts' = acts /\ acts[w].i = 0 /\ loop[w] # "off" /\ loop' = [loop EXCEPT ![w] = "config"]
        BY <1>4, <1>0 DEF ReadFrame, Held
  <2>4. LoopType' /\ Held'
        BY <1>4, <1>0, <2>1, <2>2, <2>3, LoopMoves DEF ReadFrame, LoopType
  <2>5. \A x \in Inits : loop'[x] # "off" => loop[x] # "off"
        BY <1>0, <2>3 DEF LoopType
  <2>6. QED BY <1>4, <2>4, <2>5, TypeKept, LoopMoved DEF ReadFrame
<1>5. CASE ReadFails(w)
  <2>1. pipe' \in [Inits -> Seq(Frames)] /\ ctx' \in [Inits -> Pointers]
        BY <1>5, <1>0 DEF ReadFails, LoopType
  <2>2. conn' \in [Inits -> {"none", "up", "lost", "closed"}]
        BY <1>5, <1>0 DEF ReadFails, LoopType
  <2>3. /\ acts' = acts /\ acts[w].i = 0 /\ loop[w] # "off" /\ frame' = frame
        /\ loop' = [loop EXCEPT ![w] = "sleep"]
        BY <1>5, <1>0 DEF ReadFails, Held
  <2>4. LoopType' /\ Held'
    <3>1. /\ watchCtx' \in [Inits -> Pointers]
          /\ frame' \in [Inits -> Frames \cup {NoFrame}]
          /\ acts' \in [Inits -> [v : Versions, i : Nat]]
          BY <1>5, <1>0, <2>3 DEF ReadFails, LoopType
    <3>2. QED BY <1>0, <2>1, <2>2, <2>3, <3>1, LoopMoves
  <2>5. \A x \in Inits : loop'[x] # "off" => loop[x] # "off"
        BY <1>0, <2>3 DEF LoopType
  <2>6. QED BY <1>5, <2>4, <2>5, TypeKept, LoopMoved DEF ReadFails
<1>6. CASE GetConfig(w)
  <2>0. /\ UNCHANGED <<apiVars, cnf, serverVars, file, reloadVars, crashed, queueVars>>
        /\ UNCHANGED <<ctx, watchCtx, conn, pipe>>
        /\ loop[w] = "config"
        BY <1>6 DEF GetConfig
  <2>1. CASE FrameDone(w)
        BY <2>0, <2>1, <1>0, DoneTypes, TypeKept, LoopMoved
  <2>2. CASE ~FrameDone(w)
    <3>1. PICK v \in Versions : /\ v = cnf[activeCnf]
                                /\ ActionCount[v][frame[w].k] # 0
                                /\ acts' = [acts EXCEPT ![w].v = v]
                                /\ loop' = [loop EXCEPT ![w] = "enqueue"]
                                /\ frame' = frame
          BY <1>6, <2>2 DEF GetConfig, FileType, ApiType, Pointers
    <3>2. frame[w] \in Frames /\ acts[w].i = 0
          BY <2>0 DEF Held
    <3>3. ActionCount[v][frame[w].k] \in Nat \ {0}
          BY <3>1, <3>2 DEF Frames
    <3>4. /\ acts' \in [Inits -> [v : Versions, i : Nat]]
          /\ acts'[w].i = 0 /\ acts'[w].v = v
          /\ \A x \in Inits \ {w} : acts'[x] = acts[x]
          BY <1>0, <3>1, <3>2 DEF LoopType
    <3>5. LoopType' /\ Held'
      <4>1. /\ ctx' \in [Inits -> Pointers] /\ watchCtx' \in [Inits -> Pointers]
            /\ conn' \in [Inits -> {"none", "up", "lost", "closed"}]
            /\ pipe' \in [Inits -> Seq(Frames)]
            /\ frame' \in [Inits -> Frames \cup {NoFrame}]
            BY <1>0, <2>0, <3>1 DEF LoopType
      <4>2. /\ frame'[w] \in Frames
            /\ acts'[w].i < ActionCount[acts'[w].v][frame'[w].k]
            BY <3>1, <3>2, <3>3, <3>4
      <4>3. QED BY <1>0, <3>1, <3>4, <4>1, <4>2, LoopMoves
    <3>6. \A x \in Inits : loop'[x] # "off" => loop[x] # "off"
          BY <1>0, <2>0, <3>1 DEF LoopType
    <3>7. QED BY <2>0, <3>5, <3>6, TypeKept, LoopMoved
  <2>3. QED BY <2>1, <2>2
<1>7. CASE Enqueue(w)
  <2>0. /\ UNCHANGED <<apiVars, cnf, serverVars, file, reloadVars, crashed, given>>
        /\ UNCHANGED <<ctx, watchCtx, conn, pipe>>
        /\ loop[w] = "enqueue"
        /\ queue' = Append(queue, Call(w, frame[w].n, acts[w].i + 1, acts[w].v))
        BY <1>7 DEF Enqueue
  <2>1. /\ frame[w] \in Frames /\ frame[w].n \in 1..MaxEvents /\ frame[w].k \in Kinds
        /\ acts[w] \in [v : Versions, i : Nat] /\ acts[w].i \in Nat
        /\ acts[w].v \in Versions
        /\ acts[w].i < ActionCount[acts[w].v][frame[w].k]
        BY <2>0, Holding
  <2>2. ActionCount[acts[w].v][frame[w].k] \in Nat
        BY <2>1
  <2>3. Call(w, frame[w].n, acts[w].i + 1, acts[w].v) \in Calls
        BY <2>0, Holding
  <2>4. QueueType'
        BY <1>0, <2>0, <2>3 DEF QueueType, Entries
  <2>5. CASE FrameDone(w)
        BY <2>0, <2>4, <2>5, <1>0, DoneTypes, LoopMoved
  <2>6. CASE ~FrameDone(w)
    <3>1. /\ acts[w].i + 1 # ActionCount[acts[w].v][frame[w].k]
          /\ acts' = [acts EXCEPT ![w].i = @ + 1] /\ UNCHANGED <<loop, frame>>
          BY <1>7, <2>6 DEF Enqueue
    <3>2. /\ acts' \in [Inits -> [v : Versions, i : Nat]]
          /\ acts'[w].i = acts[w].i + 1 /\ acts'[w].v = acts[w].v
          /\ \A x \in Inits \ {w} : acts'[x] = acts[x]
      <4>1. [acts[w] EXCEPT !.i = @ + 1] \in [v : Versions, i : Nat]
            BY <2>1
      <4>2. acts' = [acts EXCEPT ![w] = [acts[w] EXCEPT !.i = @ + 1]]
            BY <3>1
      <4>3. /\ acts' \in [Inits -> [v : Versions, i : Nat]]
            /\ acts'[w] = [acts[w] EXCEPT !.i = @ + 1]
            /\ \A x \in Inits \ {w} : acts'[x] = acts[x]
            BY <1>0, <4>1, <4>2 DEF LoopType
      <4>4. QED BY <2>1, <4>3
    <3>3. loop' = [loop EXCEPT ![w] = "enqueue"]
          BY <1>0, <2>0, <3>1 DEF LoopType
    <3>4. acts'[w].i < ActionCount[acts'[w].v][frame'[w].k]
      <4>1. ActionCount[acts'[w].v][frame'[w].k] = ActionCount[acts[w].v][frame[w].k]
            BY <3>1, <3>2
      <4>2. acts[w].i + 1 < ActionCount[acts[w].v][frame[w].k]
        <5> DEFINE a == acts[w].i
                   c == ActionCount[acts[w].v][frame[w].k]
        <5>1. a \in Nat /\ c \in Nat /\ a < c /\ a + 1 # c
              BY <2>1, <2>2, <3>1
        <5> HIDE DEF a, c
        <5>2. a + 1 < c
              BY <5>1
        <5>3. QED BY <5>2 DEF a, c
      <4>3. QED BY <3>2, <4>1, <4>2
    <3>5. LoopType' /\ Held'
      <4>1. /\ ctx' \in [Inits -> Pointers] /\ watchCtx' \in [Inits -> Pointers]
            /\ conn' \in [Inits -> {"none", "up", "lost", "closed"}]
            /\ pipe' \in [Inits -> Seq(Frames)]
            /\ frame' \in [Inits -> Frames \cup {NoFrame}]
            /\ frame'[w] \in Frames
            /\ \A x \in Inits \ {w} : frame'[x] = frame[x]
            BY <1>0, <2>0, <2>1, <3>1 DEF LoopType
      <4>2. QED BY <1>0, <3>2, <3>3, <3>4, <4>1, LoopMoves
    <3>6. QED BY <2>0, <2>4, <3>1, <3>5, LoopMoved
  <2>7. QED BY <2>5, <2>6
<1>8. CASE DecodeFails(w)
  <2>1. pipe' \in [Inits -> Seq(Frames)] /\ ctx' \in [Inits -> Pointers]
        BY <1>8, <1>0 DEF DecodeFails, LoopType
  <2>2. conn' \in [Inits -> {"none", "up", "lost", "closed"}]
        BY <1>8, <1>0 DEF DecodeFails, LoopType
  <2>3. /\ acts' = acts /\ acts[w].i = 0 /\ loop[w] # "off"
        /\ \A x \in Inits \ {w} : frame'[x] = frame[x]
        /\ loop' = [loop EXCEPT ![w] = "sleep"]
        BY <1>8, <1>0 DEF DecodeFails, Held, LoopType
  <2>4. LoopType' /\ Held'
    <3>1. /\ watchCtx' \in [Inits -> Pointers]
          /\ frame' \in [Inits -> Frames \cup {NoFrame}]
          /\ acts' \in [Inits -> [v : Versions, i : Nat]]
          BY <1>8, <1>0, <2>3 DEF DecodeFails, LoopType
    <3>2. QED BY <1>0, <2>1, <2>2, <2>3, <3>1, LoopMoves
  <2>5. \A x \in Inits : loop'[x] # "off" => loop[x] # "off"
        BY <1>0, <2>3 DEF LoopType
  <2>6. QED BY <1>8, <2>4, <2>5, TypeKept, LoopMoved DEF DecodeFails
<1>9. QED BY <1>1, <1>2, <1>3, <1>4, <1>5, <1>6, <1>7, <1>8 DEF LoopStep

LEMMA ReloadTypes ==
  ASSUME TypeInv, NEW r \in Reloads, ReloadStep(r)
  PROVE  TypeInv'
<1> USE TypeKept, Constants DEF TypeInv
<1>1. CASE LoadRead(r)
  <2>1. ReloadType'
        BY <1>1 DEF LoadRead, ReloadType, FileType
  <2>2. QED BY <1>1, <2>1 DEF LoadRead, loopVars
<1>2. CASE ReplaceCheck(r) \/ ReplaceNothing(r)
  <2>1. ReloadType'
        BY <1>2 DEF ReplaceCheck, ReplaceNothing, ReloadType, ApiType
  <2>2. QED BY <1>2, <2>1 DEF ReplaceCheck, ReplaceNothing, loopVars
<1>3. CASE ReplaceWrite(r)
  <2>1. ReloadType'
        BY <1>3 DEF ReplaceWrite, ReloadType
  <2>2. FileType'
        BY <1>3 DEF ReplaceWrite, FileType, ReloadType
  <2>3. QED BY <1>3, <2>1, <2>2 DEF ReplaceWrite, loopVars
<1>4. CASE ReplacePanics(r)
      BY <1>4, PanicTypes DEF ReplacePanics
<1>5. QED BY <1>1, <1>2, <1>3, <1>4 DEF ReloadStep

LEMMA EnvironmentTypes ==
  ASSUME TypeInv, Environment
  PROVE  TypeInv'
<1> USE TypeKept, Constants DEF TypeInv
<1>1. ASSUME NEW k \in Kinds, Emit(k)
      PROVE  TypeInv'
  <2>1. [n |-> emitted + 1, k |-> k] \in Frames /\ emitted' \in 0..MaxEvents
        BY <1>1 DEF Emit, Frames, ServerType
  <2>2. pipe' \in [Inits -> Seq(Frames)]
        BY <1>1, <2>1 DEF Emit, LoopType
  <2>3. LoopType' /\ Held'
        BY <1>1, <2>2 DEF Emit, LoopType, Held
  <2>4. QED BY <1>1, <2>1, <2>3 DEF Emit, ServerType
<1>2. CASE ConnectorStops
  <2>1. conn' \in [Inits -> {"none", "up", "lost", "closed"}]
        BY <1>2 DEF ConnectorStops, LoopType
  <2>2. LoopType' /\ Held'
        BY <1>2, <2>1 DEF ConnectorStops, LoopType, Held
  <2>3. ServerType'
        BY <1>2 DEF ConnectorStops, ServerType
  <2>4. QED BY <1>2, <2>2, <2>3 DEF ConnectorStops
<1>3. CASE ConnectorStarts
  <2>1. ServerType'
        BY <1>3 DEF ConnectorStarts, ServerType
  <2>2. QED BY <1>3, <2>1 DEF ConnectorStarts, loopVars
<1>4. CASE EditFile
  <2>1. FileType'
        BY <1>4, GameAssumption DEF EditFile, FileType, Versions
  <2>2. QED BY <1>4, <2>1 DEF EditFile, loopVars
<1>5. QED BY <1>1, <1>2, <1>3, <1>4 DEF Environment

LEMMA TypeStep == TypeInv /\ [Next]_vars => TypeInv'
<1>1. ASSUME TypeInv, UNCHANGED vars
      PROVE  TypeInv'
      BY <1>1, TypeKept DEF TypeInv, vars, loopVars
<1>2. QED BY <1>1, InitTypes, ShutdownTypes, HandleTypes, LoopTypes, ReloadTypes,
             EnvironmentTypes DEF Next

(* The state of the game, its loops and the reloads is well typed; no      *)
(* action is enqueued that the configuration does not have.                *)
THEOREM GameTypeCorrect == Spec => []TypeOK
<1>1. TypeInv => TypeOK
  <2> SUFFICES ASSUME TypeInv
               PROVE  TypeOK
      OBVIOUS
  <2>1. serverUp \in BOOLEAN /\ crashed \in BOOLEAN
        BY DEF TypeInv, ServerType
  <2>2. QED BY <2>1 DEF TypeInv, TypeOK, ApiType, QueueType, LoopType, ServerType, ReloadType,
                        FileType
<1>2. QED BY TypeInit, TypeStep, <1>1, PTL DEF Spec

-----------------------------------------------------------------------------
(* Panics. *)

(* Until the first shutdown the globals are only ever set: the pointers a  *)
(* goroutine may follow are there before it starts.                        *)
Alive ==
  /\ ~crashed
  /\ api \notin {"dropctx", "dropcnf"}
  /\ appCtx = appCtxCancel
  /\ api \in {"config", "context"} => appCtx = Nil
  /\ api \in {"context", "go", "start"} => activeCnf # Nil
  /\ api = "go" => appCtx = inits
  /\ \A w \in Inits : loop[w] # "off" => appCtx = w /\ activeCnf # Nil /\ api # "go"
  /\ \A r \in Reloads : reload[r] = "write" => activeCnf # Nil

AliveInv == cancelled = {} => Alive

LEMMA AliveInit == Init => AliveInv
BY DEF Init, AliveInv, Alive

LEMMA AliveStep == TypeInv /\ TypeInv' /\ AliveInv /\ [Next]_vars => AliveInv'
<1> SUFFICES ASSUME TypeInv, TypeInv', AliveInv, [Next]_vars, cancelled' = {}
             PROVE  Alive'
    BY DEF AliveInv
<1>0. /\ Nil \notin Inits
      /\ loop \in [Inits -> {"off", "watch", "dial", "read", "config", "enqueue", "sleep"}]
      /\ reload \in [Reloads -> {"idle", "check", "write"}]
      BY Constants DEF TypeInv, LoopType, ReloadType
<1>1. CASE InitCall
  <2>1. Alive
        BY <1>1 DEF InitCall, InitBegin, InitConfigFails, InitConfig, InitContext, InitGo,
                    InitStart, AliveInv
  <2>2. CASE InitBegin \/ InitConfigFails \/ InitStart
        BY <2>1, <2>2 DEF InitBegin, InitConfigFails, InitStart, Alive, loopVars, reloadVars
  <2>3. api \in {"config", "context", "go"} => inits # Nil
        BY <1>0 DEF TypeInv, Started
  <2>4. CASE InitConfig
        BY <2>1, <2>3, <2>4 DEF InitConfig, Alive, loopVars, reloadVars
  <2>5. CASE InitContext
        BY <1>0, <2>1, <2>3, <2>5 DEF InitContext, Alive, loopVars, reloadVars
  <2>6. CASE InitGo
        BY <1>0, <2>1, <2>3, <2>6 DEF InitGo, Alive, reloadVars
  <2>7. QED BY <1>1, <2>2, <2>4, <2>5, <2>6 DEF InitCall
<1>2. CASE ShutdownCall
  <2>1. ~ShutdownCancel
        BY DEF ShutdownCancel
  <2>2. QED BY <1>2, <2>1 DEF ShutdownCall, ShutdownContext, ShutdownConfig, AliveInv, Alive
<1>3. CASE HandleEvents \/ Environment \/ UNCHANGED vars
  <2>1. UNCHANGED <<apiVars, loop, reload, crashed>>
        BY <1>3 DEF HandleEvents, Environment, Emit, ConnectorStops, ConnectorStarts, EditFile,
                    vars, loopVars, reloadVars
  <2>2. QED BY <2>1 DEF AliveInv, Alive, apiVars
<1>4. ASSUME NEW w \in Inits, LoopStep(w)
      PROVE  Alive'
  <2>1. cancelled = {} /\ Alive
        BY <1>4 DEF LoopStep, Watch, WatchUnavailable, WatchPanics, Dial, DialFails, DialPanics,
                    CloseOnCancel, ReadFrame, ReadFails, GetConfig, DecodeFails, GetConfigPanics, Enqueue,
                    Wake, Panic, AliveInv, apiVars
  <2>2. ~WatchPanics(w) /\ ~DialPanics(w) /\ ~GetConfigPanics(w)
        BY <1>0, <2>1 DEF WatchPanics, DialPanics, GetConfigPanics, Alive
  <2>3. /\ UNCHANGED <<apiVars, reloadVars, crashed>>
        /\ \A x \in Inits : loop'[x] # "off" => loop[x] # "off"
        BY <1>0, <1>4, <2>2 DEF LoopStep, Watch, WatchUnavailable, Dial, DialFails, CloseOnCancel,
                         ReadFrame, ReadFails, GetConfig, DecodeFails, Enqueue, Wake,
                         FrameDone
  <2>4. QED BY <2>1, <2>3 DEF Alive, apiVars, reloadVars
<1>5. ASSUME NEW r \in Reloads, ReloadStep(r)
      PROVE  Alive'
  <2>1. Alive
        BY <1>5 DEF ReloadStep, LoadRead, ReplaceCheck, ReplaceNothing, ReplaceWrite,
                    ReplacePanics, Panic, AliveInv, apiVars
  <2>2. ~ReplacePanics(r)
        BY <2>1 DEF ReplacePanics, Alive
  <2>3. /\ UNCHANGED <<apiVars, loopVars, crashed>>
        /\ \A x \in Reloads : reload'[x] = "write" => reload[x] = "write" \/ activeCnf # Nil
        BY <1>0, <1>5, <2>2 DEF ReloadStep, LoadRead, ReplaceCheck, ReplaceNothing, ReplaceWrite
  <2>4. QED BY <2>1, <2>3 DEF Alive, apiVars, loopVars
<1>6. QED BY <1>1, <1>2, <1>3, <1>4, <1>5 DEF Next

LEMMA TypeAlways == Spec => []TypeInv
BY TypeInit, TypeStep, PTL DEF Spec

(* Before the first shutdown no goroutine of the DLL dereferences a nil    *)
(* context or configuration.                                               *)
THEOREM NoPanicCorrect == Spec => []NoPanicBeforeShutdown
<1>1. crashed \in BOOLEAN /\ AliveInv => NoPanicBeforeShutdown
      BY DEF AliveInv, Alive, NoPanicBeforeShutdown
<1>2. TypeInv => crashed \in BOOLEAN
      BY DEF TypeInv
<1>3. QED BY TypeAlways, AliveInit, AliveStep, <1>1, <1>2, PTL DEF Spec

-----------------------------------------------------------------------------
(* The queue: what was ever put into it only grows. *)

(* One more entry. *)
Grown(e) ==
  /\ Len(History') = Len(History) + 1
  /\ History'[Len(History) + 1] = e
  /\ \A j \in 1..Len(History) : History'[j] = History[j]

LEMMA HistoryType ==
  ASSUME TypeInv
  PROVE  History \in Seq(Entries) /\ Len(History) \in Nat /\ DOMAIN History = 1..Len(History)
BY DEF TypeInv, QueueType, History

LEMMA HistoryGrows ==
  ASSUME TypeInv, NEW e \in Entries, queue' = Append(queue, e), given' = given
  PROVE  Grown(e)
<1>1. queue \in Seq(Entries) /\ given \in Seq(Entries)
      BY DEF TypeInv, QueueType
<1>2. queue' \in Seq(Entries) /\ Len(queue') = Len(queue) + 1
      BY <1>1
<1>3. Len(History') = Len(History) + 1 /\ Len(History) = Len(given) + Len(queue)
      BY <1>1, <1>2 DEF History
<1>4. History'[Len(History) + 1] = e
      BY <1>1, <1>2, <1>3 DEF History
<1>5. \A j \in 1..Len(History) : History'[j] = History[j]
      BY <1>1, <1>2, <1>3 DEF History
<1>6. QED BY <1>3, <1>4, <1>5 DEF Grown

LEMMA HistoryKept ==
  ASSUME TypeInv, HandleEvents
  PROVE  History' = History
<1>1. queue \in Seq(Entries) /\ given \in Seq(Entries) /\ queue # <<>>
      BY DEF TypeInv, QueueType, HandleEvents
<1>2. given' = Append(given, Head(queue)) /\ queue' = Tail(queue)
      BY DEF HandleEvents
<1>3. Len(History') = Len(History)
      BY <1>1, <1>2 DEF History
<1>4. \A j \in 1..Len(History) : History'[j] = History[j]
      BY <1>1, <1>2 DEF History
<1>5. QED BY <1>1, <1>2, <1>3, <1>4 DEF History

LEMMA MarkerType == \A m \in {"INIT", "START"} : Marker(m) \in Entries /\ Marker(m).what = m
BY DEF Entries, Marker

LEMMA CallType ==
  ASSUME TypeInv, NEW j \in 1..Len(History), History[j].what = "call"
  PROVE  /\ History[j].loop \in Inits /\ History[j].frame \in 1..MaxEvents
         /\ History[j].act \in Nat \ {0} /\ History[j].cnf \in Versions
<1>1. History[j] \in Entries
      BY HistoryType
<1>2. History[j] \notin {Marker("INIT"), Marker("START")}
      BY MarkerType
<1>3. History[j] \in Calls
      BY <1>1, <1>2 DEF Entries
<1>4. QED BY <1>3 DEF Calls

-----------------------------------------------------------------------------
(* Announcements. *)

(* The announcements among the first j entries. *)
Announced(j) == {i \in 1..j : History[i] = Marker("INIT")}

(* Every initialisation put one there, and no loop is older than its own.  *)
AnnouncedInv == Cardinality(Announced(Len(History))) = inits /\ AnnouncedFirst

LEMMA AnnouncedInit == Init => AnnouncedInv
<1> SUFFICES ASSUME Init
             PROVE  AnnouncedInv
    OBVIOUS
<1>1. Len(History) = 0 /\ DOMAIN History = {}
      BY DEF Init, History
<1>2. Announced(Len(History)) = {}
      BY <1>1 DEF Announced
<1>3. QED BY <1>1, <1>2, FS_EmptySet DEF Init, AnnouncedInv, AnnouncedFirst

LEMMA AnnouncedKept ==
  ASSUME AnnouncedInv, History' = History, inits' = inits
  PROVE  AnnouncedInv'
BY DEF AnnouncedInv, Announced, AnnouncedFirst

(* What was announced stays so. *)
LEMMA AnnouncedGrows ==
  ASSUME TypeInv, NEW e, Grown(e)
  PROVE  /\ \A j \in 1..Len(History) : Announced(j)' = Announced(j)
         /\ Announced(Len(History))' = IF e = Marker("INIT")
                                       THEN Announced(Len(History)) \cup {Len(History) + 1}
                                       ELSE Announced(Len(History))
         /\ IsFiniteSet(Announced(Len(History)))
         /\ Len(History) + 1 \notin Announced(Len(History))
<1>1. Len(History) \in Nat
      BY HistoryType
<1>2. IsFiniteSet(Announced(Len(History)))
  <2>1. Announced(Len(History)) \in SUBSET (1..Len(History))
        BY DEF Announced
  <2>2. IsFiniteSet(1..Len(History))
        BY <1>1, FS_Interval
  <2>3. QED BY <2>1, <2>2, FS_Subset
<1>3. \A j \in 1..Len(History) : Announced(j)' = Announced(j)
  <2> SUFFICES ASSUME NEW j \in 1..Len(History)
               PROVE  Announced(j)' = Announced(j)
      OBVIOUS
  <2>1. \A i \in 1..j : History'[i] = History[i]
        BY <1>1 DEF Grown
  <2>2. QED BY <2>1 DEF Announced
<1>4. Announced(Len(History))' = IF e = Marker("INIT")
                                 THEN Announced(Len(History)) \cup {Len(History) + 1}
                                 ELSE Announced(Len(History))
  <2>1. Announced(Len(History))' =
          {i \in 1..(Len(History) + 1) : History'[i] = Marker("INIT")}
        BY DEF Announced, Grown, Marker
  <2>2. 1..(Len(History) + 1) = 1..Len(History) \cup {Len(History) + 1}
        BY <1>1
  <2>3. QED BY <2>1, <2>2 DEF Announced, Grown
<1>5. QED BY <1>1, <1>2, <1>3, <1>4 DEF Announced

LEMMA AnnouncedNext ==
  ASSUME TypeInv, TypeInv', AnnouncedInv, NEW e, Grown(e),
         \/ e = Marker("INIT") /\ inits' = inits + 1
         \/ e = Marker("START") /\ inits' = inits
         \/ e.what = "call" /\ e.loop \in 1..inits /\ inits' = inits
  PROVE  AnnouncedInv'
<1>0. /\ Marker("INIT") # Marker("START") /\ inits \in Nat /\ Marker("INIT").what # "call"
      /\ Marker("START").what # "call"
      BY Constants DEF Marker, TypeInv, ApiType
<1>1. Cardinality(Announced(Len(History))') = inits'
  <2>1. /\ IsFiniteSet(Announced(Len(History)))
        /\ Len(History) + 1 \notin Announced(Len(History))
        /\ Cardinality(Announced(Len(History))) = inits
        BY AnnouncedGrows DEF AnnouncedInv
  <2>2. CASE e = Marker("INIT")
        BY <1>0, <2>1, <2>2, AnnouncedGrows, FS_AddElement
  <2>3. CASE e # Marker("INIT")
        BY <1>0, <2>1, <2>3, AnnouncedGrows
  <2>4. QED BY <2>2, <2>3
<1>2. AnnouncedFirst'
  <2> SUFFICES ASSUME NEW j \in DOMAIN History', History'[j].what = "call"
               PROVE  History'[j].loop <= Cardinality(Announced(j)')
      BY DEF AnnouncedFirst, Announced
  <2>1. DOMAIN History' = 1..(Len(History) + 1) /\ DOMAIN History = 1..Len(History)
        BY HistoryType DEF Grown, History, TypeInv, QueueType
  <2>2. CASE j \in 1..Len(History)
    <3>1. History'[j] = History[j] /\ Announced(j)' = Announced(j)
          BY <2>2, AnnouncedGrows DEF Grown
    <3>2. QED BY <2>1, <2>2, <3>1 DEF AnnouncedInv, AnnouncedFirst, Announced
  <2>3. CASE j = Len(History) + 1
    <3>1. History'[j] = e /\ e.loop \in 1..inits /\ inits' = inits
          BY <1>0, <2>3 DEF Grown
    <3>2. Len(History') = j
          BY <2>3 DEF Grown
    <3>3. Announced(Len(History))' = Announced(j)'
          BY <3>2 DEF Announced
    <3>4. Cardinality(Announced(j)') = inits
          BY <1>1, <3>1, <3>3
    <3>5. QED BY <1>0, <3>1, <3>4
  <2>4. QED BY <2>1, <2>2, <2>3, HistoryType
<1>3. QED BY <1>1, <1>2 DEF AnnouncedInv

(* What a step does to the history: nothing, a marker, or a call. *)
LEMMA QueueStep ==
  ASSUME TypeInv, [Next]_vars
  PROVE  \/ /\ History' = History /\ inits' = inits
            /\ \A w \in Inits : ~Enqueue(w)
         \/ InitBegin /\ Grown(Marker("INIT"))
         \/ InitStart /\ Grown(Marker("START"))
         \/ \E w \in Inits :
              Enqueue(w) /\ Grown(Call(w, frame[w].n, acts[w].i + 1, acts[w].v))
<1>0. UNCHANGED queueVars => History' = History
      BY DEF queueVars, History
<1>1. ASSUME UNCHANGED queueVars
      PROVE  \A w \in Inits : ~Enqueue(w)
  <2>1. queue \in Seq(Entries) /\ queue' = queue
        BY <1>1 DEF TypeInv, QueueType, queueVars
  <2>2. \A e : Append(queue, e) # queue
    <3> SUFFICES ASSUME NEW e, Append(queue, e) = queue
                 PROVE  FALSE
        OBVIOUS
    <3>1. Len(Append(queue, e)) = Len(queue) + 1 /\ Len(queue) \in Nat
          BY <2>1
    <3>2. QED BY <3>1
  <2>3. QED BY <2>1, <2>2 DEF Enqueue
<1>2. CASE InitBegin
      BY <1>2, MarkerType, HistoryGrows DEF InitBegin
<1>3. CASE InitStart
      BY <1>3, MarkerType, HistoryGrows DEF InitStart
<1>4. CASE HandleEvents
  <2>1. History' = History /\ inits' = inits /\ loop' = loop /\ acts' = acts
        BY <1>4, HistoryKept DEF HandleEvents, apiVars, loopVars
  <2>2. given' # given
    <3>1. given \in Seq(Entries) /\ given' = Append(given, Head(queue))
          BY <1>4 DEF TypeInv, QueueType, HandleEvents
    <3>2. Len(given') = Len(given) + 1 /\ Len(given) \in Nat
          BY <3>1
    <3>3. QED BY <3>2
  <2>3. QED BY <2>1, <2>2 DEF Enqueue
<1>5. ASSUME NEW w \in Inits, Enqueue(w)
      PROVE  Grown(Call(w, frame[w].n, acts[w].i + 1, acts[w].v))
      BY <1>5, Holding, HistoryGrows DEF Enqueue, Entries
<1>6. CASE ShutdownCall \/ Environment \/ UNCHANGED vars \/ InitConfigFails \/ InitConfig
           \/ InitContext \/ InitGo
  <2>1. UNCHANGED <<queueVars, inits>>
        BY <1>6 DEF ShutdownCall, ShutdownCancel, ShutdownContext, ShutdownConfig, Environment,
                    Emit, ConnectorStops, ConnectorStarts, EditFile, vars, apiVars,
                    InitConfigFails, InitConfig, InitContext, InitGo
  <2>2. QED BY <1>0, <1>1, <2>1
<1>7. ASSUME NEW r \in Reloads, ReloadStep(r)
      PROVE  UNCHANGED <<queueVars, inits>>
      BY <1>7 DEF ReloadStep, LoadRead, ReplaceCheck, ReplaceNothing, ReplaceWrite,
                  ReplacePanics, Panic, apiVars
<1>8. ASSUME NEW w \in Inits, LoopStep(w), ~Enqueue(w)
      PROVE  UNCHANGED <<queueVars, inits>>
      BY <1>8 DEF LoopStep, Watch, WatchUnavailable, WatchPanics, Dial, DialFails, DialPanics,
                  CloseOnCancel, ReadFrame, ReadFails, GetConfig, DecodeFails, GetConfigPanics, Wake, Panic,
                  apiVars
<1>9. QED BY <1>0, <1>1, <1>2, <1>3, <1>4, <1>5, <1>6, <1>7, <1>8 DEF Next, InitCall

LEMMA AnnouncedStep ==
  TypeInv /\ TypeInv' /\ AnnouncedInv /\ [Next]_vars => AnnouncedInv'
<1> SUFFICES ASSUME TypeInv, TypeInv', AnnouncedInv, [Next]_vars
             PROVE  AnnouncedInv'
    OBVIOUS
<1>1. CASE History' = History /\ inits' = inits
      BY <1>1, AnnouncedKept
<1>2. CASE InitBegin /\ Grown(Marker("INIT"))
      BY <1>2, AnnouncedNext DEF InitBegin
<1>3. CASE InitStart /\ Grown(Marker("START"))
      BY <1>3, AnnouncedNext DEF InitStart
<1>4. ASSUME NEW w \in Inits, Enqueue(w),
             Grown(Call(w, frame[w].n, acts[w].i + 1, acts[w].v))
      PROVE  AnnouncedInv'
  <2>1. loop[w] = "enqueue" /\ inits' = inits
        BY <1>4 DEF Enqueue, apiVars
  <2>2. w \in 1..inits
        BY <2>1 DEF TypeInv, Started, ApiType, Inits
  <2>3. /\ Call(w, frame[w].n, acts[w].i + 1, acts[w].v).what = "call"
        /\ Call(w, frame[w].n, acts[w].i + 1, acts[w].v).loop = w
        BY DEF Call
  <2>4. QED BY <1>4, <2>1, <2>2, <2>3, AnnouncedNext
<1>5. QED BY <1>1, <1>2, <1>3, <1>4, QueueStep

(* What a step adds to the queue it adds at its end. *)
LEMMA AppendStep ==
  ASSUME TypeInv, [Next]_vars
  PROVE  OnlyAppended
<1>1. Len(History) \in Nat /\ DOMAIN History = 1..Len(History)
      BY HistoryType
<1>2. CASE History' = History /\ inits' = inits
      BY <1>1, <1>2 DEF OnlyAppended
<1>3. ASSUME NEW e, Grown(e), e = Marker("INIT") \/ inits' = inits
      PROVE  OnlyAppended
      BY <1>1, <1>3 DEF OnlyAppended, Grown
<1>4. CASE InitBegin /\ Grown(Marker("INIT"))
      BY <1>3, <1>4
<1>5. CASE InitStart /\ Grown(Marker("START"))
      BY <1>3, <1>5 DEF InitStart
<1>6. ASSUME NEW w \in Inits, Enqueue(w),
             Grown(Call(w, frame[w].n, acts[w].i + 1, acts[w].v))
      PROVE  OnlyAppended
  <2>1. inits' = inits
        BY <1>6 DEF Enqueue, apiVars
  <2>2. QED BY <1>3, <1>6, <2>1
<1>7. QED BY <1>2, <1>4, <1>5, <1>6, QueueStep

(* However sessions follow each other, what one has left in the queue is   *)
(* handed to the game in front of the announcement of the next, and no     *)
(* action before the announcement of the session it belongs to.            *)
THEOREM SessionsCorrect == Spec => SessionsInOrder
<1>1. AnnouncedInv => AnnouncedFirst
      BY DEF AnnouncedInv
<1>2. TypeInv /\ [Next]_vars => [OnlyAppended]_<<queueVars, inits>>
      BY AppendStep
<1>3. QED BY TypeAlways, AnnouncedInit, AnnouncedStep, <1>1, <1>2, PTL DEF Spec, SessionsInOrder

-----------------------------------------------------------------------------
(* Frames. *)

(* What a loop has read and what waits in its pipe was sent, in order. *)
PipeOrdered(w) ==
  /\ frame[w].n <= emitted
  /\ \A j \in 1..Len(pipe[w]) : frame[w].n < pipe[w][j].n /\ pipe[w][j].n <= emitted
  /\ \A i, j \in 1..Len(pipe[w]) : i < j => pipe[w][i].n < pipe[w][j].n

(* What a loop holds comes after what it enqueued. *)
Ahead(w) ==
  \A i \in 1..Len(History) : IsCallOf(w, i) =>
    /\ History[i].frame <= emitted
    /\ \A j \in 1..Len(pipe[w]) : History[i].frame < pipe[w][j].n
    /\ loop[w] = "config" => History[i].frame < frame[w].n
    /\ loop[w] = "enqueue" =>
         \/ History[i].frame < frame[w].n
         \/ History[i].frame = frame[w].n /\ History[i].act <= acts[w].i

IsLast(w, i) ==
  IsCallOf(w, i) /\ \A h \in 1..Len(History) : IsCallOf(w, h) => h <= i

Complete(i) == \E k \in Kinds : History[i].act = ActionCount[History[i].cnf][k]

(* The last call of a loop is the last action of its frame, or the last    *)
(* one before the action it is about to enqueue.                           *)
LeftOff(w) ==
  \/ (\A i \in 1..Len(History) : ~IsCallOf(w, i)) /\ acts[w].i = 0
  \/ \E i \in 1..Len(History) :
       /\ IsLast(w, i)
       /\ \/ acts[w].i = 0 /\ Complete(i)
          \/ acts[w].i # 0 /\ History[i] = Call(w, frame[w].n, acts[w].i, acts[w].v)

LoopInv(w) == PipeOrdered(w) /\ Ahead(w) /\ LeftOff(w)

FrameInv == (\A w \in Inits : LoopInv(w)) /\ WholeFramesInOrder

LEMMA FrameInit == Init => FrameInv
<1> SUFFICES ASSUME Init
             PROVE  FrameInv
    OBVIOUS
<1>1. Len(History) = 0 /\ DOMAIN History = {}
      BY DEF Init, History
<1>2. \A w \in Inits : LoopInv(w)
  <2>1. NoFrame.n = 0 /\ NoActs.i = 0
        BY Constants DEF NoActs
  <2>2. QED BY <1>1, <2>1 DEF Init, LoopInv, PipeOrdered, Ahead, LeftOff
<1>3. QED BY <1>1, <1>2 DEF FrameInv, WholeFramesInOrder

(* The calls of loop w are the same after a step. *)
SameCalls(w) ==
  /\ \A i \in 1..Len(History') :
       IsCallOf(w, i)' => i \in 1..Len(History) /\ IsCallOf(w, i)
  /\ \A i \in 1..Len(History) : History'[i] = History[i] /\ i \in 1..Len(History')

LEMMA CallsKept ==
  ASSUME History' = History, NEW w \in Inits
  PROVE  SameCalls(w)
BY DEF SameCalls, IsCallOf

LEMMA CallsGrown ==
  ASSUME TypeInv, NEW e, Grown(e), NEW w \in Inits, e.what # "call" \/ e.loop # w
  PROVE  SameCalls(w)
BY HistoryType DEF SameCalls, IsCallOf, Grown

(* A step that changes neither the frame of a loop nor its calls. *)
LEMMA LoopKept ==
  ASSUME NEW w \in Inits, LoopInv(w), SameCalls(w), emitted' = emitted,
         frame'[w] = frame[w], acts'[w] = acts[w], pipe'[w] = pipe[w],
         loop'[w] \in {"config", "enqueue"} => loop'[w] = loop[w]
  PROVE  LoopInv(w)'
<1>1. PipeOrdered(w)'
      BY DEF LoopInv, PipeOrdered
<1>2. Ahead(w)'
      BY DEF LoopInv, Ahead, SameCalls
<1>3. LeftOff(w)'
      BY DEF LoopInv, LeftOff, SameCalls, IsLast, IsCallOf, Complete
<1>4. QED BY <1>1, <1>2, <1>3 DEF LoopInv

(* Entries that were in order stay so. *)
LEMMA OrderGrows ==
  ASSUME TypeInv, WholeFramesInOrder, NEW e, Grown(e), NEW n, n = Len(History) + 1,
         e.what = "call" => FollowsOn(e.loop, n)'
  PROVE  WholeFramesInOrder'
<1> SUFFICES ASSUME NEW w \in Inits, NEW j \in 1..Len(History'), IsCallOf(w, j)'
             PROVE  FollowsOn(w, j)'
    BY DEF WholeFramesInOrder, Grown
<1>1. CASE j \in 1..Len(History)
  <2>1. \A i \in 1..j : History'[i] = History[i]
        BY <1>1, HistoryType DEF Grown
  <2>2. IsCallOf(w, j) /\ FollowsOn(w, j)
        BY <1>1, <2>1, HistoryType DEF IsCallOf, WholeFramesInOrder
  <2>3. {i \in 1..(j - 1) : IsCallOf(w, i)}' = {i \in 1..(j - 1) : IsCallOf(w, i)}
        BY <2>1 DEF IsCallOf
  <2>4. \A i \in 1..(j - 1) : Continues(i, j)' <=> Continues(i, j)
        BY <2>1 DEF Continues
  <2>5. QED BY <2>1, <2>2, <2>3, <2>4 DEF FollowsOn
<1>2. CASE j = Len(History) + 1
  <2>1. e.what = "call" /\ e.loop = w /\ j = n
        BY <1>2 DEF Grown, IsCallOf
  <2>2. QED BY <2>1
<1>3. QED BY <1>1, <1>2, HistoryType DEF Grown

(* Steps that read, look up and enqueue no frame. *)
Quiet ==
  /\ UNCHANGED <<frame, acts, pipe, emitted>>
  /\ \A w \in Inits : loop'[w] \in {"config", "enqueue"} => loop'[w] = loop[w]

Busy(w) == ReadFrame(w) \/ ReadFails(w) \/ GetConfig(w) \/ DecodeFails(w) \/ Enqueue(w)

LEMMA QuietStep ==
  ASSUME TypeInv, [Next]_vars
  PROVE  Quiet \/ (\E w \in Inits : Busy(w)) \/ \E k \in Kinds : Emit(k)
<1>0. loop \in [Inits -> {"off", "watch", "dial", "read", "config", "enqueue", "sleep"}]
      BY DEF TypeInv, LoopType
<1>1. CASE InitGo
      BY <1>0, <1>1 DEF InitGo, Quiet, serverVars
<1>2. CASE InitBegin \/ InitConfigFails \/ InitConfig \/ InitContext \/ InitStart \/ ShutdownCall
           \/ HandleEvents \/ ConnectorStops \/ ConnectorStarts \/ EditFile \/ UNCHANGED vars
      BY <1>2 DEF InitBegin, InitConfigFails, InitConfig, InitContext, InitStart, ShutdownCall,
                  ShutdownCancel, ShutdownContext, ShutdownConfig, HandleEvents, ConnectorStops,
                  ConnectorStarts, EditFile, vars, loopVars, serverVars, Quiet
<1>3. ASSUME NEW w \in Inits, LoopStep(w), ~Busy(w)
      PROVE  Quiet
  <2>1. CASE Watch(w) \/ WatchUnavailable(w) \/ Dial(w) \/ DialFails(w) \/ Wake(w)
    <3>1. PICK to \in {"dial", "read", "sleep"} : loop' = [loop EXCEPT ![w] = to]
          BY <2>1 DEF Watch, WatchUnavailable, Dial, DialFails, Wake
    <3>2. UNCHANGED <<frame, acts, pipe, emitted>>
          BY <2>1 DEF Watch, WatchUnavailable, Dial, DialFails, Wake, serverVars
    <3>3. QED BY <1>0, <3>1, <3>2 DEF Quiet
  <2>2. CASE WatchPanics(w) \/ DialPanics(w) \/ GetConfigPanics(w) \/ CloseOnCancel(w)
        BY <2>2 DEF WatchPanics, DialPanics, GetConfigPanics, CloseOnCancel, Panic, loopVars,
                    serverVars, Quiet
  <2>3. QED BY <1>3, <2>1, <2>2 DEF LoopStep, Busy
<1>4. ASSUME NEW r \in Reloads, ReloadStep(r)
      PROVE  Quiet
      BY <1>4 DEF ReloadStep, LoadRead, ReplaceCheck, ReplaceNothing, ReplaceWrite,
                  ReplacePanics, Panic, loopVars, serverVars, Quiet
<1>5. QED BY <1>1, <1>2, <1>3, <1>4 DEF Next, InitCall, Environment

LEMMA QuietFrames ==
  ASSUME TypeInv, TypeInv', FrameInv, [Next]_vars, Quiet, \A w \in Inits : ~Enqueue(w)
  PROVE  FrameInv'
<1>1. CASE History' = History
  <2>1. \A w \in Inits : LoopInv(w)'
        BY <1>1, CallsKept, LoopKept DEF FrameInv, Quiet
  <2>2. WholeFramesInOrder'
        BY <1>1 DEF FrameInv, WholeFramesInOrder, IsCallOf, FollowsOn, Continues
  <2>3. QED BY <2>1, <2>2 DEF FrameInv
<1>2. ASSUME NEW m \in {"INIT", "START"}, Grown(Marker(m))
      PROVE  FrameInv'
  <2>1. Marker(m).what # "call"
        BY MarkerType
  <2>2. \A w \in Inits : LoopInv(w)'
        BY <1>2, <2>1, CallsGrown, LoopKept DEF FrameInv, Quiet
  <2>3. WholeFramesInOrder'
        BY <1>2, <2>1, OrderGrows DEF FrameInv
  <2>4. QED BY <2>2, <2>3 DEF FrameInv
<1>3. QED BY <1>1, <1>2, QueueStep

LEMMA NumberTypes ==
  ASSUME TypeInv, NEW w \in Inits
  PROVE  /\ emitted \in Nat /\ frame[w].n \in Nat
         /\ pipe[w] \in Seq(Frames) /\ Len(pipe[w]) \in Nat
         /\ \A j \in 1..Len(pipe[w]) : pipe[w][j] \in Frames /\ pipe[w][j].n \in Nat
<1>1. emitted \in Nat
      BY Constants DEF TypeInv, ServerType
<1>2. \A f \in Frames : f.n \in Nat
      BY DEF Frames
<1>3. frame[w] \in Frames \cup {NoFrame}
      BY DEF TypeInv, LoopType
<1>4. frame[w].n \in Nat
      BY <1>2, <1>3, Constants
<1>5. pipe[w] \in Seq(Frames)
      BY DEF TypeInv, LoopType
<1>6. Len(pipe[w]) \in Nat /\ \A j \in 1..Len(pipe[w]) : pipe[w][j] \in Frames
      BY <1>5
<1>7. QED BY <1>1, <1>2, <1>4, <1>5, <1>6

(* Everything sent is newer than what was sent before. *)
LEMMA EmitFrames ==
  ASSUME TypeInv, TypeInv', FrameInv, NEW k \in Kinds, Emit(k)
  PROVE  FrameInv'
<1>1. History' = History /\ UNCHANGED <<loop, frame, acts>> /\ emitted' = emitted + 1
      BY DEF Emit, queueVars, History
<1>2. WholeFramesInOrder'
      BY <1>1 DEF FrameInv, WholeFramesInOrder, IsCallOf, FollowsOn, Continues
<1>3. ASSUME NEW w \in Inits
      PROVE  LoopInv(w)'
  <2>0. /\ LoopInv(w) /\ emitted \in Nat /\ frame[w].n \in Nat /\ Len(pipe[w]) \in Nat
        /\ \A j \in 1..Len(pipe[w]) : pipe[w][j].n \in Nat
        BY NumberTypes DEF FrameInv
  <2>1. /\ frame[w].n <= emitted
        /\ \A j \in 1..Len(pipe[w]) : frame[w].n < pipe[w][j].n /\ pipe[w][j].n <= emitted
        /\ \A i, j \in 1..Len(pipe[w]) : i < j => pipe[w][i].n < pipe[w][j].n
        BY <2>0 DEF LoopInv, PipeOrdered
  <2>2. \A i \in 1..Len(History) : IsCallOf(w, i) =>
          /\ History[i].frame \in Nat /\ History[i].frame <= emitted
          /\ \A j \in 1..Len(pipe[w]) : History[i].frame < pipe[w][j].n
        BY <2>0, CallType DEF LoopInv, Ahead, IsCallOf
  <2>3. /\ Len(pipe'[w]) \in Nat
        /\ \A j \in 1..Len(pipe'[w]) :
             \/ j \in 1..Len(pipe[w]) /\ pipe'[w][j].n = pipe[w][j].n
             \/ j = Len(pipe[w]) + 1 /\ pipe'[w][j].n = emitted + 1
    <3>1. CASE pipe'[w] = pipe[w]
          BY <2>0, <3>1
    <3>2. CASE pipe'[w] = Append(pipe[w], [n |-> emitted + 1, k |-> k])
      <4>1. pipe[w] \in Seq(Frames)
            BY DEF TypeInv, LoopType
      <4>2. /\ Len(pipe'[w]) = Len(pipe[w]) + 1
            /\ pipe'[w][Len(pipe[w]) + 1] = [n |-> emitted + 1, k |-> k]
            /\ \A j \in 1..Len(pipe[w]) : pipe'[w][j] = pipe[w][j]
            BY <3>2, <4>1
      <4>3. QED BY <2>0, <4>2
    <3>3. QED BY <3>1, <3>2 DEF Emit
  <2>4. PipeOrdered(w)'
    <3>1. frame'[w].n <= emitted'
          BY <1>1, <2>0, <2>1
    <3>2. ASSUME NEW j \in 1..Len(pipe'[w])
          PROVE  frame'[w].n < pipe'[w][j].n /\ pipe'[w][j].n <= emitted'
          BY <1>1, <2>0, <2>1, <2>3
    <3>3. ASSUME NEW i \in 1..Len(pipe'[w]), NEW j \in 1..Len(pipe'[w]), i < j
          PROVE  pipe'[w][i].n < pipe'[w][j].n
      <4>1. i \in 1..Len(pipe[w]) /\ pipe'[w][i].n = pipe[w][i].n
            BY <2>0, <2>3, <3>3
      <4>2. CASE j \in 1..Len(pipe[w]) /\ pipe'[w][j].n = pipe[w][j].n
            BY <2>1, <3>3, <4>1, <4>2
      <4>3. CASE j = Len(pipe[w]) + 1 /\ pipe'[w][j].n = emitted + 1
            BY <2>0, <2>1, <4>1, <4>3
      <4>4. QED BY <2>3, <4>2, <4>3
    <3>4. QED BY <3>1, <3>2, <3>3 DEF PipeOrdered
  <2>5. Ahead(w)'
    <3> SUFFICES ASSUME NEW i \in 1..Len(History), IsCallOf(w, i)
                 PROVE  /\ History[i].frame <= emitted'
                        /\ \A j \in 1..Len(pipe'[w]) : History[i].frame < pipe'[w][j].n
        BY <1>1, <2>0 DEF LoopInv, Ahead, IsCallOf
    <3>1. QED BY <1>1, <2>0, <2>2, <2>3
  <2>6. LeftOff(w)'
        BY <1>1, <2>0 DEF LoopInv, LeftOff, IsLast, IsCallOf, Complete
  <2>7. QED BY <2>4, <2>5, <2>6 DEF LoopInv
<1>4. QED BY <1>2, <1>3 DEF FrameInv

(* The loop lets its frame go: what it has enqueued is complete. *)
LEMMA DoneFrames ==
  ASSUME TypeInv, NEW w \in Inits, FrameDone(w), UNCHANGED <<pipe, emitted>>, PipeOrdered(w),
         \A i \in 1..Len(History') : IsCallOf(w, i)' =>
           /\ History'[i].frame <= emitted
           /\ \A j \in 1..Len(pipe[w]) : History'[i].frame < pipe[w][j].n,
         \/ \A i \in 1..Len(History') : ~IsCallOf(w, i)'
         \/ \E i \in 1..Len(History') : IsLast(w, i)' /\ Complete(i)'
  PROVE  LoopInv(w)'
<1>1. frame'[w].n = 0 /\ acts'[w].i = 0 /\ loop'[w] = "read"
      BY Constants DEF FrameDone, NoActs, TypeInv, LoopType
<1>2. PipeOrdered(w)'
      BY <1>1, NumberTypes DEF PipeOrdered
<1>3. Ahead(w)'
      BY <1>1 DEF Ahead
<1>4. LeftOff(w)'
      BY <1>1 DEF LeftOff
<1>5. QED BY <1>2, <1>3, <1>4 DEF LoopInv

(* A step of loop w that enqueues nothing, seen by the others. *)
LEMMA OthersKept ==
  ASSUME TypeInv, FrameInv, History' = History, NEW w \in Inits, emitted' = emitted,
         \A x \in Inits \ {w} : /\ frame'[x] = frame[x] /\ acts'[x] = acts[x]
                                /\ pipe'[x] = pipe[x] /\ loop'[x] = loop[x],
         LoopInv(w)'
  PROVE  FrameInv'
<1>1. \A x \in Inits : LoopInv(x)'
      BY CallsKept, LoopKept DEF FrameInv
<1>2. WholeFramesInOrder'
      BY DEF FrameInv, WholeFramesInOrder, IsCallOf, FollowsOn, Continues
<1>3. QED BY <1>1, <1>2 DEF FrameInv

LEMMA ReadFrames ==
  ASSUME TypeInv, FrameInv, NEW w \in Inits, ReadFrame(w)
  PROVE  FrameInv'
<1>0. /\ History' = History /\ emitted' = emitted /\ acts' = acts
      /\ loop[w] = "read" /\ pipe[w] # <<>>
      BY DEF ReadFrame, queueVars, serverVars, History
<1>1. /\ frame'[w] = Head(pipe[w]) /\ pipe'[w] = Tail(pipe[w]) /\ loop'[w] = "config"
      /\ \A x \in Inits \ {w} : /\ frame'[x] = frame[x] /\ acts'[x] = acts[x]
                                /\ pipe'[x] = pipe[x] /\ loop'[x] = loop[x]
      BY DEF ReadFrame, TypeInv, LoopType
<1>2. /\ emitted \in Nat /\ Len(pipe[w]) \in Nat /\ pipe[w] \in Seq(Frames)
      /\ \A j \in 1..Len(pipe[w]) : pipe[w][j].n \in Nat
      BY NumberTypes
<1>3. /\ Len(pipe[w]) >= 1 /\ Len(pipe'[w]) = Len(pipe[w]) - 1
      /\ frame'[w] = pipe[w][1]
      /\ \A j \in 1..(Len(pipe[w]) - 1) : pipe'[w][j] = pipe[w][j + 1]
      BY <1>0, <1>1, <1>2
<1>4. LoopInv(w) /\ acts[w].i = 0
      BY <1>0 DEF FrameInv, TypeInv, Held
<1>5. PipeOrdered(w)'
  <2>1. /\ \A j \in 1..Len(pipe[w]) : pipe[w][j].n <= emitted
        /\ \A i, j \in 1..Len(pipe[w]) : i < j => pipe[w][i].n < pipe[w][j].n
        BY <1>4 DEF LoopInv, PipeOrdered
  <2>2. frame'[w].n <= emitted'
        BY <1>0, <1>2, <1>3, <2>1
  <2>3. ASSUME NEW j \in 1..Len(pipe'[w])
        PROVE  frame'[w].n < pipe'[w][j].n /\ pipe'[w][j].n <= emitted'
    <3>1. j + 1 \in 1..Len(pipe[w]) /\ 1 \in 1..Len(pipe[w]) /\ 1 < j + 1
          BY <1>2, <1>3
    <3>2. pipe'[w][j] = pipe[w][j + 1]
          BY <1>2, <1>3
    <3>3. QED BY <1>0, <1>3, <2>1, <3>1, <3>2
  <2>4. ASSUME NEW i \in 1..Len(pipe'[w]), NEW j \in 1..Len(pipe'[w]), i < j
        PROVE  pipe'[w][i].n < pipe'[w][j].n
    <3>1. j + 1 \in 1..Len(pipe[w]) /\ i + 1 \in 1..Len(pipe[w]) /\ i + 1 < j + 1
          BY <1>2, <1>3, <2>4
    <3>2. pipe'[w][j] = pipe[w][j + 1] /\ pipe'[w][i] = pipe[w][i + 1]
          BY <1>2, <1>3
    <3>3. QED BY <2>1, <3>1, <3>2
  <2>5. QED BY <2>2, <2>3, <2>4 DEF PipeOrdered
<1>6. Ahead(w)'
  <2> SUFFICES ASSUME NEW i \in 1..Len(History), IsCallOf(w, i)
               PROVE  /\ History[i].frame <= emitted
                      /\ \A j \in 1..Len(pipe'[w]) : History[i].frame < pipe'[w][j].n
                      /\ History[i].frame < frame'[w].n
      BY <1>0, <1>1 DEF Ahead, IsCallOf
  <2>1. /\ History[i].frame <= emitted
        /\ \A j \in 1..Len(pipe[w]) : History[i].frame < pipe[w][j].n
        BY <1>4 DEF LoopInv, Ahead
  <2>2. ASSUME NEW j \in 1..Len(pipe'[w])
        PROVE  History[i].frame < pipe'[w][j].n
    <3>1. j + 1 \in 1..Len(pipe[w])
          BY <1>2, <1>3
    <3>2. pipe'[w][j] = pipe[w][j + 1]
          BY <1>2, <1>3
    <3>3. QED BY <2>1, <3>1, <3>2
  <2>3. 1 \in 1..Len(pipe[w])
        BY <1>2, <1>3
  <2>4. QED BY <1>3, <2>1, <2>2, <2>3
<1>7. LeftOff(w)'
      BY <1>0, <1>4 DEF LoopInv, LeftOff, IsLast, IsCallOf, Complete
<1>8. QED BY <1>0, <1>1, <1>5, <1>6, <1>7, OthersKept DEF LoopInv

LEMMA FailFrames ==
  ASSUME TypeInv, FrameInv, NEW w \in Inits, ReadFails(w)
  PROVE  FrameInv'
<1>0. /\ History' = History /\ emitted' = emitted /\ acts' = acts /\ frame' = frame
      /\ loop[w] = "read"
      BY DEF ReadFails, queueVars, serverVars, History
<1>1. /\ pipe'[w] = <<>> /\ loop'[w] = "sleep"
      /\ \A x \in Inits \ {w} : pipe'[x] = pipe[x] /\ loop'[x] = loop[x]
      BY DEF ReadFails, TypeInv, LoopType
<1>2. LoopInv(w) /\ acts[w].i = 0 /\ Len(pipe'[w]) = 0
      BY <1>0, <1>1 DEF FrameInv, TypeInv, Held
<1>3. PipeOrdered(w)'
      BY <1>0, <1>2 DEF LoopInv, PipeOrdered
<1>4. Ahead(w)'
      BY <1>0, <1>1, <1>2 DEF LoopInv, Ahead, IsCallOf
<1>5. LeftOff(w)'
      BY <1>0, <1>2 DEF LoopInv, LeftOff, IsLast, IsCallOf, Complete
<1>6. QED BY <1>0, <1>1, <1>3, <1>4, <1>5, OthersKept DEF LoopInv

LEMMA DecodeFrames ==
  ASSUME TypeInv, FrameInv, NEW w \in Inits, DecodeFails(w)
  PROVE  FrameInv'
<1>0. /\ History' = History /\ emitted' = emitted /\ acts' = acts
      /\ loop[w] = "config"
      BY DEF DecodeFails, queueVars, serverVars, History
<1>1. /\ pipe'[w] = <<>> /\ loop'[w] = "sleep" /\ frame'[w] = NoFrame
      /\ \A x \in Inits \ {w} : /\ pipe'[x] = pipe[x] /\ loop'[x] = loop[x]
                                /\ frame'[x] = frame[x]
      BY DEF DecodeFails, TypeInv, LoopType
<1>2. LoopInv(w) /\ acts[w].i = 0 /\ Len(pipe'[w]) = 0
      BY <1>0, <1>1 DEF FrameInv, TypeInv, Held
<1>3. PipeOrdered(w)'
      BY <1>0, <1>1, <1>2, NumberTypes, Constants DEF PipeOrdered
<1>4. Ahead(w)'
      BY <1>0, <1>1, <1>2 DEF LoopInv, Ahead, IsCallOf
<1>5. LeftOff(w)'
      BY <1>0, <1>2 DEF LoopInv, LeftOff, IsLast, IsCallOf, Complete
<1>6. QED BY <1>0, <1>1, <1>3, <1>4, <1>5, OthersKept DEF LoopInv

LEMMA ConfigFrames ==
  ASSUME TypeInv, FrameInv, NEW w \in Inits, GetConfig(w)
  PROVE  FrameInv'
<1>0. /\ History' = History /\ emitted' = emitted /\ pipe' = pipe
      /\ loop[w] = "config"
      BY DEF GetConfig, queueVars, serverVars, History
<1>1. LoopInv(w) /\ acts[w].i = 0
      BY <1>0 DEF FrameInv, TypeInv, Held
<1>2. CASE FrameDone(w)
  <2>1. \A x \in Inits \ {w} : /\ frame'[x] = frame[x] /\ acts'[x] = acts[x]
                               /\ loop'[x] = loop[x]
        BY <1>2 DEF FrameDone, TypeInv, LoopType
  <2>2. LoopInv(w)'
    <3>1. \A i \in 1..Len(History) : IsCallOf(w, i)' <=> IsCallOf(w, i)
          BY <1>0 DEF IsCallOf
    <3>2. \A i \in 1..Len(History) : IsLast(w, i) /\ Complete(i) => IsLast(w, i)' /\ Complete(i)'
          BY <1>0, <3>1 DEF IsLast, Complete
    <3>3. QED BY <1>0, <1>1, <1>2, <3>1, <3>2, DoneFrames DEF LoopInv, Ahead, LeftOff
  <2>3. QED BY <1>0, <2>1, <2>2, OthersKept
<1>3. CASE ~FrameDone(w)
  <2>1. PICK v : /\ acts' = [acts EXCEPT ![w].v = v]
                 /\ loop' = [loop EXCEPT ![w] = "enqueue"]
                 /\ frame' = frame
        BY <1>3 DEF GetConfig
  <2>2. /\ loop'[w] = "enqueue" /\ acts'[w].i = 0
        /\ \A x \in Inits \ {w} : acts'[x] = acts[x] /\ loop'[x] = loop[x]
        BY <1>1, <2>1 DEF TypeInv, LoopType
  <2>3. PipeOrdered(w)'
        BY <1>0, <1>1, <2>1 DEF LoopInv, PipeOrdered
  <2>4. Ahead(w)'
        BY <1>0, <1>1, <2>1, <2>2 DEF LoopInv, Ahead, IsCallOf
  <2>5. LeftOff(w)'
        BY <1>0, <1>1, <2>2 DEF LoopInv, LeftOff, IsLast, IsCallOf, Complete
  <2>6. QED BY <1>0, <2>1, <2>2, <2>3, <2>4, <2>5, OthersKept DEF LoopInv
<1>4. QED BY <1>2, <1>3

LEMMA EnqueueFrames ==
  ASSUME TypeInv, TypeInv', FrameInv, NEW w \in Inits, Enqueue(w),
         Grown(Call(w, frame[w].n, acts[w].i + 1, acts[w].v))
  PROVE  FrameInv'
<1>. PICK e : e = Call(w, frame[w].n, acts[w].i + 1, acts[w].v)
     OBVIOUS
<1>. PICK n : n = Len(History)
     OBVIOUS
<1>0. /\ emitted' = emitted /\ pipe' = pipe /\ loop[w] = "enqueue"
      /\ n \in Nat /\ acts[w].i \in Nat /\ frame[w].n \in Nat
      BY HistoryType, Holding, NumberTypes DEF Enqueue, serverVars
<1>1. /\ e.what = "call" /\ e.loop = w /\ e.frame = frame[w].n /\ e.act = acts[w].i + 1
      /\ e.cnf = acts[w].v
      BY DEF Call
<1>2. Grown(e)
      OBVIOUS
<1>3. LoopInv(w)
      BY DEF FrameInv
<1>4. /\ Len(History') = n + 1 /\ History'[n + 1] = e
      /\ \A i \in 1..n : History'[i] = History[i]
      BY <1>2 DEF Grown
<1>5. /\ IsCallOf(w, n + 1)'
      /\ \A i \in 1..n : IsCallOf(w, i)' <=> IsCallOf(w, i)
      BY <1>1, <1>4 DEF IsCallOf
<1>6. IsLast(w, n + 1)'
      BY <1>0, <1>4, <1>5 DEF IsLast
(* The new call follows on the last one of its loop.                       *)
<1>7. FollowsOn(w, n + 1)'
  <2> DEFINE earlier == {i \in 1..n : IsCallOf(w, i)}
  <2>1. {i \in 1..((n + 1) - 1) : IsCallOf(w, i)}' = earlier
        BY <1>0, <1>5
  <2>2. CASE (\A i \in 1..n : ~IsCallOf(w, i)) /\ acts[w].i = 0
        BY <1>1, <1>4, <2>1, <2>2 DEF FollowsOn
  <2>3. ASSUME NEW i \in 1..n, IsLast(w, i),
               \/ acts[w].i = 0 /\ Complete(i)
               \/ acts[w].i # 0 /\ History[i] = Call(w, frame[w].n, acts[w].i, acts[w].v)
        PROVE  FollowsOn(w, n + 1)'
    <3>1. i \in earlier /\ \A h \in earlier : h <= i
          BY <2>3 DEF IsLast
    <3>2. Continues(i, n + 1)'
      <4>1. CASE acts[w].i = 0 /\ Complete(i)
        <5>1. ~(History[i].act <= acts[w].i)
              BY <2>3, <4>1, CallType DEF IsLast, IsCallOf
        <5>2. History[i].frame < frame[w].n
              BY <1>0, <1>3, <2>3, <5>1 DEF LoopInv, Ahead, IsLast
        <5>3. QED BY <1>1, <1>4, <4>1, <5>2 DEF Continues, Complete
      <4>2. CASE History[i] = Call(w, frame[w].n, acts[w].i, acts[w].v)
        <5>1. [History[i] EXCEPT !.act = @ + 1] = e
              BY <4>2 DEF Call
        <5>2. QED BY <1>4, <5>1 DEF Continues
      <4>3. QED BY <2>3, <4>1, <4>2
    <3>3. QED BY <2>1, <3>1, <3>2 DEF FollowsOn
  <2>4. QED BY <1>3, <2>2, <2>3 DEF LoopInv, LeftOff
<1>8. WholeFramesInOrder'
      BY <1>1, <1>2, <1>7, OrderGrows DEF FrameInv
(* The other loops see none of it. *)
<1>9. /\ \A x \in Inits \ {w} : /\ frame'[x] = frame[x] /\ acts'[x] = acts[x]
                                /\ loop'[x] = loop[x]
      BY DEF Enqueue, FrameDone, TypeInv, LoopType
<1>10. \A x \in Inits \ {w} : LoopInv(x)'
       BY <1>0, <1>1, <1>2, <1>9, CallsGrown, LoopKept DEF FrameInv
<1>11. CASE FrameDone(w)
  <2>1. Complete(n + 1)'
    <3>1. acts[w].i + 1 = ActionCount[acts[w].v][frame[w].k]
      <4>1. loop'[w] = "read"
            BY <1>11 DEF FrameDone, TypeInv, LoopType
      <4>2. QED BY <1>0, <4>1 DEF Enqueue
    <3>2. QED BY <1>0, <1>1, <1>4, <3>1, Holding DEF Complete
  <2>2. PipeOrdered(w)
        BY <1>3 DEF LoopInv
  <2>3. ASSUME NEW i \in 1..(n + 1), IsCallOf(w, i)'
        PROVE  /\ History'[i].frame <= emitted
               /\ \A j \in 1..Len(pipe[w]) : History'[i].frame < pipe[w][j].n
    <3>1. CASE i \in 1..n
          BY <1>3, <1>4, <1>5, <2>3, <3>1 DEF LoopInv, Ahead
    <3>2. CASE i = n + 1
          BY <1>1, <1>4, <2>2, <3>2 DEF PipeOrdered
    <3>3. QED BY <1>0, <3>1, <3>2
  <2>4. n + 1 \in 1..(n + 1)
        BY <1>0
  <2>5. LoopInv(w)'
        BY <1>0, <1>4, <1>6, <1>11, <2>1, <2>2, <2>3, <2>4, DoneFrames
  <2>6. QED BY <1>8, <1>10, <2>5 DEF FrameInv
<1>12. CASE ~FrameDone(w)
  <2>1. acts' = [acts EXCEPT ![w].i = @ + 1] /\ UNCHANGED <<loop, frame>>
        BY <1>12 DEF Enqueue
  <2>2. acts'[w].i = acts[w].i + 1 /\ acts'[w].v = acts[w].v
    <3>1. acts' = [acts EXCEPT ![w] = [acts[w] EXCEPT !.i = @ + 1]]
          BY <2>1
    <3>2. acts'[w] = [acts[w] EXCEPT !.i = @ + 1]
          BY <3>1 DEF TypeInv, LoopType
    <3>3. acts[w] \in [v : Versions, i : Nat]
          BY <1>0, Holding
    <3>4. QED BY <3>2, <3>3
  <2>3. PipeOrdered(w)'
        BY <1>0, <1>3, <2>1 DEF LoopInv, PipeOrdered
  <2>4. Ahead(w)'
    <3> SUFFICES ASSUME NEW i \in 1..(n + 1), IsCallOf(w, i)'
                 PROVE  /\ History'[i].frame <= emitted
                        /\ \A j \in 1..Len(pipe[w]) : History'[i].frame < pipe[w][j].n
                        /\ \/ History'[i].frame < frame[w].n
                           \/ /\ History'[i].frame = frame[w].n
                              /\ History'[i].act <= acts[w].i + 1
        BY <1>0, <1>4, <2>1, <2>2 DEF Ahead
    <3>1. CASE i \in 1..n
      <4>1. IsCallOf(w, i) /\ History'[i] = History[i] /\ History[i].act \in Nat
            BY <1>4, <1>5, <3>1, CallType DEF IsCallOf
      <4>2. QED BY <1>0, <1>3, <3>1, <4>1 DEF LoopInv, Ahead
    <3>2. CASE i = n + 1
          BY <1>0, <1>1, <1>3, <1>4, <3>2 DEF LoopInv, PipeOrdered
    <3>3. QED BY <1>0, <3>1, <3>2
  <2>5. LeftOff(w)'
    <3>1. acts'[w].i # 0
          BY <1>0, <2>2
    <3>2. History'[n + 1] = Call(w, frame'[w].n, acts'[w].i, acts'[w].v)
          BY <1>4, <2>1, <2>2
    <3>3. n + 1 \in 1..Len(History')
          BY <1>0, <1>4
    <3>4. QED BY <1>6, <3>1, <3>2, <3>3 DEF LeftOff
  <2>6. LoopInv(w)'
        BY <2>3, <2>4, <2>5 DEF LoopInv
  <2>7. QED BY <1>8, <1>10, <2>6 DEF FrameInv
<1>13. QED BY <1>11, <1>12

LEMMA FrameStep == TypeInv /\ TypeInv' /\ FrameInv /\ [Next]_vars => FrameInv'
<1> SUFFICES ASSUME TypeInv, TypeInv', FrameInv, [Next]_vars
             PROVE  FrameInv'
    OBVIOUS
<1>1. ASSUME NEW w \in Inits, Enqueue(w)
      PROVE  FrameInv'
  <2>1. Grown(Call(w, frame[w].n, acts[w].i + 1, acts[w].v))
        BY <1>1, Holding, HistoryGrows DEF Enqueue, Entries
  <2>2. QED BY <1>1, <2>1, EnqueueFrames
<1>2. QED BY <1>1, QuietStep, QuietFrames, ReadFrames, FailFrames, DecodeFrames, ConfigFrames,
             EmitFrames
          DEF Busy

(* A loop turns every frame into all of its actions, in order, under one   *)
(* version of the configuration, whatever is reloaded, lost or shut down.  *)
THEOREM FramesCorrect == Spec => []WholeFramesInOrder
<1>1. FrameInv => WholeFramesInOrder
      BY DEF FrameInv
<1>2. QED BY TypeAlways, FrameInit, FrameStep, <1>1, PTL DEF Spec

(* Until the first shutdown every call is of the one loop there is, and    *)
(* each is in front of the next.                                           *)
OneLoop ==
  \A i \in 1..Len(History) : History[i].what = "call" => loop[History[i].loop] # "off"

RepeatInv == cancelled = {} => OneLoop /\ NoRepeatBeforeShutdown

LEMMA RepeatInit == Init => RepeatInv
<1> SUFFICES ASSUME Init
             PROVE  RepeatInv
    OBVIOUS
<1>1. Len(History) = 0 /\ DOMAIN History = {}
      BY DEF Init, History
<1>2. QED BY <1>1 DEF RepeatInv, OneLoop, NoRepeatBeforeShutdown

LEMMA LoopsStay ==
  ASSUME TypeInv, [Next]_vars
  PROVE  /\ \A w \in Inits : loop[w] # "off" => loop'[w] # "off"
         /\ cancelled \subseteq cancelled'
<1>0. loop \in [Inits -> {"off", "watch", "dial", "read", "config", "enqueue", "sleep"}]
      BY DEF TypeInv, LoopType
<1>1. CASE InitCall \/ ShutdownCall \/ HandleEvents \/ Environment \/ UNCHANGED vars
      BY <1>0, <1>1 DEF InitCall, InitBegin, InitConfigFails, InitConfig, InitContext, InitGo,
                        InitStart, ShutdownCall, ShutdownCancel, ShutdownContext, ShutdownConfig,
                        HandleEvents, Environment, Emit, ConnectorStops, ConnectorStarts, EditFile,
                        apiVars, loopVars, vars
<1>2. ASSUME NEW w \in Inits, LoopStep(w)
      PROVE  /\ \A x \in Inits : loop[x] # "off" => loop'[x] # "off"
             /\ cancelled \subseteq cancelled'
      BY <1>0, <1>2 DEF LoopStep, Watch, WatchUnavailable, WatchPanics, Dial, DialFails, DialPanics,
                        CloseOnCancel, ReadFrame, ReadFails, GetConfig, DecodeFails, GetConfigPanics, Enqueue,
                        Wake, FrameDone, Panic, apiVars, loopVars
<1>3. ASSUME NEW r \in Reloads, ReloadStep(r)
      PROVE  UNCHANGED <<loop, cancelled>>
      BY <1>3 DEF ReloadStep, LoadRead, ReplaceCheck, ReplaceNothing, ReplaceWrite, ReplacePanics,
                  Panic, apiVars, loopVars
<1>4. QED BY <1>1, <1>2, <1>3 DEF Next

(* One more call repeats none that its loop has behind it. *)
LEMMA CallIsNew ==
  ASSUME TypeInv, AliveInv, FrameInv, RepeatInv, cancelled = {}, NEW w \in Inits,
         loop[w] = "enqueue", NEW i \in 1..Len(History), History[i].what = "call"
  PROVE  <<History[i].frame, History[i].act>> # <<frame[w].n, acts[w].i + 1>>
<1>1. History[i].loop \in Inits /\ loop[History[i].loop] # "off" /\ History[i].act \in Nat
      BY CallType DEF RepeatInv, OneLoop
<1>2. History[i].loop = w
      BY <1>1 DEF AliveInv, Alive
<1>3. \/ History[i].frame < frame[w].n
      \/ History[i].frame = frame[w].n /\ History[i].act <= acts[w].i
      BY <1>2 DEF FrameInv, LoopInv, Ahead, IsCallOf
<1>4. History[i].frame \in Nat /\ frame[w].n \in Nat /\ acts[w].i \in Nat
      BY CallType, Holding
<1>5. History[i].frame # frame[w].n \/ History[i].act # acts[w].i + 1
      BY <1>1, <1>3, <1>4
<1>6. QED BY <1>5

LEMMA RepeatStep ==
  TypeInv /\ TypeInv' /\ AliveInv /\ FrameInv /\ RepeatInv /\ [Next]_vars => RepeatInv'
<1> SUFFICES ASSUME TypeInv, TypeInv', AliveInv, FrameInv, RepeatInv, [Next]_vars,
                    cancelled' = {}
             PROVE  OneLoop' /\ NoRepeatBeforeShutdown'
    BY DEF RepeatInv
<1>0. /\ cancelled = {} /\ OneLoop /\ NoRepeatBeforeShutdown
      /\ \A w \in Inits : loop[w] # "off" => loop'[w] # "off"
      BY LoopsStay DEF RepeatInv
<1>1. /\ DOMAIN History = 1..Len(History) /\ Len(History) \in Nat
      /\ DOMAIN History' = 1..Len(History')
  <2>1. History' \in Seq(Entries)
        BY DEF TypeInv, QueueType, History
  <2>2. QED BY <2>1, HistoryType
<1>2. \A i \in 1..Len(History) :
        History[i].what = "call" => loop'[History[i].loop] # "off"
      BY <1>0, CallType DEF OneLoop
<1>3. \A i, j \in 1..Len(History) :
        (i # j /\ History[i].what = "call" /\ History[j].what = "call")
          => <<History[i].frame, History[i].act>> # <<History[j].frame, History[j].act>>
      BY <1>0, <1>1 DEF NoRepeatBeforeShutdown
<1>4. CASE History' = History
      BY <1>1, <1>2, <1>3, <1>4 DEF OneLoop, NoRepeatBeforeShutdown
<1>5. ASSUME NEW m \in {"INIT", "START"}, Grown(Marker(m))
      PROVE  OneLoop' /\ NoRepeatBeforeShutdown'
  <2>1. \A i \in 1..Len(History') :
          History'[i].what = "call" => i \in 1..Len(History) /\ History'[i] = History[i]
        BY <1>1, <1>5, MarkerType DEF Grown
  <2>2. QED BY <1>1, <1>2, <1>3, <2>1 DEF OneLoop, NoRepeatBeforeShutdown
<1>6. ASSUME NEW w \in Inits, Enqueue(w),
             Grown(Call(w, frame[w].n, acts[w].i + 1, acts[w].v))
      PROVE  OneLoop' /\ NoRepeatBeforeShutdown'
  <2>. PICK e : e = Call(w, frame[w].n, acts[w].i + 1, acts[w].v)
       OBVIOUS
  <2>1. /\ e.loop = w /\ e.frame = frame[w].n /\ e.act = acts[w].i + 1
        /\ loop[w] = "enqueue"
        BY <1>6 DEF Call, Enqueue
  <2>2. \A i \in 1..Len(History') :
          \/ i \in 1..Len(History) /\ History'[i] = History[i]
          \/ i = Len(History) + 1 /\ History'[i] = e
        BY <1>1, <1>6 DEF Grown
  <2>3. OneLoop'
        BY <1>0, <1>2, <2>1, <2>2 DEF OneLoop
  <2>4. \A i \in 1..Len(History) : History[i].what = "call" =>
          <<History[i].frame, History[i].act>> # <<e.frame, e.act>>
        BY <1>0, <2>1, CallIsNew
  <2>5. NoRepeatBeforeShutdown'
    <3> SUFFICES ASSUME NEW i \in 1..Len(History'), NEW j \in 1..Len(History'), i # j,
                        History'[i].what = "call", History'[j].what = "call"
                 PROVE  <<History'[i].frame, History'[i].act>>
                          # <<History'[j].frame, History'[j].act>>
        BY <1>1 DEF NoRepeatBeforeShutdown
    <3>1. CASE i \in 1..Len(History) /\ j \in 1..Len(History)
          BY <1>1, <1>3, <2>2, <3>1
    <3>2. CASE i = Len(History) + 1
      <4>1. j \in 1..Len(History) /\ History'[j] = History[j] /\ History'[i] = e
            BY <1>1, <2>2, <3>2
      <4>2. QED BY <2>4, <4>1
    <3>3. CASE j = Len(History) + 1
      <4>1. i \in 1..Len(History) /\ History'[i] = History[i] /\ History'[j] = e
            BY <1>1, <2>2, <3>3
      <4>2. QED BY <2>4, <4>1
    <3>4. QED BY <2>2, <3>1, <3>2, <3>3
  <2>6. QED BY <2>3, <2>5
<1>7. QED BY <1>4, <1>5, <1>6, QueueStep

(* Before the first shutdown no action of a frame reaches the queue twice, *)
(* however often the pipe is lost and dialled again.                       *)
THEOREM NoRepeatCorrect == Spec => []NoRepeatBeforeShutdown
<1>1. RepeatInv => NoRepeatBeforeShutdown
      BY DEF RepeatInv, NoRepeatBeforeShutdown
<1>2. QED BY TypeAlways, AliveInit, AliveStep, FrameInit, FrameStep, RepeatInit, RepeatStep, <1>1,
             PTL DEF Spec
=============================================================================
