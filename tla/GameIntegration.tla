--------------------------- MODULE GameIntegration ---------------------------
(***************************************************************************)
(* The DLL inside the game (cmd/twitch-integration: c.go and main.go).     *)
(*                                                                         *)
(* The game calls cInitIntegration, cShutdownIntegration and               *)
(* cHandleEvents, which exclude each other through funcMtx.  Every         *)
(* successful initialisation starts one goroutine that dials the           *)
(* connector's pipe, turns every frame into strings for the game and dials *)
(* again five seconds after any error.  The goroutines take no lock when   *)
(* they read the globals appCtx and activeCnf, and nothing ends them.      *)
(* Contexts and configuration objects are named by the initialisation that *)
(* made them; Nil is the nil pointer.                                      *)
(***************************************************************************)
EXTENDS Naturals, Sequences, FiniteSets

CONSTANTS
  MaxInits,    \* bound on the number of accepted calls of cInitIntegration
  MaxEvents,   \* bound on the number of frames the connector sends
  MaxVersion,  \* bound on the versions of twitch-integration.json
  Kinds,       \* what the configuration tells apart: commands, rewards, ...
  ActionCount, \* ActionCount[v][k]: actions version v configures for kind k
  Reloads      \* concurrent calls of loadConfig

Nil == 0
Inits == 1..MaxInits
Versions == 1..MaxVersion
Pointers == Inits \cup {Nil}

ASSUME GameAssumption ==
  /\ MaxInits \in Nat /\ MaxEvents \in Nat /\ MaxVersion \in Nat \ {0}
  /\ Kinds # {}
  /\ ActionCount \in [Versions -> [Kinds -> Nat]]

VARIABLES
  api,          \* the call that holds funcMtx, and how far it is
  inits,        \* number of accepted calls of cInitIntegration so far
  appCtx,       \* the global context
  appCtxCancel, \* the global cancel function, named by its context
  activeCnf,    \* the global pointer to the configuration in use
  cnf,          \* contents of each configuration object
  cancelled,    \* contexts that are cancelled
  queue,        \* funcQueue
  given,        \* history: what cHandleEvents handed to the game
  loop,         \* where each event goroutine is
  ctx,          \* the context each goroutine gave to handleEventPipe
  watchCtx,     \* the context of each goroutine's configuration watcher
  conn,         \* the pipe connection of each goroutine
  pipe,         \* frames each goroutine has not read yet
  frame,        \* the frame each goroutine handles
  acts,         \* the configuration it found, and the actions enqueued
  serverUp,     \* the connector is running
  emitted,      \* number of frames the connector has sent
  file,         \* the version on disk
  reload,       \* where each loadConfig call is
  read,         \* the version it read
  target,       \* the object activeCnf pointed to when it was checked
  crashed       \* a goroutine panicked, and the game with it

apiVars    == <<api, inits, appCtx, appCtxCancel, activeCnf, cancelled>>
queueVars  == <<queue, given>>
loopVars   == <<loop, ctx, watchCtx, conn, pipe, frame, acts>>
serverVars == <<serverUp, emitted>>
reloadVars == <<reload, read, target>>
vars == <<apiVars, cnf, queueVars, loopVars, serverVars, file, reloadVars, crashed>>

(* An entry of funcQueue: a marker, or action i of frame n for loop w. *)
Marker(m) == [what |-> m]
Call(w, n, i, v) == [what |-> "call", loop |-> w, frame |-> n, act |-> i, cnf |-> v]

(* A goroutine panics: the whole process is gone. *)
Panic ==
  /\ ~crashed
  /\ crashed' = TRUE
  /\ UNCHANGED <<apiVars, cnf, queueVars, loopVars, serverVars, file, reloadVars>>

(* Locals of handleEventPipe while it holds no frame. *)
NoFrame == [n |-> 0, k |-> CHOOSE k \in Kinds : TRUE]
NoActs  == [v |-> 1, i |-> 0]

(* configMtx is held between the nil check and the write of ReplaceConfig. *)
ConfigLocked == \E r \in Reloads : reload[r] = "write"

(* The iteration of handleEventPipe is over: read the next frame. *)
FrameDone(w) ==
  /\ loop' = [loop EXCEPT ![w] = "read"]
  /\ frame' = [frame EXCEPT ![w] = NoFrame]
  /\ acts' = [acts EXCEPT ![w] = NoActs]

-----------------------------------------------------------------------------
(* Broken variants, never part of Next. *)

(* cInitIntegration without the "already running" check. *)
InitBeginUnchecked ==
  /\ ~crashed
  /\ api = "idle"
  /\ inits < MaxInits
  /\ inits' = inits + 1
  /\ queue' = Append(queue, Marker("INIT"))
  /\ api' = "config"
  /\ UNCHANGED <<appCtx, appCtxCancel, activeCnf, cancelled, cnf, given,
                 loopVars, serverVars, file, reloadVars, crashed>>

(* A new session announces itself in front of what the last one has left. *)
InitBeginInFront ==
  /\ ~crashed
  /\ api = "idle"
  /\ appCtxCancel = Nil
  /\ inits < MaxInits
  /\ inits' = inits + 1
  /\ queue' = <<Marker("INIT")>> \o queue
  /\ api' = "config"
  /\ UNCHANGED <<appCtx, appCtxCancel, activeCnf, cancelled, cnf, given,
                 loopVars, serverVars, file, reloadVars, crashed>>

(* The goroutine starts before the context is made. *)
InitConfigEarlyGo ==
  /\ ~crashed
  /\ api = "config"
  /\ activeCnf' = inits
  /\ cnf' = [cnf EXCEPT ![inits] = file]
  /\ loop' = [loop EXCEPT ![inits] = "watch"]
  /\ api' = "context"
  /\ UNCHANGED <<inits, appCtx, appCtxCancel, cancelled, queueVars, ctx, watchCtx,
                 conn, pipe, frame, acts, serverVars, file, reloadVars, crashed>>

(* The actions of one frame are looked up again for each of them. *)
EnqueueRereading(w) ==
  /\ ~crashed
  /\ loop[w] = "enqueue"
  /\ activeCnf # Nil
  /\ queue' = Append(queue, Call(w, frame[w].n, acts[w].i + 1, cnf[activeCnf]))
  /\ IF acts[w].i + 1 = ActionCount[acts[w].v][frame[w].k]
     THEN FrameDone(w)
     ELSE acts' = [acts EXCEPT ![w].i = @ + 1] /\ UNCHANGED <<loop, frame>>
  /\ UNCHANGED <<apiVars, cnf, given, ctx, watchCtx, conn, pipe, serverVars, file,
                 reloadVars, crashed>>

(* One action too many: the loop over the actions runs past their end. *)
EnqueuePastEnd(w) ==
  /\ ~crashed
  /\ loop[w] = "enqueue"
  /\ queue' = Append(queue, Call(w, frame[w].n, acts[w].i + 1, acts[w].v))
  /\ IF acts[w].i = ActionCount[acts[w].v][frame[w].k]
     THEN FrameDone(w)
     ELSE acts' = [acts EXCEPT ![w].i = @ + 1] /\ UNCHANGED <<loop, frame>>
  /\ UNCHANGED <<apiVars, cnf, given, ctx, watchCtx, conn, pipe, serverVars, file,
                 reloadVars, crashed>>

(* handleEventPipe does not start the goroutine that closes its pipe. *)
CloserMissing(w) == FALSE /\ UNCHANGED vars

(* The goroutine ends when handleEventPipe returns an error. *)
ReadFailsForGood(w) ==
  /\ ~crashed
  /\ loop[w] = "read"
  /\ loop' = [loop EXCEPT ![w] = "off"]
  /\ conn' = [conn EXCEPT ![w] = "none"]
  /\ ctx' = [ctx EXCEPT ![w] = Nil]
  /\ pipe' = [pipe EXCEPT ![w] = <<>>]
  /\ UNCHANGED <<apiVars, cnf, queueVars, watchCtx, frame, acts, serverVars,
                 file, reloadVars, crashed>>

-----------------------------------------------------------------------------
(* cInitIntegration, under funcMtx.  An error of an early return is only   *)
(* reported to the game.                                                   *)

InitBegin ==
  /\ ~crashed
  /\ api = "idle"
  /\ appCtxCancel = Nil
  /\ inits < MaxInits
  /\ inits' = inits + 1
  /\ queue' = Append(queue, Marker("INIT"))
  /\ api' = "config"
  /\ UNCHANGED <<appCtx, appCtxCancel, activeCnf, cancelled, cnf, given,
                 loopVars, serverVars, file, reloadVars, crashed>>

(* readConfigJson failed: INIT stays in the queue. *)
InitConfigFails ==
  /\ ~crashed
  /\ api = "config"
  /\ api' = "idle"
  /\ UNCHANGED <<inits, appCtx, appCtxCancel, activeCnf, cancelled, cnf, queueVars,
                 loopVars, serverVars, file, reloadVars, crashed>>

(* activeCnf = &cnf, without configMtx. *)
InitConfig ==
  /\ ~crashed
  /\ api = "config"
  /\ activeCnf' = inits
  /\ cnf' = [cnf EXCEPT ![inits] = file]
  /\ api' = "context"
  /\ UNCHANGED <<inits, appCtx, appCtxCancel, cancelled, queueVars, loopVars,
                 serverVars, file, reloadVars, crashed>>

InitContext ==
  /\ ~crashed
  /\ api = "context"
  /\ appCtx' = inits
  /\ appCtxCancel' = inits
  /\ api' = "go"
  /\ UNCHANGED <<inits, activeCnf, cancelled, cnf, queueVars, loopVars, serverVars, file,
                 reloadVars, crashed>>

InitGo ==
  /\ ~crashed
  /\ api = "go"
  /\ loop' = [loop EXCEPT ![inits] = "watch"]
  /\ api' = "start"
  /\ UNCHANGED <<inits, appCtx, appCtxCancel, activeCnf, cancelled, cnf, queueVars,
                 ctx, watchCtx, conn, pipe, frame, acts, serverVars, file, reloadVars,
                 crashed>>

InitStart ==
  /\ ~crashed
  /\ api = "start"
  /\ queue' = Append(queue, Marker("START"))
  /\ api' = "idle"
  /\ UNCHANGED <<inits, appCtx, appCtxCancel, activeCnf, cancelled, cnf, given,
                 loopVars, serverVars, file, reloadVars, crashed>>

(* cShutdownIntegration, under funcMtx: one global after the other. *)
ShutdownCancel ==
  /\ ~crashed
  /\ api = "idle"
  /\ appCtxCancel # Nil
  /\ cancelled' = cancelled \cup {appCtxCancel}
  /\ appCtxCancel' = Nil
  /\ api' = "dropctx"
  /\ UNCHANGED <<inits, appCtx, activeCnf, cnf, queueVars, loopVars, serverVars,
                 file, reloadVars, crashed>>

ShutdownContext ==
  /\ ~crashed
  /\ api = "dropctx"
  /\ appCtx' = Nil
  /\ api' = "dropcnf"
  /\ UNCHANGED <<inits, appCtxCancel, activeCnf, cancelled, cnf, queueVars, loopVars,
                 serverVars, file, reloadVars, crashed>>

ShutdownConfig ==
  /\ ~crashed
  /\ api = "dropcnf"
  /\ activeCnf' = Nil
  /\ api' = "idle"
  /\ UNCHANGED <<inits, appCtx, appCtxCancel, cancelled, cnf, queueVars, loopVars,
                 serverVars, file, reloadVars, crashed>>

(* cHandleEvents: its early returns leave the queue alone. *)
HandleEvents ==
  /\ ~crashed
  /\ api = "idle"
  /\ appCtx # Nil
  /\ activeCnf # Nil
  /\ queue # <<>>
  /\ given' = Append(given, Head(queue))
  /\ queue' = Tail(queue)
  /\ UNCHANGED <<apiVars, cnf, loopVars, serverVars, file, reloadVars, crashed>>

-----------------------------------------------------------------------------
(* The goroutine of cInitIntegration. *)

(* watchForConfigChanges derives a context from the global one. *)
Watch(w) ==
  /\ ~crashed
  /\ loop[w] = "watch"
  /\ appCtx # Nil
  /\ watchCtx' = [watchCtx EXCEPT ![w] = appCtx]
  /\ loop' = [loop EXCEPT ![w] = "dial"]
  /\ UNCHANGED <<apiVars, cnf, queueVars, ctx, conn, pipe, frame, acts, serverVars,
                 file, reloadVars, crashed>>

(* There is no watcher: hot reloading is off, and only that. *)
WatchUnavailable(w) ==
  /\ ~crashed
  /\ loop[w] = "watch"
  /\ loop' = [loop EXCEPT ![w] = "dial"]
  /\ UNCHANGED <<apiVars, cnf, queueVars, ctx, watchCtx, conn, pipe, frame, acts,
                 serverVars, file, reloadVars, crashed>>

WatchPanics(w) == loop[w] = "watch" /\ appCtx = Nil /\ Panic

Dial(w) ==
  /\ ~crashed
  /\ loop[w] = "dial"
  /\ appCtx \notin cancelled \cup {Nil}
  /\ serverUp
  /\ ctx' = [ctx EXCEPT ![w] = appCtx]
  /\ conn' = [conn EXCEPT ![w] = "up"]
  /\ loop' = [loop EXCEPT ![w] = "read"]
  /\ UNCHANGED <<apiVars, cnf, queueVars, watchCtx, pipe, frame, acts, serverVars,
                 file, reloadVars, crashed>>

(* No pipe, no free instance of it, or a context that is cancelled. *)
DialFails(w) ==
  /\ ~crashed
  /\ loop[w] = "dial"
  /\ appCtx # Nil
  /\ ~serverUp \/ appCtx \in cancelled
  /\ loop' = [loop EXCEPT ![w] = "sleep"]
  /\ UNCHANGED <<apiVars, cnf, queueVars, ctx, watchCtx, conn, pipe, frame, acts,
                 serverVars, file, reloadVars, crashed>>

DialPanics(w) == loop[w] = "dial" /\ appCtx = Nil /\ Panic

(* The goroutine of handleEventPipe that waits for ctx.Done. *)
CloseOnCancel(w) ==
  /\ ~crashed
  /\ conn[w] \in {"up", "lost"}
  /\ ctx[w] \in cancelled
  /\ conn' = [conn EXCEPT ![w] = "closed"]
  /\ UNCHANGED <<apiVars, cnf, queueVars, loop, ctx, watchCtx, pipe, frame, acts,
                 serverVars, file, reloadVars, crashed>>

ReadFrame(w) ==
  /\ ~crashed
  /\ loop[w] = "read"
  /\ conn[w] \in {"up", "lost"}
  /\ pipe[w] # <<>>
  /\ frame' = [frame EXCEPT ![w] = Head(pipe[w])]
  /\ pipe' = [pipe EXCEPT ![w] = Tail(@)]
  /\ loop' = [loop EXCEPT ![w] = "config"]
  /\ UNCHANGED <<apiVars, cnf, queueVars, ctx, watchCtx, conn, acts, serverVars,
                 file, reloadVars, crashed>>

(* A broken pipe, or a frame that is too long or not a valid envelope:     *)
(* handleEventPipe returns, what was not read is lost.                     *)
ReadFails(w) ==
  /\ ~crashed
  /\ loop[w] = "read"
  /\ loop' = [loop EXCEPT ![w] = "sleep"]
  /\ conn' = [conn EXCEPT ![w] = "none"]
  /\ ctx' = [ctx EXCEPT ![w] = Nil]
  /\ pipe' = [pipe EXCEPT ![w] = <<>>]
  /\ UNCHANGED <<apiVars, cnf, queueVars, watchCtx, frame, acts, serverVars,
                 file, reloadVars, crashed>>

(* GetConfig copies the configuration, and the frame is looked up in it. *)
GetConfig(w) ==
  /\ ~crashed
  /\ loop[w] = "config"
  /\ ~ConfigLocked
  /\ activeCnf # Nil
  /\ LET v == cnf[activeCnf] IN
       IF ActionCount[v][frame[w].k] = 0
       THEN FrameDone(w)
       ELSE /\ acts' = [acts EXCEPT ![w].v = v]
            /\ loop' = [loop EXCEPT ![w] = "enqueue"]
            /\ frame' = frame
  /\ UNCHANGED <<apiVars, cnf, queueVars, ctx, watchCtx, conn, pipe, serverVars,
                 file, reloadVars, crashed>>

(* The data of the envelope is no event of its type: handleEventPipe       *)
(* returns, but only after it has the configuration.                       *)
DecodeFails(w) ==
  /\ ~crashed
  /\ loop[w] = "config"
  /\ ~ConfigLocked
  /\ activeCnf # Nil
  /\ loop' = [loop EXCEPT ![w] = "sleep"]
  /\ conn' = [conn EXCEPT ![w] = "none"]
  /\ ctx' = [ctx EXCEPT ![w] = Nil]
  /\ pipe' = [pipe EXCEPT ![w] = <<>>]
  /\ frame' = [frame EXCEPT ![w] = NoFrame]
  /\ UNCHANGED <<apiVars, cnf, queueVars, watchCtx, acts, serverVars,
                 file, reloadVars, crashed>>

GetConfigPanics(w) ==
  loop[w] = "config" /\ ~ConfigLocked /\ activeCnf = Nil /\ Panic

(* enqueueEvent, once per action. *)
Enqueue(w) ==
  /\ ~crashed
  /\ loop[w] = "enqueue"
  /\ queue' = Append(queue, Call(w, frame[w].n, acts[w].i + 1, acts[w].v))
  /\ IF acts[w].i + 1 = ActionCount[acts[w].v][frame[w].k]
     THEN FrameDone(w)
     ELSE acts' = [acts EXCEPT ![w].i = @ + 1] /\ UNCHANGED <<loop, frame>>
  /\ UNCHANGED <<apiVars, cnf, given, ctx, watchCtx, conn, pipe, serverVars, file,
                 reloadVars, crashed>>

(* Five seconds later. *)
Wake(w) ==
  /\ ~crashed
  /\ loop[w] = "sleep"
  /\ loop' = [loop EXCEPT ![w] = "dial"]
  /\ UNCHANGED <<apiVars, cnf, queueVars, ctx, watchCtx, conn, pipe, frame, acts,
                 serverVars, file, reloadVars, crashed>>

-----------------------------------------------------------------------------
(* loadConfig, called by a configuration watcher: read, check, write.  The *)
(* timer of a call may be taken although its session is over (ConfigReload *)
(* has the calls).                                                         *)

LoadRead(r) ==
  /\ ~crashed
  /\ reload[r] = "idle"
  /\ \E w \in Inits : watchCtx[w] # Nil
  /\ read' = [read EXCEPT ![r] = file]
  /\ reload' = [reload EXCEPT ![r] = "check"]
  /\ UNCHANGED <<apiVars, cnf, queueVars, loopVars, serverVars, file, target, crashed>>

ReplaceCheck(r) ==
  /\ ~crashed
  /\ reload[r] = "check"
  /\ ~ConfigLocked
  /\ activeCnf # Nil
  /\ target' = [target EXCEPT ![r] = activeCnf]
  /\ reload' = [reload EXCEPT ![r] = "write"]
  /\ UNCHANGED <<apiVars, cnf, queueVars, loopVars, serverVars, file, read, crashed>>

(* There is no configuration to replace: the early return. *)
ReplaceNothing(r) ==
  /\ ~crashed
  /\ reload[r] = "check"
  /\ ~ConfigLocked
  /\ activeCnf = Nil
  /\ reload' = [reload EXCEPT ![r] = "idle"]
  /\ read' = [read EXCEPT ![r] = 1]
  /\ UNCHANGED <<apiVars, cnf, queueVars, loopVars, serverVars, file, target, crashed>>

(* *activeCnf = c.  The pointer may be read again after the check, and the *)
(* API writes it without configMtx.                                        *)
ReplaceWrite(r) ==
  /\ ~crashed
  /\ reload[r] = "write"
  /\ \E o \in {target[r], activeCnf} \ {Nil} : cnf' = [cnf EXCEPT ![o] = read[r]]
  /\ reload' = [reload EXCEPT ![r] = "idle"]
  /\ read' = [read EXCEPT ![r] = 1]
  /\ target' = [target EXCEPT ![r] = Nil]
  /\ UNCHANGED <<apiVars, queueVars, loopVars, serverVars, file, crashed>>

ReplacePanics(r) == reload[r] = "write" /\ activeCnf = Nil /\ Panic

-----------------------------------------------------------------------------
(* The connector and the user's editor. *)

Emit(k) ==
  /\ ~crashed
  /\ serverUp
  /\ emitted < MaxEvents
  /\ emitted' = emitted + 1
  /\ pipe' = [w \in Inits |-> IF conn[w] = "up"
                              THEN Append(pipe[w], [n |-> emitted + 1, k |-> k])
                              ELSE pipe[w]]
  /\ UNCHANGED <<apiVars, cnf, queueVars, loop, ctx, watchCtx, conn, frame, acts,
                 serverUp, file, reloadVars, crashed>>

ConnectorStops ==
  /\ ~crashed
  /\ serverUp
  /\ serverUp' = FALSE
  /\ conn' = [w \in Inits |-> IF conn[w] = "up" THEN "lost" ELSE conn[w]]
  /\ UNCHANGED <<apiVars, cnf, queueVars, loop, ctx, watchCtx, pipe, frame, acts,
                 emitted, file, reloadVars, crashed>>

ConnectorStarts ==
  /\ ~crashed
  /\ ~serverUp
  /\ serverUp' = TRUE
  /\ UNCHANGED <<apiVars, cnf, queueVars, loopVars, emitted, file, reloadVars, crashed>>

EditFile ==
  /\ ~crashed
  /\ file < MaxVersion
  /\ file' = file + 1
  /\ UNCHANGED <<apiVars, cnf, queueVars, loopVars, serverVars, reloadVars, crashed>>

-----------------------------------------------------------------------------
Init ==
  /\ api = "idle"
  /\ inits = 0
  /\ appCtx = Nil
  /\ appCtxCancel = Nil
  /\ activeCnf = Nil
  /\ cnf = [o \in Inits |-> 1]
  /\ cancelled = {}
  /\ queue = <<>>
  /\ given = <<>>
  /\ loop = [w \in Inits |-> "off"]
  /\ ctx = [w \in Inits |-> Nil]
  /\ watchCtx = [w \in Inits |-> Nil]
  /\ conn = [w \in Inits |-> "none"]
  /\ pipe = [w \in Inits |-> <<>>]
  /\ frame = [w \in Inits |-> NoFrame]
  /\ acts = [w \in Inits |-> NoActs]
  /\ serverUp = TRUE
  /\ emitted = 0
  /\ file = 1
  /\ reload = [r \in Reloads |-> "idle"]
  /\ read = [r \in Reloads |-> 1]
  /\ target = [r \in Reloads |-> Nil]
  /\ crashed = FALSE

InitCall == InitBegin \/ InitConfigFails \/ InitConfig \/ InitContext \/ InitGo
              \/ InitStart

ShutdownCall == ShutdownCancel \/ ShutdownContext \/ ShutdownConfig

LoopStep(w) ==
  \/ Watch(w) \/ WatchUnavailable(w) \/ WatchPanics(w)
  \/ Dial(w) \/ DialFails(w) \/ DialPanics(w)
  \/ CloseOnCancel(w)
  \/ ReadFrame(w) \/ ReadFails(w)
  \/ GetConfig(w) \/ DecodeFails(w) \/ GetConfigPanics(w)
  \/ Enqueue(w)
  \/ Wake(w)

ReloadStep(r) ==
  \/ LoadRead(r)
  \/ ReplaceCheck(r) \/ ReplaceNothing(r)
  \/ ReplaceWrite(r) \/ ReplacePanics(r)

Environment ==
  \/ \E k \in Kinds : Emit(k)
  \/ ConnectorStops
  \/ ConnectorStarts
  \/ EditFile

Next ==
  \/ InitCall
  \/ ShutdownCall
  \/ HandleEvents
  \/ \E w \in Inits : LoopStep(w)
  \/ \E r \in Reloads : ReloadStep(r)
  \/ Environment

Spec == Init /\ [][Next]_vars

(***************************************************************************)
(* A call of the API that has started, a goroutine and a loadConfig call   *)
(* keep running.  A blocked read ends only when the pipe is closed.  A Go  *)
(* mutex does not starve a goroutine that waits for it while others lock   *)
(* it again and again.                                                     *)
(* Nothing makes the game call, the connector run or the user edit.        *)
(***************************************************************************)
Fairness ==
  /\ WF_vars(api # "idle" /\ (InitCall \/ ShutdownCall))
  /\ \A w \in Inits :
       /\ WF_vars(Watch(w) \/ WatchPanics(w))
       /\ WF_vars(Dial(w) \/ DialFails(w) \/ DialPanics(w))
       /\ WF_vars(CloseOnCancel(w))
       /\ WF_vars(ReadFrame(w) \/ (conn[w] # "up" /\ ReadFails(w)))
       /\ SF_vars(GetConfig(w) \/ DecodeFails(w) \/ GetConfigPanics(w))
       /\ WF_vars(Enqueue(w))
       /\ WF_vars(Wake(w))
  /\ \A r \in Reloads :
       WF_vars(ReplaceCheck(r) \/ ReplaceNothing(r) \/ ReplaceWrite(r))

FairSpec == Spec /\ Fairness

-----------------------------------------------------------------------------
(* Properties. *)

Calls ==
  {e \in [what : {"call"}, loop : Inits, frame : 1..MaxEvents, act : Nat \ {0}, cnf : Versions] :
     \E k \in Kinds : e.act <= ActionCount[e.cnf][k]}

Entries == Calls \cup {Marker("INIT"), Marker("START")}

Frames == [n : 1..MaxEvents, k : Kinds]

(* Every variable has its type. *)
TypeOK ==
  /\ api \in {"idle", "config", "context", "go", "start", "dropctx", "dropcnf"}
  /\ inits \in 0..MaxInits
  /\ {appCtx, appCtxCancel, activeCnf} \subseteq Pointers
  /\ cnf \in [Inits -> Versions]
  /\ cancelled \subseteq Inits
  /\ queue \in Seq(Entries)
  /\ given \in Seq(Entries)
  /\ loop \in [Inits -> {"off", "watch", "dial", "read", "config", "enqueue", "sleep"}]
  /\ ctx \in [Inits -> Pointers]
  /\ watchCtx \in [Inits -> Pointers]
  /\ conn \in [Inits -> {"none", "up", "lost", "closed"}]
  /\ pipe \in [Inits -> Seq(Frames)]
  /\ frame \in [Inits -> Frames \cup {NoFrame}]
  /\ acts \in [Inits -> [v : Versions, i : Nat]]
  /\ serverUp \in BOOLEAN
  /\ emitted \in 0..MaxEvents
  /\ file \in Versions
  /\ reload \in [Reloads -> {"idle", "check", "write"}]
  /\ read \in [Reloads -> Versions]
  /\ target \in [Reloads -> Pointers]
  /\ crashed \in BOOLEAN

(* Everything that was ever put into funcQueue, and whether entry j is a   *)
(* call that loop w put there.                                             *)
History == given \o queue
IsCallOf(w, j) == History[j].what = "call" /\ History[j].loop = w

(* Call j goes on where call i of the same loop left off: with the next    *)
(* action, or, after the last one, with the first action of a later frame. *)
Continues(i, j) ==
  \/ History[j] = [History[i] EXCEPT !.act = @ + 1]
  \/ /\ \E k \in Kinds : History[i].act = ActionCount[History[i].cnf][k]
     /\ History[i].frame < History[j].frame
     /\ History[j].act = 1

(* Call j of loop w is its first, or continues the one before it. *)
FollowsOn(w, j) ==
  LET earlier == {i \in 1..(j - 1) : IsCallOf(w, i)} IN
  \/ earlier = {} /\ History[j].act = 1
  \/ \E i \in earlier : (\A h \in earlier : h <= i) /\ Continues(i, j)

(* However initialisations, shutdowns, reloads, reconnects and the other   *)
(* loops interleave, a loop that enqueues an action of a frame enqueues    *)
(* all of them, in order and from one version of the configuration, before *)
(* it goes on to a later frame.                                            *)
WholeFramesInOrder ==
  \A w \in Inits : \A j \in DOMAIN History : IsCallOf(w, j) => FollowsOn(w, j)

(* Before the first shutdown no goroutine dereferences a nil global: the   *)
(* configuration and the context exist before the goroutine that uses them *)
(* starts, and reloads replace the configuration in place.                 *)
NoPanicBeforeShutdown == crashed => cancelled # {}

(* Before the first shutdown no action of a frame is enqueued twice: there *)
(* is one loop, and a reconnect never replays a frame.                     *)
NoRepeatBeforeShutdown ==
  cancelled = {} =>
    \A i, j \in DOMAIN History :
      (i # j /\ History[i].what = "call" /\ History[j].what = "call")
        => <<History[i].frame, History[i].act>> # <<History[j].frame, History[j].act>>

(* Nothing is dropped from funcQueue, reordered in it or put in front of   *)
(* what waits there, and an initialisation announces itself at its end.    *)
OnlyAppended ==
  /\ Len(History) <= Len(History')
  /\ \A j \in DOMAIN History : History'[j] = History[j]
  /\ inits' # inits => /\ Len(History') = Len(History) + 1
                       /\ History'[Len(History')] = Marker("INIT")

(* A call of loop w has at least w announcements in front of it. *)
AnnouncedFirst ==
  \A j \in DOMAIN History : History[j].what = "call" =>
    History[j].loop <= Cardinality({i \in 1..j : History[i] = Marker("INIT")})

(* A shutdown leaves funcQueue as it is, whatever comes after it: what a   *)
(* session has left there is handed to the game in front of the INIT of    *)
(* the next one, every initialisation is announced, even one that then     *)
(* fails to read its configuration, and no action overtakes the INIT of    *)
(* its own session or of an earlier one.                                   *)
SessionsInOrder == [][OnlyAppended]_<<queueVars, inits>> /\ []AnnouncedFirst

(* A shutdown ends the connections of its session: no loop goes on reading *)
(* with a cancelled context.                                               *)
CancelledReadEnds ==
  \A w \in Inits :
    (loop[w] = "read" /\ ctx[w] \in cancelled) ~> (loop[w] # "read" \/ crashed)

(* A loop whose connection failed is connected again when there is a       *)
(* session and a connector to talk to, however often that has happened.    *)
LoopReconnects ==
  \A w \in Inits :
    (loop[w] = "read" /\ conn[w] # "up")
      ~> (conn[w] = "up" \/ ~serverUp \/ appCtx \in cancelled \cup {Nil} \/ crashed)
=============================================================================
