# A verification project for twitch-game-integration

The repository builds two programs. The *connector*
(`cmd/twitch-integration-connector`) listens to Twitch and StreamElements and
writes every event to named pipes. The *DLL* (`cmd/twitch-integration`) runs
inside the game, reads one of these pipes and hands strings to the game. The
modules here model what the two programs do concurrently: goroutines, channels,
locks, contexts, connections that fail and configuration that is reloaded while
it is in use, and the two formats the data passes through, the frames of the pipe
and the lines of IRC. Payloads are abstract. A third part, the EventSub webhook
client, is a library no command uses yet.

- [The system](#the-system)
- [The modules](#the-modules)
- [The runs](#the-runs)
- [Fairness](#fairness)
- [What is proved](#what-is-proved)
- [Where the code and its documentation part](#where-the-code-and-its-documentation-part)
- [What is not modelled](#what-is-not-modelled)
- [Plan](#plan)

## The system

| Component | State it keeps | Operations | Talks to |
|---|---|---|---|
| Event broker, `broker.go` | channel of events (capacity 1), map of clients, registration channels | `Publish`, `Add`, `Remove`, `Run` | services (publish), pipe clients (channel of 10 each) |
| Pipe clients, `pipeclient.go`, `write.go` | one goroutine and one channel per connection | accept, write a frame, ping, leave | broker, DLL (named pipe) |
| Chat service, `chat.go`, and IRC client, `twitch/irc/connection.go` | connection, maps of handler channels under `handlerMtx`, `doneListening` | `OpenContext`, `JoinContext`, `Close`, `OnMessage`, the listener | Twitch IRC, broker |
| Channel points and bits, `pubsub.go`, and PubSub connection, `twitch/pubsub/pubsub.go` | connection, channel of events (capacity 1), maps of pending answers, tokens and topics, timers | `Connect`, `Sub`, `ProcessEvents`, `reconnect`, `Close` | Twitch PubSub, broker |
| StreamElements service, `streamelements.go` | socket.io client, channel of messages | connect, authenticate, the consume loop | StreamElements, broker |
| Service manager and `main.go` | one context, a `sync.Map` with the names of running services | `Add`, `Stop` | every service |
| Game API, `c.go` | `appCtx`, `appCtxCancel`, `activeCnf`, `funcQueue`, two mutexes | `cInitIntegration`, `cShutdownIntegration`, `cHandleEvents`, `loadConfig` | the game, the event loop |
| Event loop, `main.go` of the DLL | pipe connection, the frame it handles | dial, read, look up, enqueue, retry | connector, game API |
| Hot reload, `config.go` of the DLL | the newest reload context | `watchForConfigChanges`, `fnTriggerReload` | file system, game API |
| `src/broker.go` (`chat.Broker`) | slice of listeners | subscribe, remove, publish | used by no command |
| EventSub webhooks, `twitch/eventsub` | application token and its expiry, secrets of pending subscriptions, subscriptions seen | `Subscribe`, `DeleteSubscription`, `AllSubscriptions`, `CallbackHandler` | Twitch, in both directions |
| IRC parser, `twitch/irc/parser.go` | none | `parseIRCv3`, `parseTags` | the IRC listener |
| Token validation, URLs, connector configuration | none | pure, or one request or file | chat, PubSub, `main.go` |

A chat message, a redemption or a tip travels

    Twitch -> listener / reader goroutine -> handler -> dataBroker.Publish
           -> dataBroker.Run -> channel of each client -> named pipe
           -> handleEventPipe -> funcQueue -> cHandleEvents -> the game

and every arrow is a channel, a socket or a lock. What makes the system hard is
on these arrows:

- sends that block. `Run` sends to its clients one after the other, the IRC
  listener sends while it holds `handlerMtx`, the PubSub reader sends to a
  channel of capacity one, and each receiver may at that moment be waiting for
  the sender;
- goroutines that outlive what they serve. The DLL's event loop survives a
  shutdown, a listener survives its connection, `Publish` outlives `Run`;
- pointers that are read again. `appCtx`, `activeCnf` and `c.conn` are evaluated
  anew at every use, most of them without a lock;
- answers that overtake records. `Sub` records its topic after it wrote the
  request, `pendingResponses` is never cleaned, `Subscribe` of the webhook client
  records a secret after Twitch may have called back about it;
- names that come late. A service stores its name on its own goroutine, and `Stop`
  waits for the names it finds;
- timers that race with answers: thirty seconds for a handshake, ten for a
  PONG, one for a reload.

What makes each component correct:

- *broker*: every event taken while a client is registered reaches the client's
  pipe once, in order, without a gap; the backlog is bounded; `Run` ends;
- *event loop*: each frame becomes all of its actions, in order, under one
  version of the configuration; nothing is repeated; a failed pipe is dialled
  again; a cancelled one is left; no nil pointer;
- *hot reload*: of the reloads that wait only the newest survives, and the last
  save is never lost;
- *chat*: a message is published once and in order; a shutdown completes, or what
  keeps it from completing is known; so is what makes the service panic;
- *PubSub*: no message of an acknowledged topic is dropped, a lost connection
  is noticed, a shutdown completes;
- *service manager*: the process does not end under a service that works, and ends
  after an interrupt;
- *frames*: what is written to a pipe is read back, whatever its length, up to
  the first frame the reader has no room for;
- *parser*: every line is taken for what was sent;
- *webhooks*: Twitch enables only subscriptions that were recorded; what was
  acknowledged was handled, unless it could not be read or decoded; a request
  carries a token, unless the token endpoint gave none.

`PROJECT.json` lists every hazard at its line with the properties aimed at it.

## The modules

| Module | Models | Composes |
|---|---|---|
| `FanOut` | what a broadcast log promises, abstractly | |
| `DataBroker` | `broker.go`, `pipeclient.go`, one action per select case, send, write and failure | publishers, `Run`, pipe clients, shutdown |
| `DataBrokerProofs` | theorems about it | |
| `GameIntegration` | `c.go`, `main.go` of the DLL | game, event loops, reloads, connector |
| `GameIntegrationProofs` | theorems about it | |
| `ConfigReload` | `watchForConfigChanges` and `loadConfig` | user, watcher, reload calls |
| `ConfigReloadProofs` | theorems about it | |
| `IrcChat` | `handleChat` and the client it drives | service goroutine, listeners, `OnMessage` goroutine, server |
| `IrcParser` | `parser.go` and how the client classifies a parsed line, as operators on tokens | |
| `IrcLines` | which lines stand for the messages of `IrcChat` | `IrcChat`, `IrcParser` |
| `IrcChatProofs` | theorems about `IrcChat`, `IrcParser` and `IrcLines` | |
| `PubSub` | `handlePubSub` and the connection it drives | service goroutine, readers, `ProcessEvents`, server |
| `PubSubProofs` | theorems about it | |
| `Framing` | `write.go` and the reader of `handleEventPipe`, as operators on bytes | |
| `Connector` | `main.go`, `serviceManager.go`, `streamelements.go`, and `pipeclient.go` as a service | `DataBroker`, `Framing` |
| `ConnectorProofs` | theorems about it and `Framing`, those of `DataBroker` drawn for its broker | `DataBrokerProofs` |
| `SequenceInduction` | no code: induction over numbers, recursive functions and flattened sequences, for the proofs about data | |
| `Webhook` | `webhook.go`, `Handler.Delegate` | callers, callbacks, Twitch |
| `WebhookProofs` | theorems about it | |
| `MC...` | instances for TLC | |

In each module one variable per goroutine says where it is between two steps
that others can observe, and an action is what happens between two such places.
Where the code reads a variable, unlocks and uses the value, there are two
actions. `Broken variants` are steps the code does not take; they are never
part of `Next` and exist to show that the properties would notice them.

**DataBroker.** `bpc` is the place of `Run` (its select, the fan-out, returned),
`cur` the client whose channel it is blocked on, `cpc` the place of each client
goroutine. Registration and removal are rendezvous with the select, so `RunAdd`
and `RunRemove` change both sides in one step, and a client waits in `"add"` or
`"remove"` until `Run` gets there. A fan-out visits the map in any order. A
client is one connection: a DLL that dials again is another client. `log`,
`join` and `written` are history. `FanOut` has only a log and how far each
reader has been served; the refinement mapping `Position` counts for each
client what has been written, is being written and waits in its channel.

**GameIntegration.** `cInitIntegration` and `cShutdownIntegration` hold
`funcMtx`, which the event loops never take, so each global they assign is a
step (`InitConfig`, `InitContext`, ..., `ShutdownConfig`). Contexts and
configuration objects are named by the initialisation that made them. One loop
per initialisation goes through watch, dial, read, look-up and enqueue, and
sleeps after every error, that of an envelope's data among them, which is noticed
only after the look-up (`DecodeFails`); it has no end. `loadConfig` is three steps (read the
file, check the pointer, write through it), the last two under `configMtx`. A
frame of the connector is a number and a kind; `ActionCount[v][k]` is how many
actions version `v` of the configuration has for kind `k`, so that mixing two
versions can be told. A panic of any goroutine ends the game: `crashed`.

**ConfigReload.** A version of the file is a number. A save makes one or more
write events, each starts a call; a call enters the mutex (`Enter`), waits for
its second or its cancellation (`GiveUp`, `Elapse`: both, if both are ready),
and then loads and replaces with nothing left to stop it. `readConfigJson` fails
only for a malformed file (`LoadFails`). One it cannot read gives the defaults and
no error (`LoadDefault`, `config.go:104-113`), and one that is missing is written
with the defaults (`CreateDefault`), over a save made since it looked. `looked` and
`content` are history: which version was looked at last, and what came of it.

**IrcChat.** The service goroutine's place is `main`, which starts at the validation
of the token by `irc.New` (`validate`, on a context nobody cancels and without a
timeout); each dial starts a listener with its own place `lpc[k]`, which evaluates
`c.conn` at every read (`lconn`). The handler channels are records with their
contents, whether they are registered and whether they are open; receiving from a
closed channel gives nil, sending to it panics. A goroutine that panics is in
`unwinding` and runs its deferred calls, in which it may block: those of a listener
take `handlerMtx`, close the channels, and put a token into `doneListening`. Only when
it has run them all does the process end (`Dies`). `handlerMtx` is `lock`. The server
may answer, refuse or stay silent, send chat and PINGs, and drop the connection.

**PubSub.** The service goroutine's place is `svc`, which starts at the first
validation (`check`, on a context nobody cancels and without a timeout), that of
`ProcessEvents` is `proc`, each connection has a reader with place `rpc[k]`. A request is named by
its topic, or by the connection it renews all topics on. `pending` never loses
an entry, as in the code. The unsynchronised maps are a step of their own,
`MapRace`: the Go runtime may end the process when `Sub` or `Handle` writes a map
while `ProcessEvents` uses it. What is left on a closed connection is forgotten
(`Shut`).

**IrcLines.** `IrcChat` passes around kinds of messages (`ack`, `joined`, `chat`,
...). `IrcLines` gives each kind the lines Twitch sends for it, in the form the
tests of the parser have them, and `IrcParser` has the parser and the comparisons
by which the listener and the waiting loops tell the kinds apart. A line is a
sequence of tokens; the characters the code looks for are tokens of their own.

**Connector.** `svc` is the place of each service's goroutine, `stored` the map of
names, `main` that of the main goroutine. The broker is an instance of
`DataBroker`, whose `Run`, `Accept`, `CloseListener` and `Cancel` are here steps
of services and of `Stop`. `Range` over a `sync.Map` takes no snapshot, so
`RangeFindsNone` may come while a name is there that was not when it began
(`late`). Chat and PubSub appear as services that may return at any moment or never,
and as goroutines that publish; when they do return is the subject of `IrcChat` and
`PubSub`. StreamElements ends only after the goroutines it has in the socket.io client
(`streamelements.go:67-68`), which is not in the repository and may never return either.

**Framing.** A frame is its length modulo `LenMod` followed by its bytes, and
the reader takes a length, waits for that many bytes and decodes them, or fails.

**Webhook.** One call per subscription goes through the check of the token, its
refresh in three steps (`Fetch` or `FetchEmpty`, `StoreToken`, `StoreExpiry`: there is
no lock, and what the check saw may be out of date by then), the header, the request and, for `Subscribe`, the record of the secret. Tokens are
numbered in the order of issue, an expiry is the number of the token it belongs
to, `Lapse` lets the oldest expire. Callbacks are on their way in `net` and stay
there when their answer is lost. A handler that returns has answered with 200
(`Answer200`), whether it called anything, could not read the body (`Unreadable`) or
could not decode the notification (`Delegate`). Each action on a callback is a whole handler:
`verifyOrRevokeWebhook` holds its mutex throughout, and `CallbackHandler` shares
only a `sync.Map` with others.

## The runs

Bounds are the CONSTANTS of each configuration. `CHECK_DEADLOCK` is off
everywhere because every one of these programs may come to rest: after a
shutdown, or in one of the cyclic waits the properties describe.

| Run | Question | Instance |
|---|---|---|
| `broker` | Is anything lost, repeated, reordered or delivered to the wrong set of clients? Does the broker implement `FanOut`? When does delivery or shutdown fail? | 2 clients, 1 publisher, 2 distinct events, channels of 1, 2 publications |
| `game_sessions` | Can the game panic or get an action twice before its first shutdown? What becomes of the actions a session leaves in the queue? | 2 sessions, 1 frame with 2 actions |
| `game_reload` | Are frames handled whole, under one version, across reloads and lost pipes? Does a cancelled read end, a failed loop reconnect? | 1 session, 2 frames, 2 kinds, 2 versions, 1 concurrent reload |
| `reload` | Does debouncing leave exactly the newest call, is the last save looked at, and is what was read last what is used if no two calls overlap? | 3 write events, a file that may be missing, unreadable or malformed |
| `irc_safety` | Do two listeners on one socket repeat or reorder messages, or misread a line? What panics? Are the locks never released that the properties call so? | 2 connections, 2 messages (chat, or one of them a PING or system message), all faults, channels of 1; 399 texts, 4 lists of tags |
| `irc_liveness` | Is what was sent published? Does the shutdown complete, around a second connection too? | 2 connections that may drop, 1 chat message, channels of 1 |
| `irc_deaf` | Does a client that joined hear? (Not always.) | 2 connections, 1 chat message |
| `pubsub_safety` | Are messages dropped around a subscription or after a reconnect? Does the service end after a cancellation, wherever it and `ProcessEvents` are? | 1 topic, 2 connections, 1 redemption, RECONNECT, refusals, a broker that stops |
| `pubsub_liveness` | Is what is on its way published, a loss noticed? | 2 topics, 1 connection that may drop, 1 redemption |
| `pubsub_reconnect` | Is a redemption published whatever RECONNECTs come? (No.) | 1 topic, 2 connections, 1 redemption |
| `connector` | Which services can `Stop` miss, what keeps it waiting, and is a blocked StreamElements for ever? Is what is written read back? | 5 services, 1 client, 1 publisher beside StreamElements, 2 publications, channels of 1; ten lengths around a buffer of 4 and lengths modulo 8 |
| `webhook` | Which subscriptions does Twitch enable or refuse? Which token does a request carry? Was everything acknowledged handled, and how often? | 2 subscriptions, 1 token beside the empty one, 1 notification, 1 lost answer |

Why these bounds are enough for the cases that matter:

- A channel of capacity one is full, empty and blocking within two messages; the
  code's 10 and 20 add no behaviour, only length. The wedge of the broker needs
  a full channel, an event in `Run`'s hands and a client that leaves, while a
  second client is there to starve: two clients, two publications.
- In `irc_liveness` one chat message, a drop, a cancellation and the two handshakes
  reach every panic, `LockCycle` and `SelfLocked`. A handler blocked by the broker is
  part of `irc_safety` only: with it the liveness run does not end in minutes.
- A mixed frame needs two actions and two versions; a repeated one needs a second
  session; a frame lost with its pipe needs a second frame.
- Reloads race in pairs; the third call is the one that comes while two others
  are past and before their select.
- Two connections are what it takes to have an old listener beside a new one,
  or a subscription renewed. `MaxConns` bounds successful dials; failing ones
  are unlimited.

- `MaxSent` bounds the chat messages and the noise of the server together. One message
  is enough for a listener to send to a channel the other one closed, or to block on
  a channel the late answer to a request has filled (`irc_liveness`).
- A frame can fit the buffer, miss it, wrap to a length that fits, wrap to zero,
  and be followed by another: two frames with lengths on both sides of 4, 8 and 16.
- A chat text shorter than three tokens cannot hold a colon or a space between two
  others; longer ones add no new neighbourhood of the characters looked for.
- Two calls are what it takes to refresh the token together. With one token that
  lapses, and answers that have none, they leave the token and its expiry different.
  A lost answer makes Twitch ask once more, which is what spends a secret twice.
- Chat and PubSub are alike to `Stop`, and one service stands for both.
- A connection that is lost is part of `pubsub_liveness`, on one connection: there the
  loss must be noticed. In `pubsub_safety` the second one follows a RECONNECT or a
  missing PONG.

No safety property depends on these bounds: each is proved for all of them (below).

What the more unusual properties say:

- `WedgeIsForever`: when a client's write fails while its channel is full and
  `Run` is sending to it, the client waits in `Remove` for `Run`, and `Run` for
  the client. No later step, not even the shutdown, ends this.
  `DeliveredUnlessWedged` and `RunReturnsUnlessWedged` say it is the *only* way
  for a healthy client to starve or for `Run` not to return.
- `NoPanicBeforeShutdown`, `NoRepeatBeforeShutdown` hold until the first
  `cShutdownIntegration` and no longer. Afterwards the old loop dials with a nil
  context or reads a nil configuration (`c.go:140`, `c.go:199`), or, if the game
  initialises again, feeds the queue beside the new one.
- `PanicsExplained`: nothing in the chat service panics before a listener has ended or
  `Close` has begun. A listener panics on channels another one closed
  (`connection.go:400`, `403`, `486`, `493`), or between two reads when `Close` has set
  `c.conn` to nil; the service goroutine on the nil message of a closed channel
  (`connection.go:198`, `304`).
- `LockCycleIsForever`: two ways to hold `handlerMtx` for good. `LockCycle`: the listener
  blocks on a full internal channel while the channel's owner, which has its answer or
  gave up, waits for `handlerMtx` to remove it. `SelfLocked`: a listener panicked in a
  send, between `Lock` and `Unlock` (`connection.go:483-496`), and its own deferred close
  waits for the lock (`connection.go:397`); such a panic never ends the process.
- `ShutdownCompletes` of `IrcChat`: these two, a broker that does not return
  (`BrokerBlocks`), and a first validation Twitch does not answer (`connection.go:63`)
  are all that keeps `handleChat` from returning; it returns or, after a panic, the
  process ends.
- `SessionsInOrder`: a shutdown leaves `funcQueue` as it is. Entries are only ever added
  at its end (`OnlyAppended`), so what a session left there is handed out, in the next
  session, in front of that session's INIT and never behind it; and a loop's calls come
  behind the INIT of their own session (`AnnouncedFirst`).
- `LastReadIsUsed`, `LastSaveIsUsed`: the last save is always looked at by a call that no
  other cancels, but a call past its `select` cannot be stopped. With two of those at
  once the older of what they read may be installed last (`config.go:163`); without the
  premise `[](~Overlap)` TLC finds both violated. "Read" is what `readConfigJson`
  returned without an error, so a file that cannot be read puts the defaults into use,
  in place of the last save, and a malformed one leaves what was there.
- `LinesUnderstood`: the listeners of every state reachable are checked against every
  line of the kind they hold, with every list of tags.
- `StopMissesOnlyLate`: `Stop` may return while a service runs, but only one whose
  goroutine had not stored its name when the last poll began.
- `StuckIsForever`: StreamElements publishes on the goroutine of its service. Blocked
  in `Publish` after `Run` has returned, it never looks at its context again, and
  `Stop` polls for ever. `StopReturns` says that this and the broker's wedge are the only
  ways for the process not to end, if what is outside `Connector` returns: the premise
  `OthersReturn` is that chat, PubSub and the calls of the socket.io client do not stay
  for ever once the context is done. For chat and PubSub it fails in the cases
  `ShutdownCompletes` of their modules names (a first validation nobody answers,
  `handlerMtx` held for good, a reader that is stuck, a broker that is gone), and then
  `Stop` polls for ever, too.
- `EnabledWasRecorded` and `RefusalExplained`: `Subscribe` records the secret when it has
  read the answer. A callback that comes first is refused and the secret stays; one
  whose answer is lost uses the secret up, and the next try is refused. When the answer
  has another status than the pending one (`webhook.go:258`), `Subscribe` returns nil
  and keeps no secret at all. Every time a
  subscription reported as created is dead; the opposite, a live one nobody
  recorded, does not exist.
- `BearerExplained`: a request without a token goes back to an answer of the token
  endpoint that counted as success and gave none: one that does not decode
  (`webhook.go:196`), or one that does and has no `access_token` (`webhook.go:198`).
  The empty token of one call may be the one another call sends.
- `AckedIsHandled`: Twitch takes 200 for the end of a notification. A bare return is a
  200 as well, after an error of `ReadAll` (`webhook.go:302-304`) and after one of the
  typed decoders (`subscription.go:25`, `37`, `48`), and those two are the only ways for
  an acknowledged notification of a known type not to reach its callback.
- `SilentOnceRenewed`: once `reconnect` has sent a LISTEN, nothing is published.

## Fairness

Every fairness condition stands for a goroutine the Go scheduler keeps running,
a `select` that picks among its ready cases at random, or a timer.

- *Weak* fairness for steps that stay possible until taken: a fan-out in
  progress, a loop of the DLL, a listener, a handler, a reload call, a pipe
  write, which ends one way or the other since a closed pipe is an error.
- *Strong* fairness for a case of a `select` that is ready again and again beside
  others that are too (`RunStop`, `ClientTake`, `TakeEvent`, `Tick`,
  `ProcessDone`, `ReplyCancelled`).
- Strong fairness, too, for `GetConfig`, which waits for `configMtx` while reloads
  take it again and again: Go's mutexes hand over to a goroutine that has waited.
- The reconnect timer of `ProcessEvents` is stopped by every PONG. A timer left
  running fires, one that is stopped each time does not have to:
  `[]<>~timer \/ <>[](proc # "select")`. A shutdown does not need it: `pubsub_safety`
  assumes of `RunSpec` only that the goroutines run. Nothing makes Twitch answer the
  first validation of a service, which nothing else ends.
- A blocked read of a pipe ends only when the pipe is closed or lost
  (`ReadFails` is fair only then).
- In `Connector`: weak fairness for the steps a goroutine takes once and cannot miss
  (`Once`: the start of a service, the end of the broker's, the closing of the
  listener, and `PipesEnd` once it is closed, because `Accept` then fails), for the
  polling of `Stop`, for the steps of `Run`, for a pipe write and for a `Publish` that
  has room; strong fairness for the two cases of a `select` on the context
  (`OnceReady`). Nothing makes chat, PubSub or a call of the socket.io client return.
- Nothing is assumed of the outside: no server answers, no game calls, no user
  edits, no publisher publishes, no connector starts and no shutdown comes
  because of fairness.

## What is proved

TLAPS checks eight proof modules, one of which, `SequenceInduction`, holds lemmas
only. The theorems hold for all values of the constants their assumptions allow: any
number of clients, publishers and events, any positive channel capacities, any bound
on the publications, any finite set of reload calls, any set of subscriptions and any
bounds on tokens, notifications and lost answers, any number of sessions, frames,
versions and kinds of events, any connections, topics and messages of the two Twitch
clients and any of their faults, frames of any lengths, tags and texts of any length
and content the format allows.

`DataBrokerProofs`, from `BrokerAssumption` (capacities are positive, `NoEvent`,
`Ping` and `NoClient` are not confused with data):

| Theorem | Says |
|---|---|
| `TypeCorrect` | `Spec => []TypeOK` |
| `RegistrationCorrect` | `Spec => []RegistrationAgrees` |
| `ConservationCorrect` | `Spec => []Conserved` |
| `OrderCorrect` | `Spec => []InOrderNoGap` |
| `BacklogCorrect` | `Spec => []BoundedBacklog`: what is accepted but not written is at most both capacities plus two |
| `WedgeCorrect` | `Spec => WedgeIsForever` |
| `BrokerImplementsFanOut` | `Spec => ImplementsFanOut` |

All rest on one inductive invariant,

    IInv == TypeOK /\ RegistrationAgrees /\ FanoutShape /\ Holding /\ Conserved
            /\ IsFiniteSet(Waiting) /\ Content

`InOrderNoGap` speaks of what was written only, so a step that writes an event would
need to know what was in the goroutine's hands, and before that in its channel.
`Content` says so: written, being written and waiting are, in this order, the log from
the client's `join`. `Conserved` gives the number of these events (`ClientsAccounted`)
and of the published ones, which wait in `Publish`, are in the broker's channel or in
the log (`PublishedKept`; there may be any set of publishers, but only finitely many
wait at a time), `Holding` ties the frame in hand to the goroutine's place,
`FanoutShape` says a fan-out is about an event and visits nobody twice. There is one
lemma per conjunct, with one step per action. `BoundedBacklog` follows from `IInv` by
arithmetic alone. The refinement shows that each step is one of `FanOut`'s or leaves
`Position`, `clients` and `log` as they are: `RunSend` is `Hand`, `RunTake` is
`Broadcast`, `RunAdd` and `RunRemove` are `Subscribe` and `Unsubscribe`, which
`FanOut` allows only when nobody is owed anything; that is `RegistrationAgrees` (no
fan-out while in the select) and `Conserved` together.

`ConfigReloadProofs`, from `ReloadAssumption` (finitely many calls, `NoCall` is
none of them, `Default` is no version of the file):

| Theorem | Says |
|---|---|
| `DebounceCorrect` | `Spec => []OnlyNewestWaits` |
| `ReloadTypeCorrect` | `Spec => []TypeOK` |
| `LastReadCorrect` | `Spec => LastReadIsUsed`: what is in use is what was read last, unless two calls were past their second at once |

`OnlyNewestWaits` needs one fact beside itself, `NotEnteredUntouched`: a call
that has not entered is neither cancelled nor the newest, so entering cannot
make a call its own victim. `TypeOK` bounds the write events by the number of
calls, and the cardinality of `Begun` grows by one exactly in `Trigger`.
`LastReadCorrect` rests on `ReadIsNewest`: as long as no two calls are past their
second, the call that is about to install something has what was read last, and if
there is none, that is in use.

`ConnectorProofs`, from `ConnectorAssumption` (StreamElements is a publisher beside
those of Twitch, capacities and lengths of frames are positive, the values that stand for
"none" are no data) and `FramingAssumption` (the buffer is smaller than `LenMod`):

| Theorem | Says |
|---|---|
| `StopCorrect` | `Spec => []StopMissesOnlyLate` |
| `StuckCorrect` | `Spec => StuckIsForever` |
| `PipesInOrder` | `Spec => [](Broker!Conserved /\ Broker!InOrderNoGap)` |
| `ReadsWritten` | `ReadBack(lens)` for every sequence of positive lengths |
| `PipeReadBackCorrect` | `Spec => []PipeReadBack` |

`StopMissesOnlyLate` speaks of the moment `Stop` returns; what makes it inductive is
`NamesAgree`: the map holds the names of exactly the services that run, and while
names are polled a service without one counts as late. `PublishInv` says that
StreamElements holds an event exactly while it is in `Publish`; with it no step of the
service leaves a channel that is full for ever. By its text each step of the connector
is one of the broker's or none (`BrokerStep`), so the theorems of `DataBrokerProofs`
hold for the broker in the connector. `PipesInOrder` draws that conclusion for the two
that matter most: it instantiates `DataBrokerProofs` (`BrokerTheorems`), and `SameBroker` says that the
connector's broker is that instance.

`ReadsWritten` is about data. Reader and writer are recursive; the proof unfolds the
reader once per frame, shows that after the bytes of `k - 1` frames it stands at the
length of frame `k` or has stopped before it, and that it then hands over frame `k`
exactly if the frame fits the buffer and all of its bytes are there. The length of a
longer frame wraps modulo `LenMod`; neither it nor anything after it is handed over, and
so nothing that was not written. `PipeReadBackCorrect` needs beside it only that no more
is written to a pipe than was published, which is `Conserved` again.

`WebhookProofs`, from `WebhookAssumption` (the bounds are numbers, the types that
have a handler are among the subscriptions):

| Theorem | Says |
|---|---|
| `WebhookTypeCorrect` | `Spec => []TypeOK` |
| `EnabledCorrect` | `Spec => []EnabledWasRecorded` |
| `RefusalCorrect` | `Spec => []RefusalExplained` |
| `TokenCorrect` | `Spec => []TokenHasItsExpiry` |
| `BearerCorrect` | `Spec => []BearerExplained` |
| `AckedCorrect` | `Spec => []AckedIsHandled` |

Each rests on an invariant that says what is known at each place of a call.
`SecretInv`: a secret is recorded once, is pending until one challenge is answered
and is not there before `Subscribe` has its answer. `TokenInv`: as long as two
refreshes never overlapped there is one call between its answer and its two
assignments, and where it is decides which of the two fields are its own; and a
call that passed the check has a token unless an answer gave none. `NoteInv`:
a notification on its way was handled at most once for each answer lost, so one
that arrives is handled at most once more.

`GameIntegrationProofs`, from `GameAssumption` (the bounds are numbers, there is a kind
of event, every version configures some number of actions for every kind):

| Theorem | Says |
|---|---|
| `GameTypeCorrect` | `Spec => []TypeOK` |
| `NoPanicCorrect` | `Spec => []NoPanicBeforeShutdown` |
| `SessionsCorrect` | `Spec => SessionsInOrder` |
| `FramesCorrect` | `Spec => []WholeFramesInOrder` |
| `NoRepeatCorrect` | `Spec => []NoRepeatBeforeShutdown` |

`TypeInv` adds to the types that a loop holds a frame exactly while it handles one, with
an action of it left (`Held`), and that a loop is started by the initialisation of its
number (`Started`). `AliveInv`: until the first shutdown the globals are only set, and
set before the goroutine that reads them starts. `AnnouncedInv` counts the INITs in the
queue and in what was handed out. `FrameInv` says of every loop, live or left over from
an earlier session, that what it read and what waits in its pipe was sent in order
(`PipeOrdered`), that what it holds comes after what it enqueued (`Ahead`), and that its
last call is complete or the one before the action it is at (`LeftOff`). It needs no
assumption on shutdowns; `RepeatInv` adds that before the first there is one loop only.
`QueueStep` reduces every step to what it does to the queue.

`IrcChatProofs`, from `IrcAssumption` (bounds are numbers, capacities positive) and, for
the last two, `LinesAssumption` (a key of a tag holds no `=`, a value no `;`, neither a
space, as the format has it; nothing is assumed of a text):

| Theorem | Says |
|---|---|
| `IrcTypeCorrect` | `Spec => []TypeOK` |
| `LockCycleCorrect` | `Spec => LockCycleIsForever` |
| `PanicsCorrect` | `Spec => []PanicsExplained` |
| `ChatCorrect` | `Spec => []ChatOnceInOrder` |
| `TagsRead` | `parseTags` of the tags as they are written gives those tags |
| `AllUnderstood` | every line of every kind is taken for what was sent |
| `LinesCorrect` | `Spec => []LinesUnderstood` |

`TypeInv` adds that handlerMtx belongs to the listener that delivers and to no other,
which is all `LockCycleIsForever` needs, and that a connection not dialled has no
listener and an empty wire (`Dialled`). `PanicInv` adds to `PanicsExplained` where what a
panic needs comes from: a closed channel was closed by a listener that has ended since
(`ClosedByEnded`), and a nil connection, once there was one, by `Close` (`FieldByClose`).
`ChatInv` follows a message through its places: the wire, the listener, the channel, the
goroutine of `OnMessage`, the broker. It is in one of them only, and `Precedes` says what is
ahead of it: another message and, with one connection, an earlier one. With a second
connection a message can overtake an earlier one, since two listeners may each hold
a message of the same socket.

The parser splits at the first occurrence of a character. `SplitFound` says where that
is: at the end of the first word when the word is free of the character. A line is
then taken apart from the left, tags (`TagsStripped`), prefix (`ParsedPrefix`),
command (`ParsedCommand`) and arguments, and each of the recursive functions
(`arguments`, `parseTags`) is unfolded once per word. For tags there is no bound on
the number of words: were there tags that are not read back, the last position from
which the parser goes wrong would have a next one from which it is right, which
`TagRead` refutes. `ServerLines`, `JoinLines` and `ChatParsed` give every line parsed,
`CapTaken`, `NumericTaken` and so on compare the result with what the listener and the
waiting loops look for, and a text may hold anything, since the colon before it ends
the splitting (`ArgumentsTrailer`).

`PubSubProofs`, from `PubSubAssumption` (positive bounds):

| Theorem | Says |
|---|---|
| `PubSubTypeCorrect` | `Spec => []TypeOK` |
| `AckedCorrect` | `Spec => AckedIsNeverDropped` |
| `SilentCorrect` | `Spec => SilentOnceRenewed` |

`Recorded`: a topic is in `topics` before `Sub` waits for its answer, so whoever has the
answer has the topic. `RenewalWaits`: once a renewal is pending `ProcessEvents` waits for
it or has ended, and the service goroutine has left `Connect`, the only place that would
start it again.

The type invariants of `ConfigReload`, `PubSub` and `Webhook` are proved and not run.

`SequenceInduction` is what the proofs about data rest on. The induction theorems of the
library take a property as an operator, which the provers used cannot instantiate,
so induction is stated for the set of counterexamples: a set of numbers is empty if none
of its members is the least (`NoneBad`, from the well-foundedness of `<`). In the same way
`Recursion` takes the body of a recursive definition as a function on functions and says
that a function with that equation exists, which `LET f[i \in S] == ...` needs to mean
what it says; the lemmas on `FlattenSeq`, itself such a definition, follow from it.

Every safety property of a run is proved: each invariant, each action property and the
refinement. What stays with TLC is every liveness property, alone or beside a safety part
(`LastSaveIsUsed`, `DeliveredUnlessWedged`, `RunReturnsUnlessWedged`, `StopReturns` and
their like), since fairness and `ENABLED` are beyond the provers used.

## Where the code and its documentation part

- `README.md:47` says the chat setting "enables listening to chat messages".
  `handleChat` registers its handler once and retries `OpenContext`; the listener
  of a failed attempt closes the handler's channel, and the attempt that succeeds
  joins a channel it does not hear (`irc_deaf`).
- `README.md:45` says the channel points setting "enables listening to
  channelpoints redemptions". After a RECONNECT or a late PONG, `reconnect` waits
  for answers on the goroutine that delivers them; nothing is published until the
  service is cancelled (`pubsub_reconnect`).

Four more were met on the way and are not runs, since no shared state or order of
steps is needed to see them: `config.go:148` says a reload "cancels any previous call
to it", while a call past its `select` goes on to load and replace;
`webhook.go:130` promises "a list of all subscriptions" and reads the first page
of it; the comment of the IRC client's rate limiter says "0.5 per second"
(`connection.go:82`), the code one per 500 ms; and `TestParsePrivMsgWithTagsEndingEmpty`
(`parser_test.go:91`) parses a line with `badges=prmium/1` and asserts `premium/1`
(`parser_test.go:103`). `parseTags` gives the value as it stands in the line, so this
test cannot pass; what `LinesUnderstood` and `TagsRead` say of tags is what the other
assertions of the parser's tests say, and the code.

## What is not modelled

- Contents: JSON, what a redemption or a tip says, the forty-byte cut of a chat message.
- `Send`, `SendTimeout` and the rate limits of the IRC client: `handleChat` uses
  none of them.
- Token validation and URLs: one request, and pure functions, whose outcomes are
  choices in the modules that use them.
- The connector's configuration: `main` reads and rewrites one file before any
  service starts.
- The socket.io client of StreamElements: outside `src/`. `SeTakes` is a message of it.
- The signatures of callbacks: Twitch signs with the secret of the subscription, so a
  signature stands for that secret.
- The pages of `AllSubscriptions`, the contents of `GetUser`: lists change nothing.
- `chat.Broker` (`src/broker.go`): no command uses it, and nothing outside its package
  can make one that works: its mutex and its map are unexported and nil without a
  constructor, of which there is none.
- Build scripts and workflows.

## Plan

The order is by importance to the two programs.

1. Done: `DataBroker` with `FanOut`, `GameIntegration`, `ConfigReload`, `IrcChat`,
   `PubSub`, `Connector` with `Framing`, and `Webhook`, each with its proofs;
   `IrcParser` with `IrcLines`.
2. Left: `Send`, `SendTimeout` and the limiter of the IRC client, should a command
   come to use them.
