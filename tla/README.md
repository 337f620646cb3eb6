# TLA+ models of the 4-sensor alarm system

The repository is a burglar alarm for a Raspberry Pi: a C server that owns an
LED, a buzzer, a light sensor and a 7-segment display (`server/`, `lib/`), a CLI
client (`client/`), and a Node bridge that gives browsers the same access
(`web/`). They speak 4-byte messages over TCP. This directory holds TLA+ models
of the server and its protocol, the TLC configurations that check them, and
proofs for TLAPS.

Run, in this directory, `tlc -config X.cfg M` for a run of the table below
(module `M` is given there), and `tlapm M.tla` for a proof module.

## 1. Inventory

| Component | State | Operations | Talks to |
|---|---|---|---|
| LED worker, buzzer worker (`handler.c:27-64`, `main.c:70-106`) | `g_led_cmd`, `g_buzzer_cmd` with mutex and condition variable | `dispatch_*`, `*_thread_fn` | called by handlers, sensor, countdown; call `led.so`, `buzzer.so` |
| Melody control (`handler.c:69-127`, `lib/buzzer.c`) | `g_melody_tid/_running/_joinable`, control lock, `g_stop`, the pin | start, stop (cancel + join), play, cleanup | handlers, sensor and countdown stop it; shares the buzzer pin with the worker |
| Countdown (`handler.c:211-325`) | `g_segment_*`, control lock, `count`, `buzzer_owned`, the display | start, stop, tick, ring, cleanup | stops the melody, dispatches to the buzzer worker, broadcasts |
| Sensor thread (`handler.c:140-206`) | `consec` | poll, raise the alarm, release it after 5 s | stops the melody, dispatches, broadcasts |
| Command handlers (`handler.c:330-521`) | the request of each connection | LED, buzzer, segment, system commands, queries | `g_state`, both controls, both workers |
| Shared state `g_state` (`server.h:10-20`) | alarm, LED, buzzer, sensor, segment fields | written by all of the above under `lock` | answers queries |
| Client table (`main.c:79-98, 295-336`, `handler.c:493-521`) | `client_fds`, `n_clients`, descriptors | accept, register, roll back, broadcast, disconnect | kernel descriptor table |
| Framing (`common/protocol_io.c`, `web/protocol.js:64-81`) | `cursor`/`remaining`, `tcpBuffer` | send, recv, decode | TCP |
| Web bridge (`web/server.js`) | `tcp`, `tcpBuffer`, `reconnectTimer`, `wsClients` | connect, reconnect, data, close, forward, broadcast | server, browsers |
| CLI client (`client/main.c`) | `g_sock`, menu position, stdin | menus, receive thread, termination | server |
| Browser page (`web/index.html`) | display fields, WebSocket | reconnect, buttons, event display | bridge |
| Startup (`main.c:135-293`, `daemon.c`) | library handles, listen socket | load, bind, daemonise, initialise, start threads | - |
| Event log (`main.c:109-132`) | a file | append | - |

What makes each one correct, and hard:

- **Workers.** The mailbox has one place: commands may be replaced but not torn,
  repeated or left lying beside a sleeping worker, with spurious wakeups and
  several dispatchers.
- **Melody, countdown.** At most one thread of each, its handle never
  overwritten before it is joined, every stop ends it soon, and the pin and the
  display are off afterwards at whichever cancellation point it was hit. The
  stops come from other threads, and `pthread_cancel` is deferred.
- **Sensor.** An alarm after three dark readings in a row and only then, errors aside;
  every alarm is released.
- **Commands and status.** Each command is answered; what a status query says
  agrees with the device. State and device are updated in two critical sections.
- **Client table.** A slot names an open connection with a living handler,
  although descriptor numbers are reused at once and `broadcast_msg` sends
  outside the lock; nothing leaks.
- **Framing.** Messages survive short sends and receives; a truncated one is
  reported.
- **Bridge.** One connection or attempt at a time, always another attempt after
  a loss; bytes of two connections never mix; every page knows the state
  announced last; every click gets a reaction. The server may die inside a
  message or vanish without a word, and pages come and go in between.
- **CLI.** What the menus send is what the server understands; each request is
  followed by its answer or the news of the loss, printed by another thread; the
  end of input ends the client, except in a submenu.
- **Startup.** A client that connects while the server is still starting, or
  fails to start, is served or refused.

`PROJECT.json` lists the hazards at their lines, with the properties meant to
catch them, and the map from definitions to source lines.

## 2. Modules

| Module | What it is |
|---|---|
| `Mailbox` | Abstract: one-place command register with a worker (`Post`, `Take`, `Finish`). |
| `CommandWorker` | `dispatch_led` and `led_thread_fn` field by field: mutex, condition variable, spurious wakeups. Implements `Mailbox`. |
| `AlarmServer` | The device side: handlers, sensor, countdown, melody and worker threads, `g_state`, tone, LED duty, display. Contains two instances of `Mailbox`. |
| `AlarmHistory` | `AlarmServer` with history variables: the sensor's last readings, who wrote `led_state` last and who dispatched to the LED last. |
| `EventBus` | Abstract: who is registered and whom an event is still owed. |
| `ClientRegistry` | Startup, accept loop, `handle_client`, `broadcast_msg` over the kernel's descriptor table. Implements `EventBus`. |
| `Protocol` | The messages: what the server understands, what `web/protocol.js` builds and how it cuts a stream. Used by the next and the last two. |
| `FifoChannel` | Abstract: a queue of whole messages. |
| `FrameStream` | A byte stream with short sends, timeouts, ends and resets; the C reader and the bridge's reader. Implements `FifoChannel` for a single patient sender. |
| `StatusFeed` | Abstract: one connection, lost and made again, and what each page was told of it. |
| `WebBridge` | `web/server.js` callback by callback, with the pages and the server at its two ends. Implements `StatusFeed`. |
| `CliClient` | `client/main.c`: menus, receive thread, signals. |
| `MCAlarmServer`, `MCAlarmHistory`, `MCClientRegistry`, `MCFrameStream`, `MCWebBridge`, `MCCliClient` | Workloads, symmetry, connections, payloads and lines for TLC. |
| `CommandWorkerProofs`, `AlarmServerProofs`, `ClientRegistryProofs`, `FrameStreamProofs`, `WebBridgeProofs`, `CliClientProofs` | Theorems about the module of the same name, for TLAPS; `AlarmServerProofs` also about `AlarmHistory`. |
| `ProtocolProofs` | Lemmas about `decodeFrames` in `Protocol`, used by the proofs of the two readers. |
| `MCAlarmServerProofs` | The countdown workload of `MCAlarmServer` meets the hypothesis of a theorem of `AlarmServerProofs`. |

How they fit: `CommandWorker` shows that dispatch plus worker may be taken as
the three atomic actions of `Mailbox`, and `AlarmServer` uses exactly these.
`ClientRegistry` treats a request as "received, answered" and an event as one
send per copy; what requests do is `AlarmServer`, how a send gets through is
`FrameStream`. `WebBridge` and `CliClient` are the two clients; each has the
server at the other end of its connection, reduced to what the other modules
show of it: it answers each request once, sends events, and may hang up.
`Protocol` ties them together: both clients' `TypeOK` says that the server
understands everything they send.

### AlarmServer and the code

`pc[t]` is the next shared access of thread `t` (a handler, `"sensor"`,
`"countdown"`); `mpc` is that of the melody thread. A critical section of
`g_state.lock` or of a mailbox is one action, because it contains no blocking
call. The control locks are variables since they are held across
`pthread_join`. One action per access:

- `LockMelody`, `StopMelodyTone`, `CancelMelody`, `JoinMelody`, `CreateMelody`:
  `stop_melody_thread` / `start_melody_thread`, for all their callers.
- `PlayReset` ... `PlayFinish`: `buzzer_play_melody` with its two `usleep`s;
  `MelodyUnwind`, `MelodyClear`, `MelodyEnd`: the cleanup handler and the normal
  end.
- `Show`, `Tick`, `Claim`, `Sound`, `Hold`, `Hold2`, `Release`, `LogEnd`: the body
  of `segment_thread_fn`; `Unwind`, `CleanupDevices`, `CleanupState`: `seg_cleanup`;
  `UnwindInJoin`: a cancellation while the countdown itself waits in
  `pthread_join`.
- `Receive`, `LedState`, `LedDispatch`, `BuzzerState`, ..., `OffLed`: the command
  handlers. Requests out of range are answered RESP_ERR and change nothing, so
  `Receive` takes only `Valid` ones. `StatusReply` is the answer of
  `handle_query`, which changes nothing.
- `Sense`, `AlarmSet`, ..., `AlarmClear`: `sensor_thread_fn`. `Poll(r)` is the poll
  that reads `r`: "error", "light" or "dark", dark from `LIGHT_THRESHOLD` up.

`AlarmHistory` adds to each step what a property about the past needs and restricts
none: `recent`, the last three readings without errors; `stateBy` and `postBy`, the
threads that wrote `led_state` and called `dispatch_led` last.

Abstractions: time (a sleep may take any while), the pitch of a note, event
contents and the log. `g_stop` and the `softToneWrite(0)` that follows it are one
step (`Silence`). `broadcast_msg` and `log_event` count only as cancellation
points.

### ClientRegistry and the code

`file` is the descriptor table (which connection a number names); `accept` and
`dup` return the lowest closed number, `close` frees it. `Accept` ...
`CloseNew` are the accept loop with its three error paths, `Receive` ...
`CloseOwn` are `handle_client`, `Broadcast` is the critical section of
`broadcast_msg` (all `dup`s), `SendCopy`/`CloseCopy` its second loop,
`CancelCast` a cancellation of the countdown inside it. `LoadLibraries` ...
`StartWorkers` are the stages of `main` before the loop; each may end the process,
and connections can be waiting from `setup_server` on. Clients connect and hang
up when they like, with at most one connection each at a time.

### FrameStream and the code

A byte is `<<message, position>>`. `Send` takes what the buffer has room for;
`GiveUp` is SO_SNDTIMEO after any part of the message; `Recv` is one `recv` of
`protocol_recv_message`, `RecvEof` its end-of-stream cases; `OnData` is the
bridge's data callback with `decodeFrames`; `Die` is the end of the sending
process, which closes the connection or resets it.

### WebBridge and the code

One action per callback of Node's event loop: `TimerFires`, `Connected`, `OnData`,
`Fail` ('error' or 'end'), `OnClose`, `OnConnection`, `OnMessage`, `OnWsClose`; of
`index.html` there are `PageConnect` and `Click`. A socket that has failed is
`"dying"` until its 'close' event, and the bridge's tests `tcp !== socket` are
there. `Full` is a write buffer above Node's high-water mark: `sendPI` then
returns false although the message goes out. A byte carries whose click its message
answers, so that `unanswered` can say which page still waits. `HangUp` cuts what
is under way at any byte; `Vanish` is a machine that is gone without FIN or reset,
perhaps after acknowledging what it was sent.

### CliClient and the code

`menu` is the position of the main thread; a choice with all it leads to is one
step of `Choose`. A typed line is the sequence of choices `read_choice` makes of
it: one, or several when it has more than 14 characters; at the end of stdin every
read gives -1. `send_msg` knows the three states of a lost connection: accepted in
vain, then failing. `Kill` is Ctrl-C or SIGTERM at any moment.

## 3. Runs

| Run (`.cfg`) | Module | Checks | Instance | Distinct states |
|---|---|---|---|---|
| `CommandWorker` | CommandWorker | no lost wakeup, implements `Mailbox`, commands are taken | 2 dispatchers, 2 x 2 commands | 20 thousand |
| `Controls` | MCAlarmHistory | one thread of each kind, OFF silences, countdowns leave nothing on, an alarm after three dark readings, LED status, stopped melodies end, requests answered | five workloads: 2 clients with melodies, with countdowns, or with the LED; 1 client with countdowns and ALARM_OFF, or with ALARM_OFF in the dark | 201 thousand |
| `Alarm` | MCAlarmServer | OFF silences, the control lock comes back, alarms are released | two workloads of 1 client: ALARM_OFF and melody in the dark; melody and countdown | 782 thousand |
| `Clients` | MCClientRegistry | table consistent, handlers own their descriptor, implements `EventBus` | 3 clients, 2 slots, 4 descriptors, cancellable broadcast | 370 thousand (with symmetry) |
| `ClientsLive` | MCClientRegistry | no leak, everything released, every connection decided | 2 clients, 1 slot, 3 descriptors | 3 thousand |
| `Stream` | MCFrameStream | whole messages in order, end verdict, order of bytes, delivery, implements `FifoChannel` | 4 connections, 5-byte buffer, 3 messages | 16 thousand |
| `WebBridge` | MCWebBridge | no mixed frames, one connection, implements `StatusFeed`, reconnects, clicks get a reaction | 2 pages, 3-byte messages, write buffer of 2 | 67 thousand |
| `CliClient` | MCCliClient | requests understood and answered, loss noticed, end of input | every choice from -1 to 11, 2 overlong lines, 2 requests waiting | 157 thousand |
| `OrphanedLock` | MCAlarmServer | violated: `EveryCommandAnswered` | | |
| `BuzzerStatus` | MCAlarmServer | violated: `BuzzerStatusTruthful` | | |
| `AlarmOff` | MCAlarmServer | violated: `AlarmOffIsComplete` | | |
| `FdLeak` | MCClientRegistry | violated: `SocketReleased` | | |

Bounds. `Handler`, `Workloads`, `Notes`, `MaxClients`, `NFds`, `Capacity`,
`MaxMessages`, `MaxClicks`, `MaxUp`, `MaxDown`, `MaxWaiting` and `MaxEvents` are the
only ones; nothing else in the models grows. Two handlers
suffice for every pairwise race over a control lock (a third only waits); the
single-client runs trade the second for more kinds of request, while the sensor
and the countdown are the other actors. Two notes give the melody a note after a
lost stop. A countdown from 1 passes through every statement, including the last
loop. Three clients for two slots give a full table, a refusal and the reuse of
a number; four descriptors make `dup` and `accept` fail. A buffer of five bytes
holds one message and part of the next, so that messages are cut in all places.
Symmetry is used in `Clients` only, which checks no liveness. In `WebBridge`,
`MaxUp` and `MaxDown` limit when a page clicks and the server sends an event, never
when it answers; three bytes per message leave tails of one and two bytes; two
pages are enough for one to wait while the other joins, breaks or fills the write
buffer; two sockets would show an overlap if there were one. In `CliClient` the
user pauses at two unanswered requests, and types on when one is answered.

Deadlock is checked in every run; where a program has ended, the specification
says so with a step that changes nothing (`Exited`, `Done`, `Over`).

Fairness is weak fairness of each thread: a runnable thread runs, sleeps and
sends with a timeout return. A pthread mutex promises no waiter its turn, so the
liveness of threads competing for a control lock is stated under the assumption
that clients stop sending commands at some point (`CommandsStop`, `CallsStop`).
`ControlFairness` is the part of it that the answers to commands need, `AlarmSpec`
the part that the release of an alarm needs. Clients are under no obligation to
connect, read or hang up. In `WebBridge` Node delivers every event, timers expire, and a server that runs answers; it need not run. That
the bridge reconnects is claimed for a server that stays up in the end. In
`CliClient` both threads run; nobody need type. That every request is answered is
stated for a user who stops typing at some point (`UserStops`): then not a single
one may be left waiting.

### Disagreements with the documents

The four violation runs each show one; `PROJECT.json` quotes the documents.

- `OrphanedLock`: at zero the countdown calls `stop_melody_thread`. If it is
  cancelled in the `pthread_join` there, it dies holding
  `g_melody_control_lock` (`handler.c:100`), and every later buzzer command, ALARM_OFF
  and alarm waits for ever. So does the next countdown that reaches zero: it waits in
  `pthread_mutex_lock` (`handler.c:108`), which is no cancellation point, so that
  SEGMENT OFF and SET_NUMBER then wait for it without end. `LockComesBack`, checked
  in `Alarm` and proved, says that there is no other way to lose this lock.
  `Controls`, whose workloads never put a melody beside a countdown, shows that every
  request is answered when it is not lost.
- `BuzzerStatus`: the alarm writes `buzzer_state = 1` before it stops the
  melody, whose cleanup writes 0 (`handler.c:172`, `73`). The same property also
  fails when ACT_PLAY_MELODY writes 1 after its melody has ended
  (`handler.c:390`).
- `AlarmOff`: ALARM_OFF between `handler.c:174` and `178` is answered OK, then
  the alarm starts, with `alarm_active` 0.
- `FdLeak`: a countdown cancelled in `broadcast_msg` leaves copies open, and
  the connection of a client that hangs up is never closed.

More, each the failure of a property in a model at hand, without a run of
their own:

- `LedStatusTruthful` fails with two clients: one may update `led_state` last and
  the other dispatch last (`handler.c:338`), and `GET_STATUS` then answers OFF for a
  lit LED, or ON for a dark one, although docs/API명세서.md:282 promises the present
  state ("LED 현재 상태"). An alarm can cross a client in the same way.
  `UncrossedLedStatus`, checked in `Controls` and proved, says that such a
  crossing is the only way to a false status: the next command or alarm that
  nobody crosses sets it right.
- `SegmentValueTruthful` fails (`handler.c:416` after a stop).
- `FramesAreMessages` fails on the shared connections of `Stream`: short sends of two
  threads interleave, or a timeout cuts a message and its sender goes on.
- `NotConnectedIsTrue` fails in `WebBridge`: `sendPI` returns what `tcp.write` returns.
  When the write buffer is full the page is told
  `장치 서버에 연결되어 있지 않습니다.` (`server.js:160`) although it is connected, and
  the message is sent and answered (`Full`, `Forward`). `EveryClickAnswered` counts
  that message as a reaction; it says that there is one, not that it is true.

Read off the code while modelling, and contained in the models as the code has it:

- The server takes high readings for dark (`handler.c:138`, `152`), and so does
  docs/API명세서.md:244-245; `lib/cds.c:15` and docs/개발문서.md:254 say of the same
  value that higher is brighter ("높을수록 밝음"). The API document ends the bright
  range at 169, the code at 174.
- In a submenu the end of stdin counts as a wrong input and is read again for ever
  (`EndOfInput` says so); only the main menu ends the client.
- `read_choice` is said to read a line and return an integer (`client/main.c:89`); a
  longer line yields several.
- `pthread_create` in the CLI client goes unchecked (`client/main.c:279`): without a
  receive thread nothing is ever printed. The client's liveness properties exempt
  this case.
- The parent of `daemonize` exits with success before the hardware is initialized
  (`daemon.c:10`, `main.c:286`).
- Neither client can send ACT_ALARM_OFF (`Protocol` and the menus), which
  docs/개발문서.md:166 describes as the way to clear an alarm.

## 4. Proofs

All theorems hold for every value of the constants that satisfies the named
assumption of the module (`WorkerAssumption`, `ServerAssumption`,
`RegistryAssumption`, `StreamAssumption`, `BridgeAssumption`, `ClientAssumption`),
which TLC evaluates in the runs. These say only that identifiers differ, that
clients and writers are finitely many, and that sizes are positive.

| Theorem | States |
|---|---|
| `CommandWorkerProofs!TypeCorrect` | `[]TypeOK` |
| `CommandWorkerProofs!WakeupKept` | `[]NoLostWakeup` |
| `CommandWorkerProofs!Refinement` | `ImplementsMailbox` |
| `AlarmServerProofs!TypeCorrect` | `[]TypeOK` |
| `AlarmServerProofs!MelodyHandleKept` | `[]OneMelody` |
| `AlarmServerProofs!CountdownHandleKept` | `[]OneCountdown` |
| `AlarmServerProofs!NoIntrusionSwallowed` | `[]IntrusionRaisesAlarm` |
| `AlarmServerProofs!OffMeansSilent` | `[]OffSilences` |
| `AlarmServerProofs!StopTakesEffect` | `StoppedMelodyEnds`, an action property |
| `AlarmServerProofs!LedStatusRight` | `[]UncrossedLedStatus` of `AlarmHistory` |
| `AlarmServerProofs!DebounceRight` | `[]ThreeDarkReadings` of `AlarmHistory` |
| `AlarmServerProofs!LockNotLost` | `[]LockComesBack` |
| `AlarmServerProofs!CountdownsEndSilent` | `[]OnlyCountdowns => []CountdownLeavesSilence` |
| `MCAlarmServerProofs!CountdownWorkload` | `[]CountdownsLeaveSilence` for the workloads of `MCSpec` |
| `ClientRegistryProofs!TypeCorrect` | `[]TypeOK` |
| `ClientRegistryProofs!CountIsRight` | `[]CountMatches` |
| `ClientRegistryProofs!TableIsCurrent` | `[]SlotsNameOpenClients` |
| `ClientRegistryProofs!HandlerKeepsFd` | `[]HandlerOwnsFd` |
| `ClientRegistryProofs!NothingLeaks` | `[]NoFdLeak`, if `Cancellable = {}` |
| `ClientRegistryProofs!Refinement` | `ImplementsEventBus` |
| `FrameStreamProofs!TypeCorrect` | `[]TypeOK` |
| `FrameStreamProofs!FramesWhole` | `[]WholeFrames` |
| `FrameStreamProofs!VerdictsTrue` | `[]EofVerdict` |
| `FrameStreamProofs!BytesOrdered` | `[]BytesInOrder` |
| `FrameStreamProofs!Refinement` | `ImplementsFifo` |
| `WebBridgeProofs!TypeCorrect` | `[]TypeOK` |
| `WebBridgeProofs!NeverMixed` | `[]NoMixedFrames` |
| `WebBridgeProofs!AlwaysOne` | `[]OneConnection` |
| `WebBridgeProofs!Refinement` | `Feed!Spec`, the safety part of `ImplementsStatusFeed` |
| `CliClientProofs!TypeCorrect` | `[]TypeOK` |

Each proof module begins with its inductive invariant `IInv`, one named part per
idea. None of the properties is inductive alone; what they needed is this.

**CommandWorker.** Mutual exclusion by the mutex, what each writer has stored so
far, and that a sleeping worker with `pending` set has a dispatcher about to
signal it. The refinement needs it to know that the worker's copies are the last
command.

**AlarmServer.** Types; a thread between taking and releasing a control lock is
its owner (so that only one thread is ever about to join or create); the joinable
flag agrees with the existence of the thread; a request that is being served has
the operation its program counter belongs to; only the sensor sets
`alarm_active`, and it clears it before it looks again. `OneMelody` needs the lock
ownership, which in turn must survive the countdown that dies holding the lock:
the handles stay correct even then; what is lost is progress. On top of `IInv`:

- `Tones`: a note sounds only between the two `usleep`s around it, the alarm only
  while the worker's newest command is ON or a command is still to come. The pin
  is written by three kinds of thread under no common lock; that each of them
  keeps this is what `OffSilences` rests on.
- `Cancelled`: as long as the melody thread lives, `g_melody_running` is set, hence
  everyone in `pthread_join` has cancelled it. It needs the lock ownership again:
  while one thread waits in the join nobody can create a new, uncancelled melody.
- `LockKept`: the owner of the melody lock is at one of the four places between its
  lock and its unlock, unless it is the countdown. With `Cancelled` this gives
  `LockComesBack`.
- `LedFollows`, `LedAnnounced`: the LED shows the newest command once it has been
  executed; and as long as no other thread has written since, what a thread wrote to
  `led_state` is what it is about to dispatch, and, after that, what it dispatched
  (`BetweenWrites` says when it is in between). No assumption is made about who uses
  the LED at the same time: `stateBy` and `postBy` tell whether writes have crossed,
  and the invariant says nothing of a status after they have.
- `Debounced`: `consec` is the number of dark readings at the end of `recent`, and
  `recent` holds three of them exactly while the sensor thread is about to raise the
  alarm. With `NoIntrusionSwallowed`, that `alarm_active` is then clear, it gives
  `ThreeDarkReadings`.
- `CountdownTidy`: `buzzer_owned`, the mailbox, `buzzer_state` and the display by the
  place where the countdown is, at each of its cancellation points. The
  hypothesis `OnlyCountdowns`, no other request and no alarm, is needed because
  others may leave the buzzer on; `CountdownWorkload` shows that the workload of the
  run satisfies it.

**ClientRegistry.** Main, handlers and copies each own their descriptors and no
two own the same (`MainOwnsFd`, `HandlersOwnFd`, `CopiesOwned`), waiting connections
have none yet (`BacklogNew`), and there is at most one copy per client
(`CopiesBounded`). Descriptor numbers are reused at once, so the truth of a slot
depends on every place that closes one. The leak found by `FdLeak` is no exception
to the table's consistency (those theorems allow cancellation), and `NothingLeaks`
shows that it is the only leak: without cancelled broadcasts there is none. The
refinement maps a slot to its client and the copies to the events owed; its main
lemma is that the set of used slots and the sequence of copies have the same
members.

**FrameStream.** The bytes handed on, kept in `cursor` or `tcpBuffer`, and on the
wire are seen as one stream with a length and an i-th byte (`Total`, `At`), because
every action leaves most of it in place: `Send` extends it at the end, a read only
moves the borders. Every byte of it has been sent (`AllAccepted`), those of one
writer in order (`Ordered`), those of a patient single writer without a gap
(`Sequential`), and a verdict is given only at the end (`Verdicts`). `ProtocolProofs`
supplies what `decodeFrames` does to a stream of any length: which frames it cuts,
what it leaves, and that no byte changes its place.

**WebBridge.** `OneConnection` with the states of the sockets that are neither
connected nor given up; `NoMixedFrames` together with the fact that a serving peer
has sent whole messages; and a count: the clicks still to be seen, the requests
under way and the answers under way on the present connection are together no
more than the reactions the page waits for. `TypeOK` bounds `unanswered` from both
sides, which holds only because of this count. The refinement is by steps: every
callback is a step of `StatusFeed` or changes nothing there.

**CliClient.** Requests and responses under way are together at most the responses
waited for, so a response never makes `waiting` negative; and each menu's choices
give only requests the server understands.

### Only model-checked

- All liveness (`CommandTaken`, `EveryCommandAnswered`, `AlarmReleased`,
  `SocketReleased`, `ClientDecided`, `AllDelivered`, `Reconnects`, `EveryClickAnswered`,
  `EveryRequestAnswered`, `LossNoticed`, `EndOfInput`) and the fairness of `StatusFeed` in
  `ImplementsStatusFeed`: liveness under fairness and ENABLED are beyond this prover.
- The four disagreements: a counterexample is found by TLC, not proved.

Induction over data and RECURSIVE operators are beyond the prover too; the modules
use no RECURSIVE operator, and `decodeFrames` is defined by the number of whole
frames and their positions, so that its facts follow by arithmetic.

## 5. Not modelled

- What a page does with what it is sent, and serving `index.html` over HTTP: display
  and file output without state that anything else depends on.
- Inside the startup stages: loading symbols, binding, initializing a device. Each
  succeeds or ends the process.
- Two sessions of one page at a time: a page that reconnects before the bridge has
  noticed the loss of its old session is a second `Page`.
- The log, I2C transfers, pin levels, `SEG_MAP`: input and output only.
- `wiringPi`, `ws`: third-party.
- Real time: no clock, so no statement about five or three seconds.
- No recovery after a server crash: nothing is persisted, a restart is `Init`.
- The release of alarm and countdown switches devices off that a client may
  have switched on since (`handler.c:190`, `269`): no rule says who should win.

## 6. Plan

1. Done: all modules of section 2, with the theorems of section 4. Every
   invariant that a passing run checks, every refinement (of `StatusFeed` the safety part)
   and the action property `StoppedMelodyEnds` are proved.
2. Left for proofs: for the other control lock and the client table the same as
   `LockNotLost`, the safety half of a liveness argument: whoever waits waits for
   somebody who can move.
3. Left for models: the properties above that fail without a run of their own
   (`LedStatusTruthful`, `SegmentValueTruthful`, `FramesAreMessages`, `NotConnectedIsTrue`)
   become invariants once the code is repaired; the release that switches off
   devices of others (`handler.c:190`) and a client that stops reading (`main.c:95`)
   have no property.
