# Formal specification of lua-executor

`lua-executor` is a C++ host that runs one Lua script. The script loads native
*extensions* (console, sockets, SQLite, Discord, SDR++, ...) and *plugins* written in Lua,
of which the important one is the **Gateway**: an event loop over a connection to the
APRS-IS network, with an event scheduler and a persistent key-value storage. The other
plugins (Outside, FireWatch, SkipMonitor) register callbacks in it.

This directory holds TLA+ modules translated from that source, TLC configurations that check
them on small instances, and proofs TLAPS checks for every value of the constants. Paths
below are relative to `src/lua-executor-main/`; `Gateway.lua` is `Build/Plugins/Gateway.lua`
and so on, `Extensions/` is `lua-executor/Extensions/`.

## 1. Inventory

| Component | State | Operations | Interacts with |
|---|---|---|---|
| Event scheduler (`Gateway.lua` 186-250) | timer, table of buckets by timestamp | `ScheduleEvent`, `UpdateScheduledEvents`, `ExecuteScheduledEvents` | called by every plugin, calls user callbacks, which call it again |
| Gateway (`Gateway.lua`, `APRS-IS.lua`, `API.cpp`) | connection handle, mailbox of one packet, exit code, database handle | `Init`, `Run`, `OnUpdate`, `ReceivePacket`, `SendMessage...`, `Connect`, `Disconnect` | APRS-IS server, scheduler, storage, Loop, callbacks |
| Storage and database (`Gateway.lua` 357-662, `SQLite3`) | two tables in memory, two on disk | `Load`, `Save`, `Get`, `Set` | SQLite file, survives the process |
| Loop (`Extensions/Loop`) | timer, `last_update`, `next_update` | `loop_init`, `loop_sync` | its deltas drive the scheduler |
| SDR++ (`Extensions/SDR++`) | socket | connect, eight commands | rigctl server over TCP |
| Console, Mutex, Thread (`Extensions/...`) | default mutex, last line, thread objects | `ReadLine`, `WriteLine`, `Lock`, `Unlock`, `Start`, `Join` | several threads |
| Host and Script (`main.cpp`, `API.hpp`, `Script.cpp`, `Script.lua`) | Lua state, extension handles, globals, exit code | `LoadScript`, `LoadExtension`, `UnloadExtension`, `SetExitCode` | dynamic libraries, Lua modules |
| Outside (`Outside.lua`, `DiscordRPC`, `System`) | idle timestamp, auto-update flag, Discord handle | enter, leave, poll, `UpdateDiscord` | Gateway's `OnUpdate` and scheduler, Discord |
| FireWatch fires and stations (`FireWatch.lua`) | fires, station positions | `OnReceivePosition`, fire packets | Gateway's position event, listeners |
| FireWatch sources (`FireWatch.lua`) | end points, poll interval, sockets | `PollSources`, `Add`, `Remove`, `Clear` | scheduler, Socket, callbacks |
| Socket (`Extensions/Socket`) | own flags beside the library's socket, end point | `Open`, `Connect`, `SetBlocking`, `Send`, `SendAll`, `Receive`, `ReceiveAll`, `Close` | network, ByteBuffer |
| ByteBuffer (`Extensions/ByteBuffer`) | memory, byte order, read and write offset | allocate, release, read, write, offsets | Socket, scripts |
| SkipMonitor, APRS packets, N2YO, WebRequest, Process, System, Types, demos | see section 8 | | |

Almost everything runs on one thread. What is hard about it are the **callbacks**: any of
them may schedule, store, send, disconnect, change the table that is being traversed, or raise
an error, and returns into code that read its state before the call. Beside that there is the
**network** (closures at any moment, replies in pieces), **durability** (a save is several
queries that commit one by one), **time** (a scheduler that lives from truncated
milliseconds), **partial failure** (loading an extension in steps) and, in the console, real
**threads**. `PROJECT.json` lists these places under `hazards`, each with its line and the
properties that would break.

What makes each component correct:

* scheduler: every event runs exactly once, in time, in order, and an update ends;
* gateway: packets are handled once and in order, one periodic save lies ahead, a lost
  connection ends `Run`, is announced once, shows in the exit code and loses nothing stored;
* storage: whatever happens, a table on disk is empty or all that the conversions to text
  leave of one moment's table;
* loop: no drift, no early call, deltas that add up to the time that passed;
* loop and scheduler together: a delay is kept in real time, neither early nor ever later;
* SDR++: success means the value is the answer to this command;
* Socket and ByteBuffer: TCP loses, repeats and reorders nothing between the values of one
  side and those of the other; no buffer leaks; the flags are true of the socket below;
* console: prompts stay whole but for error reports, everyone reads his own line, calls return;
* host: nothing leaks but what a failing Lua module takes with it, globals that are
  unregistered do not outlive libraries, the exit status tells the outcome;
* Outside: one chain of refreshes, one connection, enter and leave events that pair;
* FireWatch: listeners know the fires, followed stations stay followed, one chain of polls.

## 2. Modules

| Module | Models | Composes |
|---|---|---|
| `Scheduler` | the scheduler, one action per step of the two nested traversals | |
| `SchedulerHistory` | the scheduler under an arbitrary program, with a log of what ran | `Scheduler` |
| `Gateway` | the gateway's thread, user code in every callback, the server | `Scheduler` |
| `DurableStore` | abstract: tables whose durable copy is replaced as a whole | |
| `Storage`, `MCStorage` | `Load`, `Save` query by query; implements `DurableStore` | |
| `Loop` | `loop_sync` on a clock of ticks | |
| `Timing` | `RunLoop` and `OnUpdate`: deltas of the loop drive the timer, callbacks take time | `Loop`, `Scheduler` |
| `ByteBuffer` | buffers with offsets and a byte order, as operators | |
| `Socket` | one socket, TCP or UDP, its peer, a script that sends and receives fields | `ByteBuffer` |
| `SDRPP` | commands and replies over one TCP connection | |
| `ConsoleThreads` | console calls of several threads under the default mutex | |
| `Host`, `MCHost` | main, script, loading of extensions | |
| `Outside` | the idle state and the presence in Discord | `Scheduler` |
| `FireZones`, `MCFireZones` | fires, stations and their events | |
| `FireSources` | polling of sources, user code in the callbacks | `Scheduler` |
| `Scheduler_proofs` | lemmas about the scheduler's actions | `Scheduler` |
| `SchedulerHistory_proofs`, `Gateway_proofs`, `Storage_proofs`, `Outside_proofs` | theorems about the module of that name | |
| `Timing_proofs` | theorems about `Loop` and `Timing` | |
| `FireWatch_proofs` | theorems about `FireSources` and `FireZones` | |
| `Extensions_proofs` | theorems about `Host`, `ConsoleThreads`, `SDRPP` and `Socket` | |

The theorems of the last two modules are about components that stand side by side and share
nothing. `Host`, `ConsoleThreads`, `SDRPP` and `FireZones` therefore name their definitions
after themselves (`HostSpec`, `ConsoleNext`, `SDRPPTypeOK`, `FiresInit`, ...), so that one module
can extend several of them.

`PROJECT.json` (`map`) names the source lines of every definition. Operators marked
`Mutant:` are altered versions of the definition below them; they are not part of any
specification, and show that a property can tell a plausible bug from the code.

### How the models correspond to the code

**Scheduler.** `table` is the set of filed events; an entry's `at` is the key of its bucket
and its `id` the order of insertion, so a bucket is the set of entries with one `at` and
`ipairs` walks it by `id`. `phase`, `bucket` and `cursor` say where the two nested loops of
`ExecuteScheduledEvents` are. `PickBucket` chooses any due bucket (`pairs` has no order),
`RunEntry` starts the callback of the next entry, also of one appended meanwhile,
`EntryReturns` ends it, `DropBucket` sets the bucket to nil, `NothingDue` leaves the `while`
loop. `ScheduleEvent` is enabled in callbacks and outside of updates. `MsPerSecond` is the
1000 of the code; it scales delays against deltas.

**Gateway.** `pc` is the function the thread is in, `depth` the number of `Disconnect` calls
in progress: the main line stands still while it is positive. `SendFails` is a send whose
exception makes `SendPacket...` call `Disconnect`; the `OnDisconnected` callbacks run
between it and `DisconnectEnds`. `handle` is `APRS.IS.Handle`, `connected` the state of the
client below it, which the code does not ask in its loop. `inbox` is what the server sent,
`packet` the packet in hand. `SaveStorageEvent` saves and reschedules, whatever the save
returned. `Save` may fail, since `Storage` shows that it may, and may raise an error
(`SaveRaises`). `PacketsPerUpdate` packets can reach the mailbox in one `Client.Update`. The
histories `seen`, `served`, `savedAt`, `lostIn`, `saved`, `connects`, `farewells` exist for
the properties.

**Storage.** A table is a function from its keys to kinds of values; `NoTable` is nil or a
missing table, `NoRow` a table that was created and not filled. `SaveFrom` starts a save,
and every query is an action that succeeds, fails, or never happens because the program
ended (`Crash`). `Image` is what the text format, SQLite's reading of the text and the
conversion at loading make of a table: `Stored` says it of a value, `Unquoted` of a key, and
`Kept` leaves out the keys whose value comes back as nil. Keys and texts are put between
apostrophes without escaping, so values come in kinds by what their apostrophes do:
`"quoted"` ends the literal and makes the query fail, `"doubled"` (`it''s`) is read as one
apostrophe, `"spliced"` (`a'||'b`) is evaluated. SQLite's view of column names (case is
ignored, an apostrophe ends the text) is in `Column` and `QuotedKeys`.

**Loop.** Ticks are the resolution of the timer; a millisecond has `TicksPerMs`. The call is
three steps (`SyncCalled`, waking, `SyncReturns`) between which the clock moves. A sleep lasts
as long as it likes, or ends up to `MaxEarly` ticks before its time.

**Timing.** The main loop around the two: `Start` is `Loop.Init` and leads to `OnUpdate(0)`,
`Synced` hands `delta` to the next `Update`. `Schedule` is enabled before an update (the
callbacks of packets run there), in the callbacks of events and after it; the clock moves
everywhere. `asked` remembers, for each entry, the real time of the last update before it.

**ByteBuffer.** A byte is a pair of a value and the number of its part, so that bytes in a
wrong order or of two values do not decode. The ten functions for numbers differ in their
width. What the library does beyond what was written is not known here; the scripts of the
model read no further.

**Socket.** `socket` is the extension's record, `al` the library's socket below it. `Send`
and `Receive` are one transfer, `SendAll` and `ReceiveAll` several, between which the peer
acts or the connection breaks (`Lose`). A receive call allocates its buffer
(`BeginReceive`), fills it by address (`ReceiveMore`) and hands it over or releases it
(`ReceiveNothing`). A call that changes nothing (a refused or failed `Connect`, `Listen`
over TCP, a send without connection) is a stuttering step. A call on a TCP connection may
fail for any reason and then says "closed" (`SaidClosed`); `givenUp` remembers in which
direction, as the script stops there. The script around it does what FireWatch does: fields
of one and two bytes, little-endian, while the peer writes in its machine's order; partial
sends are followed by the rest, through `byte_buffer_read` and the offsets.

**SDRPP.** The stream is a sequence of units, one for the text of a line and one for its
newline, each tagged with the command it answers. The server answers a getter with values or
with an error (`Answers`). `Arrive` moves a reply, or where `whole` is
FALSE a part of it, into the socket's buffer; both networks are explored. `ReadNothing` is the
moment the code takes for the end of the reply.

**ConsoleThreads.** One action per call that takes time or may be interrupted: taking the
mutex, each piece of the prompt, waiting for the user, copying the global string, releasing.
`Raise` is a Lua error between lock and unlock, which the thread's function catches or dies of.
`WriteException` is the report of a failing `thread_start` or `thread_join`, which goes to the
screen without the mutex. Each thread's callback is taken to run on a
Lua state of its own: the code shares one, which is a data race without bounded outcomes.

**Host.** `Order` is the sequence of loads of a script; a load has an object, a process
handle and a library, each there or not. After `ExtensionInit` the Lua module is read:
`RequireReads` reads a module once, its requirements first, and `ReadModules` copies the
constants that are globals at that moment; `RequireFails` is the error of a module, caught by
the script, which leaves the load without a handle (`orphans`). `Registers` and `Unregisters`
are the globals the init and deinit functions know, `Int16` the conversion of a Lua integer to
the parameter of `script_set_exit_code`.

**Outside.** `EnterIdleState` and `UpdateDiscordWhenIdle` lead to `presence`, where an update
succeeds, or fails and reconnects. `MinIdleTimeAssumption` is the condition on the
configuration that `OneChain` needs; the demo's 10 minutes satisfy it by far.

**FireZones.** Hot spots and radii become the set of places within them. `OnReceivePosition`
is the whole callback: find the fires, store the position, tell entries, moves and leaves,
forget. The packets of a source are `AddFire`, `UpdateFire`, `RemoveFire`. In this revision
nothing in the tree delivers these packets (see section 6, FireWatch sources); the module
models the handlers as the component they are, called in any order.

**FireSources.** `ConnectSource` opens the socket for the next end point, `ConnectFails`
closes it and starts the callback. `todo` is what `pairs` has not visited. Removing a
visited or unvisited field during a traversal is defined in Lua, adding one is not: then
`todo` becomes any set of end points. `Clear` replaces the table while the traversal goes on
in the old one. `SourceAccepts` and `SendMessageFails` end in the Lua error the code raises
there.

## 3. Runs

| Run | Properties | States | What it shows |
|---|---|---|---|
| `SchedulerHistory` | `NoEventLost` `RunsOnce` `RunsInTheFirstUpdate` `BucketIsFifo` `EveryEventRuns` | 546k | exactly once, in order, on time, eventually, with callbacks that schedule into the running bucket |
| `Gateway` | `PacketsInOrder` `ServedOnce` `OneSavePending` `SavesKeepUp` `SavesKeepApart` `EveryConnectionEndsOnce` `ExitCodeFollowsLoss` `NothingUnsavedAtReturn` `FailedSendEndsRun` | 1.29M | the loop, its packets, sends, saves and end |
| `GatewayListenOnly` | `ClosureEndsRun` (violated) | | a gateway that only listens never notices a closure |
| `Storage` | `StorageInv` `RestartGivesBackLastSave` `ImplementsDurableStore` | 1.19M | crash and failure between any two queries, keys and values the conversions change |
| `Timing` | `DeltasKeepTime` `EventsInRealTime` | 6.74M | oversleeping and waking early, slow callbacks, truncation, events scheduled by a timer that stands still |
| `SDRPP` | `SDRPPInv` `TrueAnswer` `CallReturns` | 12k | closure at any moment, replies in pieces: calls return; whole replies: answers are true |
| `Socket` | `SocketInv` `NothingLost` | 834k | partial transfers, would-block, failing calls and loss at any moment, both directions, TCP and UDP |
| `ConsoleThreads` | `ConsoleInv` `CallsStayWhole` `CallsReturn` | 485k | three threads, errors that are caught or not, joins with a timeout, failures reported without the mutex |
| `Host` | `HostInv` `NothingLeaks` `NoDanglingGlobals` `ConstantsCopied` | 4.8k | every step of loading fails or not, Lua modules too, unloads in any order |
| `Outside` | `OutsideInv` `OneChain` `PresenceKeepsUp` `VisitsPair` | 77k | the user and Discord come and go |
| `FireZones` | `FiresInv` `StationsStayFollowed` | 16k | fires and stations in any order |
| `FireSources` | `SourcesInv` `OnePollPending` `PollsKeepTime` | 16k | end points and interval changed while they are polled |

The invariants `...Inv` join the module's `TypeOK` with named invariants of its state
(`NilTableIsNowhere`, `InStep`, `ReadsItsOwnLine` and `FreedAfterEnd`, `StatusTellsOutcome` and
`HandlesAreUsable`, `NoConnectionLeaks`, `FlagsTrue`, `NoBufferLeaks` and `AnswersReachSender`,
`ListenersKnowTheFires`, `AttemptsLeaveNoSocket`). Instead of being checked in a run, the type
invariants of the scheduler, the gateway and the loop are proved, as is
`LeavesAfterFailedSend` of the gateway, `NothingOverdue` of the scheduler, and `NoDrift` and
`NeverAhead` of the loop. The meaning of each
property stands above its definition. `CHECK_DEADLOCK FALSE` is set where the program really
stops (`Run` returned, the process exited) or where a bound ends the behaviour.

**Bounds.** They are constants named `Max...`, used in guards only (`MaxEarly` is no bound but an
assumption, section 5). `SchedulerHistory`: 4
events, delays 0, 1 and 2, updates of 0, 1 or 3 ms with 2 ms to the second: three events can
share the bucket in execution, fall due in different orders and be skipped over by one
update. `Gateway`: 2 packets of every kind, one user event beside the periodic save with a
delay of 1 or 2, period 2, updates up to 3: one update can jump over a period, a save and a
user event share a bucket, and a send fails in every callback but those of `OnDisconnected`;
both packets may come in one `Client.Update`, where the first is lost and the second handled
(the proof has any numbers of both). `Storage`: one key whose column clashes with another's,
one with an apostrophe, one with two, one that is no string, values of every kind but
`"quoted"` (refused like `"table"`) in one table and one kind in the other: enough for a mix
of tables or of saves to show. `Timing`: 9 ticks of half a millisecond, intervals of one,
steps up to 3, sleeps that end a tick early, three events with delays of 0, 1 and 2 ms: a
callback can last longer than the interval, a fraction be cut several times before an event
is due, and an event be scheduled at every point of an iteration. `SDRPP`: 3 commands.
`Socket`: 4 fields of 6 bytes in each direction and buffers of 4 bytes: transfers split a
field, buffers fill up and are rewound. `ConsoleThreads`: 3 threads with a call each, so
that one waits, one holds and one joins, prompts of up to 2 pieces and one report, which can
stand anywhere between them. `Host`: four loads, Socket before ByteBuffer as in
`FireWatch.lua` and Loop twice, and exit codes on both sides of 16 bits. `Outside`: 22 ms
where the idle time is 8 and the period 4: the user can leave and return twice. `FireZones`:
2 stations, 2 fires, overlapping zones and a place outside; it has no counter.
`FireSources`: 2 end points, intervals 1 and 2, 9 ms with 2 to the second: an update can
jump over a poll, and the interval can be shortened and lengthened while one is pending.

**Fairness.** `SchedulerHistory` and `Gateway`: the one thread of the program runs on (weak
fairness of its steps), as callbacks return. `SchedulerHistory` adds that time passes between
updates (strong fairness of an update that advances the timer): `loop_sync` waits for
the next interval. The server is not fair to anyone. `SDRPP`: the calling thread runs on and
what was sent arrives; the server need not answer within any time, but it does answer or
close, as the first character is waited for without a timeout. `ConsoleThreads`: weak
fairness of each thread inside a call, the user answers prompts, and a mutex that is released
again and again is obtained at last (strong fairness of `mutex_lock`).

## 4. Proofs

All proofs hold for every value of the constants that satisfies the module's `ASSUME`s.

* `SchedulerHistory_proofs`: type correctness, `NoEventLost`, `RunsOnce`,
  `RunsInTheFirstUpdate`, `NothingOverdue`, `BucketIsFifo`; and `DueNeverGrows`, for delays
  other than 0, which is why `while ExecuteScheduledEvents()` ends. The inductive invariant
  `HistoryInv` adds to these what ties the traversal to the log: the entries of the bucket in
  execution up to `cursor` are exactly the filed ones that ran (`Behind`), and an entry that
  has not run is younger than what ran of its bucket (`Younger`). Without them dropping a
  bucket could lose an entry and appending could break the order.
* `Gateway_proofs`: type correctness; `LeavesAfterFailedSend` and `ExitCodeFollowsLoss` from
  `LossInv` (once a send has failed the handle is gone as soon as `Disconnect` returns, and for
  no other reason; where the thread is tells where the send failed); `NothingUnsavedAtReturn`
  from `SaveInv`. These hold for any set of callbacks that send, `OnDisconnected` included,
  whose nested disconnects the run leaves out. `EveryConnectionEndsOnce` is proved under the
  assumption that `OnDisconnected` callbacks do not send (if they do it is false: the
  callbacks are executed again inside themselves). `PacketsInOrder` holds for any number of
  packets in one `Client.Update`, which bounds how many the one-slot mailbox of
  `API.cpp:30-34` loses between two that are seen.
  `ServedOnce` rests on it and on `ServePlace`: while a packet waits to be handled
  it is the last one received, everything served came before it, and no user code runs that
  could raise in between. The periodic saves (`OneSavePending`, `SavesKeepUp` and
  `SavesKeepApart`, for every period, delay and number of events) rest on `ChainInv`: between
  two saves exactly one entry is pending, filed one period after the last save; while a save
  runs none is, until it has rescheduled itself, and between
  updates the pending one is still ahead of the timer. That user events share the table and the
  bucket is what makes this more than one line.
* `Timing_proofs`: of `Loop` alone type correctness, `DeltasKeepTime`, `NoDrift` and
  `NeverAhead`, for every resolution, interval and bound on how early a sleep may end: calls
  are due at fixed multiples of the interval, so that early ends do not add up; then of the
  composition `EventsInRealTime`, and `DeltasKeepTime` and `NeverAhead` again. The invariant
  of the composition relates every filed entry to the clock (`InStepSince`): since the entry
  was asked for, the timer has advanced by the real time less what each update cut off, and
  at the update before the last one by the same with one update fewer. The bound on lateness
  follows at the moment the bucket is picked. The clock of the loop and the timer of the
  scheduler never move in the same action, so neither module's invariant implies it.
* `Storage_proofs`: `StorageInv`, `RestartGivesBackLastSave`, and that `Storage` implements
  `DurableStore`, for any keys, columns and keys that SQLite reads otherwise, stored values and
  failing queries. What memory and disk are compared by is `Image`, the conversions there and
  back; of plain keys and values (`Plain`) it is shown to change nothing. All three have the
  assumption that the look at `sqlite_master` succeeds (`NoBlindLoad`; without it the
  properties are false, see section 6). `DurableInv` adds that a save in progress is at a
  table that is not nil and has cleared `intact`, that the row goes into a table just created,
  and that the public table is already on disk when the save is at the private one. With it
  each step maps to `Start`, `Stop`, `Change`, `Commit`, `Forget` or a stutter.
* `Outside_proofs`: `OutsideInv`, `VisitsPair`, `PresenceKeepsUp` and `OneChain`. The last is
  about time: a refresh left over from an idle state (`DiesOut`) is due at most a period and
  an iteration after the user's last input, and a new idle state begins `MinIdleTime` after it
  at the earliest, noticed up to an iteration late. Hence `MinIdleTimeAssumption`: the idle
  time is at least the period and two iterations.
* `FireWatch_proofs`: of `FireSources` `SourcesInv`, `OnePollPending` and the action
  property `PollsKeepTime`, for all end points, intervals and user code: between polls one
  entry is pending, in a poll none until it has rescheduled itself, and the pending one is
  filed under the time the last poll has asked for (`PollChain`). Of `FireZones` `FiresInv`
  and the action property `StationsStayFollowed`, for all stations, fires, places and zones.
* `Extensions_proofs`, `Host`: `HostInv`, `NothingLeaks` and `NoDanglingGlobals`, for any
  extensions in any order of loads. `LoadInv` says what a load holds at each of its steps
  (object, process, library, in this order), so that whichever step fails releases just that;
  `CodeInv` ties the exit code to what the script set, modulo 2^16. `ConstantsCopied`, for any
  order, names the one case in which it may fail: a module that another one, loaded before, has
  required and so read too early. This is the order in `FireWatch.lua` (section 6).
* `Extensions_proofs`, `ConsoleThreads`: `ConsoleInv` and `CallsStayWhole`, for any number
  of threads, calls and reports. By `LockInv` and `ScreenInv` only the owner of the mutex
  has begun and not finished a call, and that call is the last on the screen, but for
  reports of failing thread functions, or not there yet: whoever obtains the mutex next
  appends to whole calls. A thread that raises or is joined with a timeout in between
  changes neither.
* `Extensions_proofs`, `SDRPP`: `SDRPPInv`, and `TrueAnswer`, for any number of commands.
  `StreamInv` follows a reply through the network: when the network delivers replies whole, the
  stream between a command and the end of its reading is that reply without what was read
  (`NothingRead`, `PartlyRead`), and holds nothing between calls (`Quiet`), so that no later
  call finds the rest of an earlier answer.
* `Extensions_proofs`, `Socket`: `SocketInv` and `NothingLost`, for every capacity of the
  buffers, any number of fields and any byte order the two sides agree on. `NothingLost` compares
  sequences; what is inductive is about positions. With the stream of all bytes in closed form
  (`Length`, `StreamByte`), every place a byte can be in (the peer's side, the wire, the buffer a
  receive call fills, the script's buffer, the values read) holds a stretch of the stream
  (`Holds`) that begins where the one before it ends (`InStream`, `OutStream`). `Sizes`,
  `UnderWay` and `Unused` bound the buffers and say how far a call can be. A transfer moves a
  boundary between two stretches, `Collect` shifts one to the front of its buffer, a loss drops
  the ones in the middle. The lemmas on stretches turn positions back into the sequences and
  prefixes of the property.
* `Scheduler_proofs` holds the lemmas about the scheduler's actions that the modules on
  top of it share.

Only model-checked: liveness (`EveryEventRuns`, `FailedSendEndsRun`, `CallReturns`,
`CallsReturn`), since this prover reaches neither fairness nor `ENABLED`. Every safety
property a passing run checks is proved, with the hypotheses named above where there are
any: callbacks of `OnDisconnected` that do not send for `EveryConnectionEndsOnce`
(`Gateway`) and `NoBlindLoad` (`Storage`). Each is one the run's instance satisfies, and
without each the property is false. Nothing here needs recursion: no module declares a
RECURSIVE operator, and no theorem does induction over data.

## 5. Assumptions

* A null pointer returned by a C++ function is nil in Lua (`AL`'s binding is not in the
  repository). How many packets one call of `Client.Update` hands over is the library's:
  `PacketsPerUpdate` is 2 in the run `Gateway` and any number in the proofs.
* `Gateway.Init` and `Run` are called once; sources and events are not registered while
  `ExecuteEvent` runs. A script does not catch errors around `Run`: one in a callback ends it.
* `Loop`, `Timing`: `AL::Sleep` returns at most `MaxEarly` ticks before its time. The bounds of
  `NeverAhead` name it; it may be anything, and 0 if the library never wakes early.
* `Storage`: the apostrophes of a key or a text do not turn the statement into one with other
  columns or more values, and texts hold no NUL.
* Lua: `pairs` has no order; clearing a field during a traversal is allowed.
* `Outside` stands for the Windows build: on Linux `system_get_idle_time` returns 0
  (`Extensions/System/main.cpp:9-11`) and nobody is ever idle; and for the first 49.7 days,
  after which a 32-bit time is subtracted from a 64-bit count (line 25). Within one retry
  Discord eventually answers; the retry loops (`Outside.lua:110-116`, 369-375) have no bound.
* `Socket`: destroying a socket of the AL library closes it; the library's `SendAll` and
  `ReceiveAll` go on until all is transferred or the connection is lost; its sockets block
  until told otherwise; a datagram is taken whole or not at all. A script that was told
  "closed" does not go on in that direction until it closes the socket, as `FireWatch.lua:434`
  does.
* `ConsoleThreads`: the default mutex is not recursive; only the main thread starts and joins
  others, and it does not use a handle after `Join` returned true (two joiners would delete one
  object twice).
* `FireSources`: callbacks of the poll do not schedule `PollSources` themselves, and poll
  intervals are positive. Interval 0 would schedule each poll into the
  running update, which then never ends.

## 6. Where code and text disagree

Checked by a run that ends in a counterexample:

* `Gateway.lua:345` says `@return false, nil on connection closed`, and lines 349-351 wait for
  it. `aprs_is_read_packet` (`API.cpp:114-127`) swallows the exception and answers
  `would_block`, so that only a failed *send* ends `Run` (`GatewayListenOnly`).

Read in the code while modelling, without a run of its own:

* `SDR++.lua:58` says `@return success, vfo_frequency`. The reply is taken to end at the first
  pause or at a closure (`SDR++/main.cpp:279`, 297-306), and success is then reported without
  the value, or with the value of another command: `TrueAnswer` without its condition `whole`
  is violated. An error reply (`RPRT 1`) to `get_freq` has one line and is reported as a success
  as well (434-438); one to `get_mode`, which expects two, is not (394).
* `ScheduleEvent` counts from the timer of the last update (`Gateway.lua:201`). A packet's
  callback runs before the update of its iteration (162-168), so that what it schedules may run
  up to one iteration early by the clock, and a slow callback shortens what it schedules later.
* `FireWatch.lua:438-439` takes the first result of `ByteBuffer.ReadUInt8` and `ReadUInt32`,
  which is `success` (`ByteBuffer.lua`: `@return success, value`): the opcode and the size of
  the packet become booleans.
* `socket_set_blocking` and `socket_listen` return false on every path (`Socket/main.cpp:95-181`).
  A UDP socket that was set to non-blocking before `Connect` stays blocking: only the TCP branch
  applies the flag. `is_connected` is never cleared, so a socket whose connection was lost can
  only be closed. `SendAll` and `ReceiveAll` without a connection report "not closed".
* `Gateway.lua:621-634`: `Save` returns true for keys and texts that it has changed (two
  apostrophes become one, a spliced text is evaluated) and for `inf` and `nan`, which
  `LoadTable` reads as nil (587-589). A text that came back with a single apostrophe makes the
  next `Save` of its table fail, after the table was dropped.
* `Console.lua:18-34` holds the default mutex so that a prompt stays whole, but
  `Thread/main.cpp:45-49` and 73-79 write to the console without it.
* `Script.lua:15-19`: when `require` of the Lua module fails, the library stays loaded and its
  handle is lost; a script that catches the error cannot unload it. `orphans` of `Host` counts
  such loads.
* `Script.cpp:20` takes an exit code of 16 bits: `SetExitCode(65541)` is 5.
* `Socket.lua:28` calls `socket_is_listening`, which is not registered; `DEINIT`
  (`Socket/main.cpp:717-733`) leaves `socket_send_all` and `socket_receive_all` registered when
  the library is unloaded: a script can call into memory that is gone. `NoDanglingGlobals` is
  therefore about the globals in `Unregisters`; the instance has one outside of it.
* `Gateway.lua:574`: a failed look at `sqlite_master` makes `LoadTable` answer success and nil
  (570 says `@return success, table`), and a later save drops the table that was not read.
  `Storage` with `"exists"` in `Faults` shows it; the run leaves that fault out.
* `Gateway.lua:186-190`: when an acknowledgement cannot be sent, the next callback of
  `OnReceivePacket` is given a packet whose connection is gone (`PluginReadsPacket`).
* `FireWatch.lua:3-4` loads Socket before ByteBuffer; the Lua module of Socket reads
  `ByteBuffer.lua`, which copies its constants while they are nil. The run `Host` has
  that order; `ConstantsCopied` names the case.
* `FireWatch.lua:29-33` decides between *entered* and *moved* by whether the station is
  known, and a first report outside every zone makes it known.
* `FireWatch.lua:411` indexes `Sources.Sockets`, which nothing creates, and 19 calls
  `Sources.Disconnect`, which is not defined: the first source that accepts, and the first
  send that fails, raise a Lua error. `PollSource` and `DisconnectSource` (416-452) and with
  them the fire packets cannot be reached.
* `SkipMonitor.lua:11-12`: `IgnoreDigi` without its second argument removes the pattern.

## 7. Plan

1. *(done)* Scheduler, Gateway, Storage with its abstract specification, Loop; then the
   extensions with threads, partial failure and the network; then the plugins on the gateway.
   Theorems of the scheduler, the loop and the gateway.
2. *(done)* The Socket extension over ByteBuffer; the composition of Loop and Scheduler;
   replies of SDR++ that arrive in pieces.
3. *(done)* Proofs of every safety property of `Gateway`, `Storage`, `Timing`, `Outside` and
   `FireSources` that a run checks, the refinement of `DurableStore` included.
4. *(done)* The same for the components that stand alone: `FireZones`, `Host`,
   `ConsoleThreads`, `SDRPP` and `Socket`.
   Beside it, the failures that were left out at first: SQL texts with apostrophes, Lua modules
   that cannot be read, reports without the mutex, sleeps that end early, several packets in one
   update, calls that fail on a connection that stands.
5. *Next, models*: `FireSources` on top of `Socket` once its sources can be reached; the 32-bit
   idle time of Outside as a width parameter.
6. *Next, proofs*: how late an event of the gateway can be in real time (`EventsInRealTime`
   under the periodic saves); a variant function for the loops whose end is only
   model-checked, as `DueNeverGrows` is for the scheduler.

## 8. Not modelled

* SkipMonitor: lists of ignored patterns and a table of positions; what it reports is a
  function of these and of one packet, whose parsing is the AL library's.
* Socket's `Accept` and TCP `Listen`, which throw; strings in ByteBuffer, and reading beyond what
  was written: the library decides.
* APRS packets: parsing and formatting are in the AL library, outside the repository; a
  packet is its kind, its number and whether it asks for an acknowledgement.
* N2YO and WebRequest: stateless requests and decoding of their answers.
* Process, System, Types, the demo scripts: single calls of the operating system, examples.
* In the modelled components: texts, wording and formatting, the parsing of command
  parameters and of fire packets, distances, Discord's icons and buttons,
  `Console.SetTitle`, `script_lua_eval` other than as what catches an error, mutexes a
  script creates for itself.
