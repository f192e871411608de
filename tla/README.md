# Serial Gateway: specifications, model checking and proofs

This directory specifies the serial gateway (Go, `src/`) in TLA+. The modules
are checked with TLC on small instances, and the safety of the core is proved
with TLAPS for every value of the constants. `PROJECT.json` lists the runs, the
source lines each definition stands for, the mutants that show each property
can fail, the hazards and the theorems.

    tlc -workers 2 -config MCHistory.cfg MCHistory     # a run
    tlapm HistoryProofs.tla                            # a proof

## 1. The system

The gateway opens each serial port once and shares it among WebSocket, Telnet
and raw TCP clients and an HTTP API.

    device -> reader goroutine -> readLoop --flush--> history  -> GET /api/v1/read
                                            \-------> broadcast -> queues -> clients
    clients, POST /api/v1/write -> Write -> device          (and into the history)
    ScanLoop, PUT /api/v1/config -> Reconcile -> gateways, ports, listeners

| Component | State | Operations | Meets others through |
|---|---|---|---|
| port history (`gateway.go`, `api.go`) | `history`, `historyBytes`, `sequence`, `notify` under `historyMu` | `addRecord`, `RecordsAfter`, `HandleRead` | read loop and `Write` append; HTTP handlers sleep on `notify` |
| port ownership (`gateway.go`) | `port`, `generation` under `portMu`; `closed` | `Attach`, `Detach`, `Close`, `Write`, end of `readLoop` | Reconcile attaches and detaches; handles are closed outside the lock |
| read loop (`gateway.go`) | local: `pending`, `timer`, channel `reads` | reader goroutine, `flush`, deferred exit | history, then broadcast |
| subscribers (`gateway.go`, `app.go`, `telnet.go`) | `subscribers` under `subscribersMu`; per client `send`, `done` | `Subscribe`, `Unsubscribe`, `stop`, `enqueue`, `broadcast` | read loop sends, handlers and writers leave, `Close` ends all |
| discovery and mapping (`app.go`) | `gateways`, `allowed`, `detected`, port allocators, under `a.mu` | `Reconcile`, `ScanLoop`, `ApplyAllowedPorts`, `allocateMappedPort` | one goroutine scans, every PUT reconciles too |
| listeners (`gateway.go`, `telnet.go`) | `listener`, `telnetListener` under their mutexes | `EnsureTCP`, `EnsureTelnet`, accept loops, `Close` | Reconcile, `Close` |
| configuration (`config.go`, `config_http.go`) | the file, `c.current` under `c.mu` | `LoadOrCreate`, `Save`, `Validate`, GET, PUT | `ApplyAllowedPorts`, outside `c.mu` |
| Telnet codec (`telnet.go`) | per connection: the decoder's `state` and `command` | `Decode`, `encodeTelnetData`, the greeting | input split by reads; answers and output share the connection |
| terminal input (`gateway.go`) | per connection: `lastEscape`; `writeMu` | `splitTerminalInput`, `terminalInputWriter.Write`, `Write` | several `Write` calls per input, between those of other clients |
| web page (`index.html`, `commands.js`, `log-colors.js`) | sessions, tabs, command buttons | connect, select, execute, save | socket events, timers |
| API documents, start-up, effects | none worth a model | | |

What is hard, by component, and what "correct" means there:

* **History.** A record may be added between an empty snapshot and the sleep on
  it; eviction runs between two reads; responses are lost. Correct: a client
  that follows `next_after` gets each record once, or is told that it is gone.
* **Ownership.** A port is replaced while the loop of the previous one is still
  ending; handles are closed outside the lock; writers hold it for reading.
  Correct: the attached port is alive, no handle is leaked or cut off.
* **Read loop.** Timer, data and error race; data may come with the error.
  Correct: every byte is recorded, once, in order, in bounded time.
* **Subscribers.** Clients join, lag, leave and are dropped in the middle of a
  broadcast. Correct: a stream has no hole, and a slow client delays nobody.
* **Discovery.** Two passes interleave between critical sections. Correct: one
  gateway per name for good, and the ports that are present and selected - and
  no others - are open.
* **Configuration.** Requests overlap; a save may fail; the process or the machine
  may stop between any two steps. Correct: callers see one register, the file can
  always be started from, what is not in force has been announced.
* **Client input.** Reads cut the input anywhere; units of several clients take
  turns on the port; a write may fail halfway. Correct: each client's data arrives
  once and in order, Telnet commands and data are told apart in both directions,
  and the history is what the port was given.
* **Listeners.** Accept loops fail and end late while passes listen again and
  `Close` runs. Correct: an open listener is always known to somebody who can
  close it, and a failed one is replaced.
* **Page**: see the plan.

## 2. The modules

| Module | Models | Checked by | Proofs |
|---|---|---|---|
| `CursorFeed` | abstract: a feed read by cursor | `MCHistory` (refinement) | `HistoryProofs` |
| `History` | records, eviction, long poll, polling client | `MCHistory` | `HistoryProofs` |
| `PortLifecycle` | `portMu`, generations, handles | `MCPortLifecycle` | `PortLifecycleProofs` |
| `ReadLoop` | reader goroutine, coalescing, flush | `MCReadLoop` | `ReadLoopProofs` |
| `Fanout` | subscribers, queues, broadcast, close | `MCFanout` | `FanoutProofs` |
| `Discovery` | Reconcile run by two goroutines, allocation | `MCDiscovery*` | `DiscoveryProofs` |
| `ConfigRegister` | abstract: a register that survives losses of power | `MCConfigUpdates` (refinement) | `ConfigUpdatesProofs` |
| `ConfigUpdates` | GET, PUT, Save, LoadOrCreate, crashes | `MCConfigUpdates`, `MCConfigNotice` | `ConfigUpdatesProofs` |
| `TelnetCodec` | decoder, encoder, greeting; the meaning of a stream | `MCClientInput` | `ClientInputProofs` |
| `TerminalInput` | `splitTerminalInput` | `MCClientInput` | `ClientInputProofs` |
| `ClientInput` | clients from their reads to the port, and back | `MCClientInput` | `ClientInputProofs` |
| `Listeners` | `EnsureTCP`, `EnsureTelnet`, accept loops, `Close` | `MCListeners` | `ListenersProofs` |

**CursorFeed** says what the read API promises: records are published in order,
and a reader moves its cursor to a later record having received everything up
to it, or all but a first part that it was told it lost.

**History.** `AddRecord` is `addRecord` under `historyMu`; the data of a record
is its size, as eviction looks at nothing else. A client's request is
`HandleRead` from its first `RecordsAfter` on: `Request` takes that snapshot and
sleeps or responds; `Wake`, `Timeout` and `Disconnect` are the cases of the
`select`; `SecondSnapshot` follows the first two. `notify` is a number: channel
n is closed once `notify > n`. `Receive` and `Discover` are the client of the
API guide (`docs.go`): it sends `next_after` as its next `after`, and may begin
at `latest_sequence`. `start`, `seen` and `lost` are history variables.
`MaxSequence` bounds the records; a loop of requests needs no bound.

**PortLifecycle.** Handles are what `openSerial` returns, each opened once.
Threads are goroutines that run Reconcile or `Close`: they open and attach, or
detach. `portMu` is Go's `RWMutex`: a thread that wants it exclusively first
announces itself, which stops new readers, and gets it when the readers have
left. A writer holds it for reading across `port.Write`; every other reader
holds it for one step. Each attached handle has a read loop, which here only
notices the end of its port. `writeMu` appears as its effect: one writer at a time
is inside `port.Write` (`NoReader`). `MaxGeneration` bounds attachments.

**ReadLoop.** The device delivers `MaxBytes` bytes, numbered, in pieces up to
`MaxChunk` (4096 in the code), possibly with an error. `Read` and `Send` are the
reader goroutine, `ReceiveResult` and `ReceiveTimer` the cases of the `select`.
A flush is three steps - take the pending bytes, `AddRecord`, `Broadcast` - as
other goroutines see it. A stopped timer cannot fire late: it is replaced by
`nil` and with it the channel that `select` looks at.

**Fanout.** Each subscriber has a handler (it reads its client), a writer
goroutine and a queue; each read loop flushes `MaxChunks` chunks, each recorded
and then offered to the snapshot of subscribers. Two loops stand for a port that
was replaced while the previous loop was still in its last flush. `Delete` and
`Stop` are the two halves of `Unsubscribe`, called by writer, handler, broadcast
and `Close`. An `enqueue` whose subscriber is done meanwhile chooses between the
ready cases of its `select`, as Go does. A write fails when the connection is
closed or broken or its five seconds are over.

**Discovery.** One step for each critical section on `a.mu` and each call on a
gateway. `scan` is `ScanLoop`, `put` a handler of `PUT /api/v1/config`; both run
`Reconcile`. A name is a number, COMn or 0 for a name without number; a gateway
is its position in the order of creation, so that a second gateway for a name is
visible. The read loop of an unplugged port is `LoopEnds`. The first Reconcile,
which `main` runs alone, is the initial state. Attach, Detach and the loop are
single steps here, as `PortLifecycle` justifies; Telnet is enabled; listening may
fail. A gateway is made only while `allocateMappedPort` returns for both of its
numbers (`Returns`): with none left the code would go round for ever under `a.mu`,
and the model stops short of that.

**ConfigUpdates.** What the path of the file names, and beside it the set of what
the disk may show after a loss of power (`survivors`): a rename is atomic but
reaches the disk later, a file written in place may be torn. `CreateFile` and
`WriteDefault` are the halves of the `os.WriteFile` in `LoadOrCreate`, `Load` its
other path. A PUT is `AskPut`, `CheckBody`, then under `c.mu` `Lock`,
`WriteTemporary`, `Rename` (or `SaveFails`) and `Commit`, then outside it
`SetAllowed` and `ListAndReconcile`; a GET is `AskGet` and `ReadCurrent`; both end
with `Respond`. `Stop` and `PowerLoss` may come at any moment, `WriteBack` is the
operating system. A configuration is its ports and, as one value, the rest:
`handlePut` and `restartRequired` distinguish no more. **ConfigRegister** is what
callers may rely on: a GET takes effect when it copies `c.current`, a PUT at its
rename.

**TelnetCodec** has the decoder of the code, byte by byte with its state between
reads, and beside it the meaning of a whole stream as a row of items (data, escaped
IAC, commands, negotiations, subnegotiations), which knows neither states nor
reads. **TerminalInput** cuts input into units. **ClientInput** joins them: a client
(raw TCP, Telnet or WebSocket) reads any number of its next bytes, decodes and cuts
them, answers negotiations, and writes unit by unit - `LockWrite`, `PortWrite`,
`Record` are `SerialGateway.Write` under `writeMu` - with `lastEscape` as an age
in ticks. `Show` is the writer goroutine of a Telnet client. Two history
variables (`cut`, `calm`) serve two properties.

**Listeners.** Both kinds of listener of one gateway. A thread is past the look at
`g.closed` or idle; the rest of `EnsureTCP` and `EnsureTelnet` is one step under the
listener's mutex. A socket whose loop ended on an error is `stranded`: it keeps the
address until the runtime collects it. `Listeners` bounds how often one is made.

## 3. The runs

| Run | Instance | What it shows |
|---|---|---|
| `MCHistory` | 1 client, 5 records of sizes 1, 3, 4, bound 3, limit 1 or 2 | all safety of the history, refinement of `CursorFeed`, `CatchesUp` |
| `MCPortLifecycle` | 2 handles, 2 threads, 1 writer, 3 generations | ownership of handles, and that they get closed |
| `MCReadLoop` | chunk 3, channel 2, 7 bytes | no byte lost, doubled, reordered, stranded; both goroutines end |
| `MCFanout` | 1 subscriber, 2 loops, queue 1, 3 chunks | streams without holes, in the order of the history; broadcast never waits; clients that are stopped or dropped end |
| `MCDiscoveryScan` | COM1, COM3 and a name without number, ports 8-12, 1 scanner | distinct numbers, one gateway per name for good |
| `MCDiscoveryPut` | 1 name known at the start, scan and PUT | present devices get opened, deselected ones released |
| `MCDiscoveryRace` (violation) | 1 new name, scan and PUT | finding 1 |
| `MCDiscoveryApplied` (violation) | 1 name, scan and PUT | finding 2 |
| `MCConfigUpdates` | 2 requests, 3 bodies and one that does not decode | refinement of `ConfigRegister`, a usable file, selection and notice, every request answered |
| `MCConfigNotice` (violation) | 2 requests | finding 3 |
| `MCClientInput` | 2 clients in 10 scenarios, every split into reads | data complete and in order, line ends, escape pauses, Telnet both ways, history as the port |
| `MCListeners` | 2 kinds, 2 threads, 2 listeners of each kind | open listeners within reach, closed for good, replaced after a failure |

Why the bounds are enough:

* History: with bound 3 the sizes make eviction drop no, one and several
  records, and keep one that is too large; five records let a cursor expire
  twice. Clients share nothing they write, so one shows what many would; the
  proofs have any number.
* Ownership: two handles overlap in every way an old and a new port can.
* Read loop: pending bytes are added to without filling the chunk, fill it exactly
  and exceed it; the channel fills; three records and an exit fit into seven bytes.
* Fanout: a queue of one overflows at the second chunk; three chunks in each loop
  let a subscriber come between two of them, lag and be dropped before the last. Subscribers meet only in
  the snapshot, which takes them one after the other.
* Discovery: COM3 maps beyond the last port, the name without a number starts at
  a number COM1 may want, and the allocator wraps.
* Configuration: two requests cross in every order; of the three bodies one
  changes ports and settings, one changes them back, one is invalid. Restarts and
  losses of power are not bounded. The proofs have any number of requests.
* Client input: every scenario is short enough for every split, and the scenarios
  bring together what can meet: an escape sequence cut at each byte, CR NUL and CR
  LF, an escaped IAC before SE, refusals, output that looks like a command.
* Listeners: the second listener of a kind may be made while the loop of the first
  is still ending, which is all that a third could meet; the proofs have any number.

`MCReadLoop`, `MCFanout`, `MCClientInput` and `MCListeners` do not check for
deadlock: the loops, goroutines and clients they model really end, and no listener
is made beyond the last.

### Fairness

* `History`: a request's goroutine runs on, the client keeps polling, and not
  every response is lost (strong fairness of `Receive`). The long poll's timer is
  *not* assumed to fire: `CatchesUp` rests on the wake-up alone.
* `PortLifecycle`: goroutines run, the mutex starves nobody (Go's `RWMutex` stops
  new readers when a writer waits), and `port.Write` returns. The last is an
  assumption about the device: the code sets no write timeout.
* `ReadLoop`: goroutines run, a timer fires, and `select` does not pass over a
  ready case for ever, as Go chooses at random (strong fairness).
* `Fanout`: goroutines run; a write returns within its deadline; reading a closed
  connection fails. A client is never obliged to leave.
* `Discovery`: the ticker ticks, passes run on, loops of failed ports end, and
  listing the ports and opening a free one succeed now and again (strong
  fairness, per name). Users need not do anything.
* `ConfigUpdates`: handlers run on, and `c.mu`, Go's `RWMutex`, starves nobody
  (strong fairness of `Lock` and `ReadCurrent`). Nothing is assumed of the machine.
* `ClientInput`: clients send their input, handlers run on, time passes,
  `port.Write` returns, and `writeMu` starves nobody (Go's `Mutex` hands itself to
  a waiter after a millisecond).
* `Listeners`: passes are made for ever, goroutines run on, the runtime closes a
  listener nobody refers to, and a free address can be listened on now and again.

### Findings

1. **Two gateways for one device** (`MCDiscoveryRace`, `app.go:179`). The lookup
   and the creation of a gateway are separate critical sections. When a scan and
   a PUT meet a new device at once, both create one; the second takes the map
   entry with other port numbers, the first keeps its listeners and perhaps the
   port, and nothing will ever close it. The project's README promises a mapping
   that does not change while the process runs, and `COMn -> base-port + n`.
   `MCDiscoveryScan` shows that one pass at a time keeps the promise.
2. **A selection that does not take effect at once** (`MCDiscoveryApplied`,
   `app.go:173`). A scan that has already read the old selection for a port opens
   it again after the PUT has detached it. The README says that a selection
   takes effect immediately. `MCDiscoveryPut` shows that it does in the end.
3. **A restart notice that goes away** (`MCConfigNotice`, `config_http.go:84`).
   `restart_required` compares with the configuration saved before, not with the
   one the program runs with. Settings that are saved a second time, unchanged or
   with another port selection, are answered without it, and the page shows "Saved
   and applied." over settings that wait for a restart. `RestartIsAnnounced` is what
   holds: some PUT since the start was answered with it.

### What holds with a condition

* `AlwaysStartable` begins with the first configuration that reached the disk. A
  crash inside the very first `os.WriteFile` leaves a file that does not decode.
* `SelectionIsTheSavedOne` is about PUTs that do not cross. One that saves while
  another has saved and not applied yet may leave the older selection running until
  the next PUT or restart.
* `LineEndsAreNormalized` is about line ends that come in one read. `handleTelnet`
  and `splitTerminalInput` look for CR NUL and CR LF in one read only; of a pair that
  TCP cuts in two, both bytes go to the device. And an escape sequence is written as it
  is, a CR LF among its parameter bytes (`ESC [ CR LF A`) included. `InputArrives`
  covers those inputs: nothing else changes.
* `ClosedForGood` leaves out a pass that had looked at `closed` before `Close` set
  it. Its listener stays known (`OpenIsWithinReach`) and ends with the process.

## 4. The proofs

Each proof module follows one argument: an inductive invariant, a lemma that
every action preserves it, and theorems that read the properties off it. The
constants carry only the named assumption of their module.

* `HistoryProofs`. `HistoryInv` joins the type invariant to: the history is a
  window of consecutive numbers ending at `sequence` (what makes "the first
  record after the cursor" an index one can compute), no cursor is beyond
  `sequence`, and a response under way is sound - its records are consecutive
  numbers after the cursor, its flag tells exactly whether there is a gap
  before them. The last is what `NoSilentLoss` and `NothingRedelivered` need: a
  response stays true while the history moves on under it. Then
  `ImplementsFeedSafely`: every step maps to a step of `CursorFeed` or a stutter.
  That eviction drops no more than it must (`EvictsWhatItMust`) needs the count of
  bytes between two steps, and what `Bytes`, a sum over a sequence of any length, says
  of the part that is kept. A sleeping request has nothing before it (`PollInv`), so
  each answer takes its client further, leaves an empty-handed one where it is, and
  says by `has_more` whether to go on (`ReadsAdvance`). `CursorFromBeforeARestart`
  is about a cursor that is not before the newest record, which is what a restart makes
  of it: hazard `api.go:171`, for which the model needs no restart.
* `PortLifecycleProofs`. `PortInv` says for every handle who is responsible for it:
  the gateway (then its generation is current and its loop alive), or exactly one
  goroutine; and that the exclusive lock excludes a `port.Write` in progress.
  Generations only grow, so an old loop never matches again. And a handle is attached
  once (`TakenOutForGood`). `LockWaitsForOneWrite` says what somebody who waits for
  `portMu` waits for: one `port.Write`, to the port that is attached.
* `ReadLoopProofs`. The invariant relates where the loop is, what is pending and
  the timer, and gives each record its length bounds. `BytesInOrder` is inductive once
  a result that the reader still holds is known to be the next piece of the device:
  records, pending bytes, the channel and that result, put end to end, are what the
  device has delivered. That the error is the last result (`ErrorIsLast`) gives the end:
  neither goroutine leaves the other behind, and of a loop that is done everything is
  recorded and was broadcast.
* `FanoutProofs`. What a subscriber was queued of a loop ends at the last chunk the loop
  broadcast, or at the one before while the snapshot still has the subscriber to deal
  with. This has to be said of subscribers that were taken out of the map and are
  still in a snapshot, too. A subscriber that is refused a chunk has left the map before
  the next snapshot, so it is not offered a later one: no hole. `StreamFollowsHistory`
  is proved under its own condition, one loop at a time in `flush`. `BroadcastEnds`
  gives a broadcast a measure (`StepsLeft`): an offer always has room or may be given
  up, every step of the loop lowers it, and no other goroutine's step raises it. Of a
  subscriber that left the map somebody still owes the stop (`StopIsUnderWay`).
* `DiscoveryProofs`. The numbers in use are those of all gateways ever made; the loop of
  `allocateMappedPort` ends at the least free one of a range. `MappingIsStable`, which
  finding 1 refutes for two passes at once, is proved for passes that do not overlap
  (`OneAtATime`), whoever runs them: what the lookup found missing is then still missing
  at the entry. Under the same condition `SelectionIsApplied` holds, which finding 2
  refutes without it: every gateway ever made stays the one of its name
  (`NeverReplaced`), and of those behind the position of the pass none is open outside
  the selection (`SelectionInv`).
* `ListenersProofs`. An open listener has its accept loop, and is named by the gateway
  or held by `Close`, never by both; an accept loop that is about to clear the name
  has a socket that is not open, so it never takes out what is served. After a
  `Close` that raced with no pass, nobody is on the way to listen. Only `Close` takes
  out a listener that serves, and a socket nobody accepts from has somebody who closes it
  (`EndedInv`), so its address comes free.
* `ConfigUpdatesProofs`. `ConfigInv` says of a PUT under `c.mu` that its `previous` is
  still current, that the file differs from `c.current` only between the rename and
  the assignment - which is why a GET must wait for the lock - and that among PUTs
  that do not cross only one has still to apply what it saved. The properties follow,
  and `RequestsAreAtomic`: every step is one of `ConfigRegister` or a stutter.
  `NoticeInv` says how far finding 3 goes: whoever is the first to save settings that are
  not in force announces them, and only a PUT that saves them once more is answered
  without the notice (`FirstChangeIsAnnounced`).
* `ClientInputProofs`. First what the recursive functions return for any input: the
  decoder, the encoder and the cutting into units are defined and keep their types.
  `InputInv` then says what each place of a handler may assume of its unit (`Shape`,
  `Busy`), that `writeMu` has one holder (`Holder`), that the history is behind the
  wire by just the piece in that holder's hands (`OnePieceBehind`), and that the age
  of an escape sequence is the time since it (`AgeIsCalm`). That the decoder and the
  meaning of a stream agree is a second argument, byte by byte: the decoder's state says
  where in an item the stream stands (`Follows`), and what it put out since is what the
  items completed since mean (`Heard`). Therefore cutting the input makes no difference.
  In the other direction, all that the gateway writes is whole items that add either
  data (`EncodeAdds`) or none (`Neutral`: the greeting, every answer), whatever was
  written before. `TalkInv` joins the two for each Telnet client.
  The third argument is about what reaches the port. Two rows of bytes are alike
  (`Alike`) if, after whatever came before, they are the same up to what pads line ends;
  dropping NUL (`DropIsAlike`) and cutting into units (`SplitIsAlike`) keep a row alike,
  so a client's bytes on the wire and those still in its units are always alike to its
  data (`ArrivingInv`). When nothing cuts a line end, `DropAfterCR` distributes over
  the reads (`DropJoin`) and the cutting is exactly it (`SplitIsExact`), which gives
  the same to the byte (`ExactInv`).

Induction over data. The library's induction theorems take an operator; the proofs
here use a set instead: the numbers that have a property, of which the least that is
missing would follow from the one before (`NatSetInduction`, from the library's
`WFMin`). A recursive function is met as the `CHOOSE` it is: a function that obeys the
equation is built by the same induction, and agrees with any other.

The type invariants, and `HistoryContiguous`, `NoLostWakeup`, `NoStrandedBytes`,
`HistoryBeforeSubscribers` and `ListeningIsServed` are proved for every value of the
constants; most of them are for that reason not invariants of a run. Every invariant
and every action property of the passing runs is proved, and two properties that a
violation run refutes are proved under the condition that saves them.

Only model-checked is what holds under fairness, which is out of the prover's reach.
Each of these properties rests on a safety fact - what keeps the awaited step possible -
and that fact is proved for every value of the constants:

| Liveness, checked by TLC | What is proved of it |
|---|---|
| `CatchesUp`, the fairness of `ImplementsFeed` | `LongPollIsNotLost`, `ReadsMakeProgress` |
| `UnservedHandleCloses` | `NothingLeaks`, `LockWaitsForOneWrite` |
| `EveryByteIsRecorded` | `NothingIsStranded`, `EverythingIsRecordedAtEnd` |
| `BothEnd` | `NobodyIsLeftBehind` |
| `RemovedEnds` | `RemovedIsStopped`, `BroadcastEnds` |
| `RequestsAreAnswered` | `LockIsGivenBack` |
| `InputIsWritten` | `WriteMuIsGivenBack` |
| `ListensAgain` | `AddressComesFree` |
| `PresentGetsOpened`, `DeselectedIsReleased` | nothing: they are about what later passes repair |

## 5. Plan

Done, most important first: history, ownership, read loop, subscribers, discovery,
configuration, client input, listeners. What is left, in this order:

1. A composition of `ReadLoop`, `History` and `Fanout` into the gateway, shown to
   implement an abstract terminal: what clients and readers see is one sequence.
2. `WebSession` and `CommandRunner`: late socket events, tab selection, a paused
   command against stop, disconnection and a switch of port.

## 6. Not modelled

`PROJECT.json` gives each component's status. Left out for good: parsing and
formatting of parameters and JSON (sequential, total conversions that reject
what they do not accept; `scan_interval_ms` so large that its duration overflows is
among them), the documents and OpenAPI handlers (constant text),
logging, the decorative scripts of the page and the vendored libraries. Not
visible in the models: time (a timer may fire at any moment, the deadlines have
no lengths; only the escape delay is counted, in ticks), the contents of data
outside `ClientInput`, and a device that is replaced by another of
the same name between an open and its attach.
