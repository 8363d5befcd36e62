# TCPadapter in TLA+

TLA+ modules for the TCP adapter in `src/`: what its components do, what TLC
checks of them on small instances, and what TLAPS proves for every value of the
constants. `PROJECT.json` lists the runs, the mutants, the source lines of every
definition, the hazards and the findings.

## The system

The adapter keeps a TCP connection to each controller, queues commands for it,
writes them as frames, and reports the outcome of every command.

| part | state | operations | what makes it hard |
|---|---|---|---|
| accept loop, `handleConn` (`server.go`) | counters, tracked connections, blocked hosts, wait group | accept, register, read, time out, clean up, shut down | limits compared before they are counted; cleanup by controller id; shutdown against everything else |
| delivery (`server.go`) | locals of `flushQueue`, the flush lock | flush, process in-flight, sweep, handle ack11 and status1 | a command moves between queue, locals and table in separate critical sections |
| session manager (`manager.go`) | sessions, in-flight table, sequence number, dedup keys | create, enqueue, register, ack, time out, persist, restore | saves that fail or come before the change is complete; wrap of 8-bit numbers |
| retry backoff (`manager.go`) | none | `retryDelay` | overflow, jitter |
| command queue (`queue.go`) | four buffers | push, pop, drain, drop, snapshot | priorities and modes |
| command policy (`command_policy.go`) | none | priorities, profiles, what modes forbid | |
| codec (`protocol/`) | none | encode, read, detect the mode | the mode is guessed from the first frame |
| payloads (`protocol/`) | none | build, validate | offsets by hand; limits checked twice |
| metrics and debug records (`observability.go`, `server.go`) | counters, two bounded lists | count, record, scrape, fetch | several critical sections per event; pages whose requests overtake each other |
| command builder (`command_builder.go`) | what the page has built | select, build, queue | an await between what is built and what is queued |
| stores (`store/`) | file, map or table | save, delete, list | crash between system calls |
| bus, configuration, simulator | logs | | no state that the others depend on |

`handleConn` goroutines and the sweeper both flush the queue of a controller,
one at a time under a lock per controller. Callers of `EnqueueCommand` and
frames that arrive change the session meanwhile. The manager saves a whole
session after most changes, and `main` restores all of them at the start.

## Modules

| module | models |
|---|---|
| `CommandPolicy` | `command_policy.go`: supported ids, priorities, delivery profiles, modes |
| `ControllerQueue` | `queue.go`: the operations on the four buffers |
| `SessionManager` | the session and its snapshot; one operator per method of the manager |
| `Delivery` | connection goroutines, sweeper, `flushQueue`, `EnqueueCommand`, restarts, for one controller |
| `CommandLife` | the promise to the caller of `EnqueueCommand`: the stages of a command |
| `DeliveryLife` | the stage of a command read off the state of `Delivery`; the refinement |
| `ConnLifecycle` | accept loop, registration, timeouts, cleanup and shutdown, for several controllers |
| `SessionStore` | the abstract store: a map from controllers to snapshots |
| `FileStore` | the file store, one step per system call |
| `RetryBackoff` | `retryDelay` with durations of bounded width |
| `FrameCodec` | frames as bytes, for any checksum, and the detection of the frame mode |
| `CRC16` | the checksum, CRC-16/MODBUS |
| `FirmwareStart` | command 19: block count, builder, validator, both debug handlers |
| `Payloads` | the layouts of all commands, their builders and `ValidateServerCommandPayload`, in bytes |
| `CommandBuilder` | the page `/debug/command-builder` and the handlers it calls |
| `Observability` | counters, debug records, `/metrics`, the dashboard and the page of raw messages |
| `MCDelivery`, `MCConnLifecycle`, `MCFileStore`, `MCAlgorithms`, `MCObservability` | instances for TLC |
| `ComponentProofs` | theorems about the parts that stand by themselves: `FirmwareStart`, `RetryBackoff`, `CommandBuilder`, `FrameCodec`, `FileStore` |
| `ServerProofs` | theorems about `ConnLifecycle` and `Observability` |
| `SumProofs` | lemmas about sums over finite sets |
| `DeliveryProofs`, `DeliveryOutcomeProofs`, `DeliveryLifeProofs`, `DeliveryModeProofs`, `DeliveryLimitProofs` | theorems about `Delivery` |

**Delivery.** `pc` is the point of a goroutine between two critical sections,
`fl` the locals of `flushQueue`, `out` the terminal events a goroutine publishes
before its next step. The controller answers the frames on the wire in any
order, late, twice or never. Time is not counted: `expired` holds the commands
whose TTL is over, each entry in flight has a timer that may elapse. A status
or ack11 frame that does not parse is "other". The initial state has a session.
`Enqueue` is one step under `m.mu`; the flusher's operations on the queue take
only `q.mu`, and each commutes with what `Enqueue` does before its push. `Crash`
loads the last snapshot. A failed save is ambiguous (`SaveFailedOf`): the store
has the old snapshot or the new one, as when a PostgreSQL statement times out
after the server applied it. That the file store always has the old one is
`FileIsHeld`.

**CommandLife.** A command is new, then owed, announced and settled, in this
order and one step at a time; it may be refused or dropped in `EnqueueCommand`,
and lost only when another command takes its number after the counter wrapped.
A fault, that is a failed save or a restart, ends the promise. `DeliveryLife`
hides everything else: the goroutines, the queue, the in-flight table, numbers,
retries and connections.

**ConnLifecycle.** A connection is used once. Deadlines pass at any moment.
Frames buffered before a close may still be handled. A handler stops when `Run`
has returned, and its locals go when it ends. The runs do not check deadlock,
because the server does stop.

**FileStore.** `dir` is the directory that processes see, `disk` the set of
directories that a power failure may leave. A save becomes visible to the
abstract map when `writeAllLocked` reports success, or when the next process
reads it after a kill. `fragile` of `SessionStore` is that something has damaged
the file or a rename is unsynced; only then may the map lose what was saved. The
cleanup of archives is one step for the listing and one for each removal, any of
which may fail or be the last; an archive is its number.

**FrameCodec.** `Send` and `Arrives` are the client and the network; the rest is
`internal/protocol`. A client sends what `EncodeFrame` does not refuse
(`Encodable`). The checksum is a parameter: the run gives it `CRC16Modbus`, the
proofs say what they assume of it. The network may add any number of `Noise` to
one byte; `resized` is that this was a byte of a length. In the run the IMEI has
two bytes instead of fifteen.

**Payloads.** A layout is a list of fields with offset and width; `Laid` writes
the fields in the order of the code, so that a later one covers an earlier one.
The builders' own checks (`Fits`, `Allowed`) and the validator's are separate
definitions, as they are in the code. All widths are those of the code but the
size of a firmware file, which `FirmwareStart` scales down.

**CommandBuilder.** JavaScript runs from one await to the next; each such piece
is an action, and answers come in any order or not at all. `origin` remembers
for which command a payload was built. What the server makes of the fields and
what the validator accepts are parameters here, since they are in `Payloads`.
`Patient` restricts the user: whoever waits for the answer before selecting
another command gets what was built.

**Observability.** `todo` is what a goroutine has still to do for the frame or
outcome it handles, one critical section per element, in the order of the call
sites. An entry of a list is its number. The debug pages are switched on. A page
has at most two requests under way; a failed request changes nothing. A frame
that ends the connection leaves out the rest of its records, also between the
answer to a status and the firmware mode that cannot be saved.

**MCAlgorithms.** Frames, payloads, the page and the retry delay share no state.
The run starts all of them and lets one of them move, so that one run covers
them all.

## Runs

| run | states | checks |
|---|---|---|
| `DeliveryRestart` | 238,532 | no twin, no loss, one outcome, numbers not overrun, answers credited rightly, transmissions bounded, snapshots complete; with a TTL, a retry and a restart |
| `DeliveryModes` | 856,992 | one owner of the session, nothing lost, what a flush knows of the modes; two connections, little buffer, modes switched by the controller during a flush, a failed save |
| `DeliveryLimits` | 383,818 | what enters and what leaves a queue that retries have filled beyond its limits; duplicate, unknown, invalid and oversized commands |
| `DeliveryLive` | 67,442 | refinement of `CommandLife`; every command is settled, also after the sequence counter has wrapped |
| `ConnSafety` | 1,100,982 | sessions and active connections agree, the limit on them, the count of a host, blocks, shutdown |
| `ConnLive` | 11,918 | places are freed, heartbeats enforced, shutdown ends |
| `FileStore` | 2,238,720 | the file survives; refinement of `SessionStore`; temporary files and archives |
| `Algorithms` | 38,726 | round trip, mode and garbled bytes of frames; fields and limits of payloads; the block count; what the page queues; range and growth of the retry delay |
| `Observability` | 421,278 | `/metrics` agrees with itself and with what happened; pages show the newest entries |
| `ViolPending`, `ViolModes`, `ViolBuilder` | | violated: see the disagreements |

Every property of the passing runs has a mutant: a changed definition under
which TLC finds the property violated.

### Bounds

- One to three commands that are delivered, of different priority: enough for
  one to be in flight, one set aside and one queued.
- Three sequence numbers, two in `DeliveryLive`. Only there do two commands meet
  under one number: the counter wraps, a retry whose number is 0 is numbered
  again (0 means none) and overwrites the other command. With 256 numbers this
  takes as many commands between a timeout and its retry.
- One restart, in `DeliveryRestart`; one failed save, in `DeliveryModes`: one is
  enough to separate memory from disk. That a restart after a failed save finds
  no command twice, whichever snapshot it loads, is proved (`NoCommandTwice`).
- One connection, two in `DeliveryModes`, which are symmetric. Frames are
  sequenced, but compact in `DeliveryLimits`.
- `DeliveryModes`: a firmware start and a sync command, each of which forbids
  the other; with a free buffer of 5 bytes or of the default 1500, commands fit
  or are put back.
- `ConnSafety`: three connections of one host for two places. Its limit per host
  is three, so that the count of the host goes up and down between none and
  three and does not hide the limit on all connections; in `ConnLive` the limit
  per host is one. Connections of a host are symmetric, and so are controllers;
  symmetry is used only where no liveness is checked.
- `FileStore`: one failing call, one failing directory sync, one kill, one power
  failure and three damages, five of them together at most; one archive is kept.
  Three damages make two archives too many after a failed removal, so a cleanup
  has several files to remove.
- `Algorithms`: one byte on the wire is changed by 1, by 128 or by 255, that is
  one bit at either end or several; durations of 15 bits, ten transmissions;
  firmware blocks of 4 bytes, counts to 7, sizes to 39. One field of a payload
  at a time takes the values around its limits, and lists have no, one, the most
  and one record too many. The page offers command 9, which has no payload, and
  2 and 3, which have the same length; two builds under way and two commands
  queued.
- `Observability`: two frames or outcomes, by two goroutines; they record up to
  four entries in each list of two, so old ones go. Latencies are negative, at
  the first of two bounds and above both. Only the dashboard fetches: the page
  of raw messages runs the same script.

### What the properties leave open

- `NothingLost`, `SettledOnce` and `TransmissionBound` are stated as long as no
  save failed and the adapter was not restarted. After a failed save the code
  does lose commands it had set aside, and outcomes of `ProcessInFlight`.
- `NothingLost` exempts a command overwritten in the in-flight table, and
  `ImplementsLife` allows it once the counter has wrapped. Both end with the
  first fault.
- `NoOverrun`, `AckCorrelation` and `AckFindsCommand` end at the wrap of the
  counter: after it an old answer can complete a newer command.
- `PendingDurable` is about queued commands. A command in the hands of
  `flushQueue` is in neither part of the snapshot that `NextCommandSeq` saves,
  so a restart at that point loses it.
- `PendingDurable` passes in `DeliveryRestart`, where every command fits the
  buffer and no mode sets one aside, and fails in `ViolPending`, where one does
  not fit. `QueuedSurvive` proves it wherever no command is set aside.
- `OverflowSound` is about what enters from outside. Retries and commands that
  are put back enter a full queue, so the queue itself is not bounded by its
  limits (`QueueBounded`, among the disagreements); `LimitsHold` proves that it
  is wherever no command comes back to it.
- `ModesRespected` says by which modes a flush goes and who may make them old:
  only a frame of the controller. It does not say that what is written is allowed
  in the mode that such a frame started a moment ago; it is not (`ViolModes`).
- `GarbleDetected` and `ModeDetected` leave out a changed byte of a length. The
  reader then takes other bytes for the checksum, and CRC-16 guarantees nothing
  about bytes it was not computed for: they agree in one case of 65536. The next
  marker, or the end of the connection, is all that stops such a reader.
- `AckFindsCommand` is about sequenced frames, and `EventuallySettled` about
  controllers that report no status: the disagreements say why.
- `InFlightDurable` compares memory and snapshot. A frame written just before a
  restart, not yet registered as in flight, is in neither.
- `Survives` allows for damage from outside. It and `ImplementsStore` allow for
  loss while a rename is unsynced: after a failed directory sync, or a kill
  before it.

- `QueuedAsBuilt` passes in `Algorithms` with a user who waits and fails in
  `ViolBuilder`.
- `LiveShowsNewest` is about pages that are not paused for good. While requests
  overtake each other a page may go back to an older list for a while.
- `ScrapeCoherent` is about the acks and the histogram, which `/metrics` reads
  in one critical section. Between its sections it may disagree with itself.

### Fairness

`Delivery`: goroutines that can run do run, since reads and writes have
deadlines; a waiter obtains the flush lock in the end, since `sync.Mutex` does
not starve waiters; ack timers elapse. Nothing is assumed of the controller or
of callers, and `EventuallySettled` is about controllers that stay connected.
`ConnLifecycle`: handlers and the accept loop go on, reads end at their
deadline, buffered frames of a closed connection run out. Nothing is assumed of
clients, nor that the drain times out. `Observability`: goroutines go on, since
no step waits; `setInterval` fires again and again; and of the requests a page
makes again and again some are answered and shown (strong fairness, since single
ones may fail).

## Disagreements with the documentation

`ViolPending` is a run: a command that does not fit the buffer is put back
without a save, and the snapshot that `NextCommandSeq` saved is without it, so a
restart loses it. Commands set aside because of a mode are put back in the same
way, and a save of another goroutine meanwhile is without them. `DOD.md:37` says
that pending commands are restored.

`ViolModes` is one too: a status1 frame with the ready flag starts firmware mode
while a flush has a query in its hands, and the query is written, because the
flush goes by the modes it read when it began. `TECH_SPEC.md:142` says that
forbidden commands are blocked when firmware and sync conflict.

So is `ViolBuilder`: "Queue Built Command" waits for the payload and then
reads the command from the list. A user who selects another command meanwhile
queues it with the payload of the first; reboot and factory reset have the same
length, so the validator accepts it. The page promises to queue what was built
(`command_builder.go:801`).

The following were met as well. Each is a counterexample of TLC with one
property and the constants given, the others being those of `DeliveryRestart`
without restarts, of `ConnLive` or of `Algorithms`.

| property | constants | what the code does | what is said |
|---|---|---|---|
| `AtMostOneInFlight` | `NoRetry` | compares the in-flight count once and then writes several commands | `server.go:528`, `DOD.md:31` |
| `EventuallySettled` | `FairSpec`, `QueryOnly`, `NoRetry`, `Kinds = {"status1"}` | leaves firmware mode only after a successful write | `server.go:697` |
| `QueueBounded` | `MaxQueueDepth = 1` | retries and commands that are put back enter a full queue | `README.md:189` |
| `TerminalAckCompletes` | `QueryOnly` | registers a command after its answer was handled | `README.md:297` |
| `AckFindsCommand` | `QueryOnly`, `FrameModes = {"compact"}` | compact frames carry no number to answer | `DOD.md:30` |
| `AckFindsCommand` | `QueryOnly`, `AllRetry`, `Buffers = {5, 50}`, `NumSeqs = 4` | forgets the number of a retry before it knows whether the retry fits the buffer (`server.go:602`); the retry gets another number, and the answer to the first frame finds nothing | `DOD.md:30` |
| `RegisteredInTime` | `Spec`, `Conns = {c1, c2}`, `MaxConnections = 1`, `MaxPerHost = 0`, `ViolationLimit = 1` | accepts a registration after the window | `TECH_SPEC.md:26` |
| `EveryFileCovered` | | announces 65535 blocks for larger files | `Протокол.csv:466` |

## Proofs

| theorem | of | says |
|---|---|---|
| `TypeCorrect`, `NoCommandTwice` | `Delivery` | types; no command in two places |
| `OneOwner`, `InFlightSurvives` | `Delivery` | one owner; the table in memory is the saved one while no save failed |
| `NoCommandLost`, `OneOutcome` | `Delivery` | until the first fault every accepted command is accounted for and is settled at most once |
| `WritesBounded` | `Delivery` | until the first fault no command is written more than `MaxRetries + 1` times |
| `NumbersNotReused`, `AnswersMatch` | `Delivery` | until a save fails or the counter wraps, restarts included, no entry is overwritten and an answer completes the command it answers |
| `QueuedSurvive` | `Delivery` | as long as `flushQueue` sets no command aside and no save failed, a restart loads every command that is queued |
| `OverflowAlwaysSound` | `Delivery` | until a restart a command enters the queue from outside only within both limits, however full the queue was; none is dropped in vain or before an older one |
| `LimitsHold` | `Delivery` | as long as no command comes back to the queue, it is within both limits, faults and restarts included |
| `LifeImplemented` | `Delivery` | refinement of `CommandLife` |
| `OnlineIsCounted`, `CreateAlwaysHasRoom`, `HostsCounted`, `BlockKeepsOut`, `DrainLeavesNothing` | `ConnLifecycle` | sessions against connections, the two limits, blocks, shutdown |
| `MapSurvives`, `FailedCallKeepsMap`, `FileStoreImplements` | `FileStore` | crash atomicity; failed calls; refinement of `SessionStore` |
| `TempsRemoved`, `NewestArchiveKept` | `FileStore` | temporary files and archives |
| `DelayBounded`, `BackoffDrawsApart` | `RetryBackoff` | range and growth of the delay |
| `ModesAlwaysRespected` | `Delivery` | a flush writes nothing that the modes it knows forbid, and only a frame of the controller makes them old, faults included |
| `NothingForbiddenWritten` | `Delivery` | as long as no controller reports its status, nothing is written that the modes of the session forbid, faults included |
| `FramesRoundTrip` | `FrameCodec` | as long as no byte is changed, every frame is read as it was sent, for any checksum |
| `GarbledFrameRefused`, `ModeAlwaysDetected` | `FrameCodec` | one changed byte that is not of a length never yields a frame that was not sent, nor the wrong mode, if the checksum tells bytes apart that differ in one place |
| `ScrapeAlwaysCoherent` | `Observability` | one answer of `/metrics` agrees with itself and with what happened |
| `BlocksAlwaysCover`, `EverySizeAnnounced` | `FirmwareStart` | the block count |
| `PatientQueuesAsBuilt` | `CommandBuilder` | what a user who waits queues |

They rest on the named assumptions of the modules (`CommandsAssumption`,
`LimitsAssumption`, `ConnAssumption`, `StoreBounds`, ...), which TLC evaluates in
the runs.

The proofs of `Delivery` build on each other: `DeliveryLimitProofs` needs only
`DeliveryProofs` and the sums of `SumProofs`, the others need
`DeliveryOutcomeProofs` as well. Each has an invariant of its own, because none
of the properties is inductive.

- `DeliveryProofs`: its first part says what every operation on the queue and on
  a session does to the commands in them. A restart loads the snapshot, so for
  `NoTwin` the snapshot must be free of twins too, and a command not yet handed
  in must be nowhere. `IInv` adds both and the types. `MovesKeep` reduces each
  action to what it does to the commands. A failed save that was applied is
  harmless, because every snapshot is of a session without twins. `SessionOwner`
  and `InFlightDurable` are kept by every step given `IInv`. For
  `QueuedSurvive`, every step of a goroutine or of the environment but
  `EnqueueCommand`, `ProcessInFlight` and a restart only takes commands out of
  the queue (`Sheds`), and the snapshot loses none that is still queued; those
  three save what they changed. The hypothesis `NothingSetAside` is about the
  list of deferred commands in `flushQueue`, the only way back into the queue
  without a save.
- `DeliveryOutcomeProofs`: `PhaseInv` says what `flushQueue` has in its hands at
  each of its points; the flush lock makes its locals those of one goroutine.
  `LedgerInv` says that every command is in exactly one place: owed, about to be
  given its outcome by one goroutine, or settled. Every step hands commands to
  the goroutine that settles them, publishes one outcome, or is a call of
  `EnqueueCommand` (`StepKinds`). For the writes, the attempts that an item or
  entry carries are the number of times it was written; between `Send` and
  `RegisterInFlight` it is one more. The bound follows where `ProcessInFlight`
  compares the attempts.
- `DeliveryModeProofs`: `ModeInv` says what a flush knows of the modes at each of
  its points: the sync mode always, since only flushes change it and one runs at a
  time; the firmware mode until a frame of the controller changes it. What a
  flush holds is allowed in the modes it knows. `ModesAlwaysRespected` follows
  with one case per step, none of which but the handling of a frame makes the
  flush fall behind (`ModeStep`). If no status1 frame arrives (`Strict`), the
  two modes exclude each other, in memory and in the snapshot, and the firmware
  mode can only have ended without the flush knowing it, which forbids nothing:
  that is `NothingForbiddenWritten`.
- `DeliveryLimitProofs`: for the overflow, only `Enqueue` brings in commands or
  drops any (`OnlyEnqueue`). A command is dropped if fewer positions come before
  its own than are to be dropped, so one that stays was not created before it
  (`OldestDropped`); and the loop ends when the command fits or nothing is left
  (`RoomMade`). For the limits, `LimitInv` says that the set of the queued
  commands is within them, in memory and in the snapshot, from which a restart
  fills the queue. It is stated for sets because most steps only take commands
  out, wherever in the queue: a set that shrinks stays within the limits
  (`FewerWithin`), and `Enqueue` adds one element that fits (`FitsWithin`).
  `QueueMeasures` leads back to the queue: without twins its positions and its
  commands correspond one to one, so its length is the cardinality and its bytes
  are the sum over the commands. `NothingComesBack` excludes what enters the
  queue without being measured: commands that were set aside, and retries.
- `DeliveryLifeProofs`: for the numbers, some function gives the owner of each
  number handed out, and wherever a number is kept, in memory, in the snapshot
  or in a frame, it is kept with its owner (`ClaimInv`). A restart keeps the
  function because of `InFlightDurable`. For the refinement, the ledger gives
  the stage of a command, the bound on writes and `NoOverrun` give the guards of
  `CommandLife`, and each kind of step is one of its actions.

In `ServerProofs` the invariant of `ConnLifecycle` relates the program counters of the
handlers, the accept loop and the counters: who is counted, tracked, waited for
and online at each point. `active` is the cardinality of a set of handlers, and
sessions online map one to one into it. A block is kept with the place of the accept
loop, since one connection may be past the check.

The invariant of `Observability` gives every counter as a sum over what was
observed: the buckets up to a bound hold the latencies within it, the reasons of
a status add up to its total, and the acks lag behind the latencies by the
goroutines that are between `observeAckLatency` and `countAck`. A goroutine that
has observed a latency has the count of its ack as its next step, so each lags
by one. The sums are folds of the community modules; `SumProofs` shows by
induction over finite sets that a sum grows by one with one of its terms, does
not grow when its set shrinks, and stays the same when its terms are renamed.
The provers cannot use the library's induction theorems, which take an operator,
so `AllSubsets` and `AllNumbers` state induction for a set instead and follow
from well-founded orders (`WFMin`). The latencies, bounds, statuses, reasons and
goroutines are any finite sets.

In `ComponentProofs` the file of `FileStore` holds what callers know until the
rename and the new map after it, and the temporary file is flushed before it is
renamed; archives are numbered, and those in every directory a power failure may
leave are as recent. For `retryDelay` nothing is waited for before the first
retry; for the command builder, an answer under way for the page is for the
command that is selected. For frames, `Carried` says that what was read is a
prefix of what was sent and that the wire can be cut into the encodings of the
rest; a send adds a cut, a read removes the first one. `ReadFirst` is the heart
of it: the frame in front of the wire is read back whatever follows it. In the
automatic mode a sequenced registration is not taken for a compact one, whatever
its sequence number is: its command would stand where the first digit of the
IMEI is. The checksum is any function with `ChecksumType`: its value has two
bytes, as `CRC16Modbus` returns a `uint16`. For a changed byte the proofs take
`ChecksumSound` as well: runs of bytes of the same length that differ in one
byte have different checksums. CRC-16 has this property, since it detects every
burst of up to 16 bits; its bit operations are out of the provers' reach, and
the run evaluates it for the frames of its instance. A frame with a changed byte
is then refused whatever follows (`ReadGarbled`), the connection is closed, and
nothing is read behind it.

`TypeOK` and `EverySizeAnnounced` are proved and in no run: the first holds by the
proof for every instance, the second is part of `ChecksAgree`.

Model-checked only:

- liveness (`EventuallySettled`, `SlotReleased`, `HeartbeatEnforced`,
  `ShutdownCompletes`, `LiveShowsNewest`), which the prover does not reach;
- that `CRC16Modbus` tells apart what differs in one byte, for the frames of the
  run;
- `FieldsRecovered` and `ChecksAgree`: the layouts have up to tens of thousands
  of bytes, each a number of its own to the provers, which they do not get
  through. So values other than those at the limits are not covered, but for the
  block count of the firmware, which is proved;
- `PendingDurable` when commands are set aside, `QueueBounded` when commands
  come back and `ForbiddenBlocked` when controllers report their status: there
  they do not hold, as the disagreements say;
- `AckFindsCommand`, which holds in the instance of its run and not for all
  constants: the disagreements above say for which it fails. It was believed to
  hold for sequenced frames; the attempt to prove it found the retry that does
  not fit the buffer.

## Not modelled

- The bus: its only implementation writes log lines. Configuration: read once;
  its checks are the assumptions on the constants. Build information.
- The simulator: a load generator; the controllers of the models do more.
- Of the debug HTTP: health, log level, the pages of queues and connections, and
  all formatting, JSON and hexadecimal text.
- Of the codec: the parsing of status1, ack11 and firmware status, whose contents
  are messages of `Delivery`.
- Of the manager: `Delete`, which nothing calls, the creation of a detached
  session, overflow events and the statistics.
- Of PostgreSQL: the schema set-up. A statement is taken as atomic.

## Open

1. the creation of detached sessions;
2. an abstract specification of the connections that `ConnLifecycle` implements.
