# bambino: TLA+ models of the client

bambino is an asynchronous Rust library that talks to Bambu Lab 3D printers over
the local network: commands and telemetry over MQTT, files over implicit FTPS or a
proprietary file tunnel, pictures over a camera stream. It runs on full hosts
(tokio) and on microcontrollers (ESP-IDF, embassy). This directory holds TLA+
specifications of its stateful parts and of the pure functions its decisions rest on,
the TLC runs that check them on small instances, and TLAPS proofs of the results that matter most.

Paths below are relative to the crate, `src/src/` in this checkout.

## 1. The system

| Component | State | Operations | Where it is hard |
|---|---|---|---|
| MQTT session (`mqtt/client`) | packet ids, in-flight table, pending buffer and its byte count, zombie clock, read and write poison flags | `publish_command`, `poll_telemetry`, `send_ping`, `tick_zombie_check`, PUBACK handling | futures dropped at any await, failed writes, hand-kept accounting, limits |
| Keepalive (`mqtt/client`) | `last_outbound_ms` | `send_keepalive_if_due` before each read | a deadline kept by the other side |
| Command outcomes (`client/command.rs`, `telemetry.rs`, `mod.rs`) | `CommandTracker`: pending, ready, resolved | dispatch, `poll_telemetry`, `await_ack`, `poll_raw`, requests, connect, attach, disconnect | several parties can end a command; timeouts race buffered answers |
| FTPS client (`ftps/client.rs`, `protocol.rs`) | control stream, `poisoned` | commands, uploads, downloads, prefixes, listings, removal, rename | one ordered reply stream, many error exits |
| FTPS slot (`client/storage.rs`, `connect.rs`) | `ftps`, `ftps_config` | `ensure_ftps`, `attach_ftps`, `disconnect_ftps` | state taken before an await and put back after it |
| Frame reader (`mqtt/client/frame.rs`) | `read_state` | resumable read of one frame | progress kept across dropped polls |
| File tunnel (`file_tunnel`, `client/file_tunnel.rs`) | TLS stream, `next_sequence`, `poisoned`; the slot | single replies, downloads, member reads, upload, `abandon`; ensure, disconnect | streams stopped half way, frames of an earlier request, a printer that never stops sending |
| Slots (`client/connect.rs`, `storage.rs`, `camera.rs`) | four session slots and their configurations | builders, `ensure_*`, `attach_*`, `disconnect_*`, `connect_all` | concurrent dials, partial failure, futures dropped with a slot empty |
| Sequence ids (`client/mod.rs`) | counter, ids awaiting an echo | mint, reseed at connect, match | wraps, reseeds, other clients on the same topic |
| Telemetry cache (`client/telemetry.rs`, `types/telemetry`) | merged report, generation stamps, settings | classify, merge, getters | partial frames, stale values after a reconnect |
| Running job (`client/job.rs`) | last plate, job start, tunnel failure stamp | `update_job_cache`, `job_plate`, images | put together from frames of several jobs |
| Files (`client/files.rs`) | clock reading, probe setting | listings, clock probe, checked uploads | three-step probe on a session that breaks |
| k-profiles (`client/ams.rs`) | `k_profile_primed` | `get_k_profiles` | the first request of a connection is ignored |
| Camera (`camera/binary.rs`) | frame read state | `read_next_frame` | progress kept across timeouts |
| Discovery (`discovery`) | window, ports, printers seen | the sweep, parsing an answer | failing ports, duplicates, clocks |
| AMS (`ams`, `client/drying.rs`), quirks, G-code, commands, print options, payloads | none | pure functions | many encodings, models and firmware generations |
| Listings and project files (`ftps/parser.rs`, `ftps/project`) | none | years, ZIP fronts, windows, plates | answers drawn from part of a file |
| Platform I/O (`io`) | sockets, TLS | verdicts, read caps, races with deadlines | error codes that mean several things |
| CLI, hardware probes | | consumers of the library | |

All client operations take `&mut self`, so at most one future per client runs at a
time. Concurrency enters in three ways: the caller may **drop** that future at any
await point (`select!` with a timeout is the documented way to use the library), the
peer acts on its own, and time passes. `PrinterClient` owns an MQTT session, an FTPS
client and a camera in optional slots; `poll_until` (in `client/mod.rs`) reads the MQTT
session on behalf of waiting commands and stashes what it does not want in the
session's pending buffer, which `poll_telemetry` drains later. Replacing a session ends
every command pending on it.

What makes each part correct: a message is delivered exactly once; no frame follows a
torn frame; buffers stay bounded; a saturated table drains; every command comes to one
final outcome; an FTPS command reads its own reply; a transfer reported as done moved
the whole file; a tunnel session left usable has nothing of an earlier request on it;
configuration survives a disconnect; what a getter gives is the latest, of this connection
and of this job; a tray is the same tray in every numbering; no command drives the printer
past its limits; what platform errors mean is never misread.

## 2. Modules

State machines with runs of their own:

| Module | Models | Companion |
|---|---|---|
| `MqttSession` | one connected `MqttClient` and the two loops that read it | `MqttSessionProofs` |
| `MqttKeepalive` | the clock side of the same read loop | `MqttKeepaliveProofs` |
| `CommandLedger` | abstract: a command is opened once, settled once, never revised | |
| `CommandOutcomes` | tracker, dispatch, polls, waits, session changes; implements `CommandLedger` | `CommandOutcomesProofs` |
| `FtpsControl` | `FtpsClient` on its control channel, in its slot | `FtpsControlProofs` |
| `FileTunnel` | `FileTunnelClient` in its slot, with a printer that answers it | `FileTunnelProofs` |

State machines checked side by side by `MCClient`:

| Module | Models |
|---|---|
| `ClientSlots` (`ClientStateProofs`) | the four slots, builders, dials, `connect_all`, attach, disconnect |
| `ClientCache` (`ClientStateProofs`) | `TelemetryCache` over connections: stamps, settings, np format, lights, firmware |
| `JobCache` (`ClientStateProofs`) | the running job's plate and where its images are read |
| `MqttFrame` (`ReceiverProofs`) | `read_exact_packet`, byte by byte |
| `SequenceIds` (`ClientStateProofs`) | minting, reseeding and matching of sequence ids |
| `ClientFiles` (`ClientStateProofs`) | listings with the clock probe, checked uploads |
| `KProfiles` (`ClientStateProofs`) | `get_k_profiles` and its priming request |
| `CameraStream` (`ReceiverProofs`) | `read_next_frame_with_timer` |
| `Discovery` (`ReceiverProofs`) | the SSDP sweep |

Pure functions, checked input by input by `MCAlgorithms`: `Quirks` (models, limits,
feature support, firmware, sliced-for lists), `GCode`, `ClientCommands`, `PrintOptions`,
`AmsAddresses`, `AmsReports`, `AmsMapping`, `AmsDrying`, `DeviceReports`, `ListingDates`,
`ProjectFiles`, `PrintJobs`, `SsdpDevices`, `PlatformIo`. `Inputs` declares the input they
share, `Options` Rust's `Option`. `AlgorithmProofs` has what is proved of `AmsMapping`,
`ListingDates` and `PlatformIo` for every input.

The machines under `MCClient` share no state in the code either, except through the
sessions that the first table's modules describe; a behaviour of `MCClient` therefore runs
one of them and leaves the others at rest, which costs the sum and not the product of
their states. `CallerRests` is the caller who is done. In `MCAlgorithms` a state is an
input; nothing moves.

Conventions shared by the modules. `fut` (`sop` in `ClientSlots`, `op` in `FileTunnel`) is
the running future: it names the await point at which it stands, so each action is the
code between two awaits. `Cancel`, or `Drop...`, drops the future at such a point. An action
named after a function is that function's synchronous part; definitions keep the source's
names where there is one. Variables at the end of each list (`torn`, `waiting`, `handed`,
`told`, `issued`, `dropped`, ...) are history: what a property needs to remember and the
code does not. An operator whose comment begins "(Mutant: ...)" is a plausible bug in the
definition after it, used to see that a property can fail; each part of a property has
one, and `PROJECT.json` lists one per property. `PROJECT.json` also maps every definition
to its lines.

### MqttSession

The wire is not a variable. A read returns any packet a broker could have sent: a
PUBLISH of QoS 0 to 2 carrying telemetry or the echo of a published command, a PUBACK
for an identifier not yet acknowledged, another frame, or an error that either keeps or
poisons the reader. Messages are numbered as they are read. Their content is a size and
an echo key; a payload's bytes, JSON and topics are left out. Whether a keepalive is
due is nondeterministic here. `EvictOldest`/`PushPending` are `push_pending`'s loop and
its end; they belong to one synchronous call, and nothing else is enabled between them.

### MqttKeepalive

Whole seconds pass between calls (at most `CallerGap`) or inside a read (at most
`ReadTimeout`). Writes are instantaneous and succeed, the best case for the deadline.
The constants of the runs are the code's.

### CommandOutcomes

A handle is a number. Of all messages only echoes matter; the printer's verdict is
abstracted to `Answered`. The session is the echoes in its buffer and those still owed.
`Expire` is a deadline passing, once per handle.
`CancelClose` is an assumption about the caller: whether `disconnect_mqtt` and
`attach_mqtt` may themselves be dropped during the TLS close. The passing run assumes
they are not; `CommandOutcomes_twice` shows what happens if they are.

### FtpsControl

The server is external: one reply per command in order, one more at the end of each
transfer it opened, any command refused at will, uploads stored in part, downloads and
listings cut short. Reply codes are kept as far as the client compares them; file
contents are sizes, a directory is a set of names. A failed read may leave its reply on
the way, a failed write may have reached the server. `remove_directory` behaves as
`delete_file` and is the same operation here; `download_file_each`,
`read_front_members` and `read_job_prefix` are the two download operations with their
ways of stopping. Arguments the client refuses before it sends anything (an invalid
path, an upload over the size limit) change no state and are not enumerated.

### FileTunnel

`op` is the running operation with its locals; `op.at` is its await (`send`, `reply`,
`chunk`, `final`, and `csend`/`creply` inside `abandon`), and `Drop` drops it there. Both
directions of the stream are queues, and a direction cut inside a frame (`torn`) carries
nothing sensible any more: a length read out of the middle of a JSON text is over the
frame limit, and the printer cannot follow either. A file is a sequence of blocks, a
digest is the content it was computed from, and a frame's body has the fields the client
compares. The three single-reply requests differ in which bodies can be wrong.
The printer is external and modelled from what the client expects of it, with two
assumptions: the first frame of an answer that is not CONTINUE is its last, and a
TASK_CANCEL is answered with success only when the task is over. Within them it may
refuse anything, damage frames (offset, size, total, digest, content, result, shape;
`MaxDefects` of them), interject notifies and progress without limit, and not answer.

### The modules of MCClient

`ClientSlots`: a dial is raw connect, TLS and login raced against `connect_timeout`, one
step that succeeds or fails. `connect_all`'s three dials end in any order and are installed
after the join. `supplied` and `torn` remember whether a configuration was ever given and
whether a caller dropped a disconnect with a session out of its slot.

`ClientCache`: field values are free, one setting stands for all `print_option` settings;
the printer's family (sends `cfg`, speaks np) is chosen once. `told` is the last thing the
printer said of the setting, `lagging` and `tainted` record the two ways a getter may trail
it: a reply consumed by `await_ack`, and a partial heartbeat before the first `cfg`.

`JobCache`: up to three jobs from the client or the printer's screen, over two
connections; messages arrive in order and are lost with their session.

`MqttFrame`: bytes are small numbers, so that a reader that loses its place can take a
payload byte for a header. `SequenceIds`: the counter range is 2..7, and foreign clients'
echoes and clocks that stand anywhere are enumerated. `ClientFiles`, `KProfiles`: a command
succeeds, is refused or breaks the session, and the next dials anew. A k-profile reply
carries the nozzle diameter on its entries, its envelope, both or neither. `CameraStream`: the
printer sends a frame when it likes, so a read meets any part of the stream; a header read
from a place where none starts declares any size. `Discovery`: binds, sends,
receives and sleeps fail at will; time advances where the code waits.

### The modules of MCAlgorithms

Every function is checked against a statement about its inputs and not against itself: a
conversion against its inverse or another route to the same tray, merging against "what
was last said", the automatic mapping against stability, dates against a calendar counted
day by day, the front walk of a ZIP against the whole file, support verdicts against
firmware order and the printer's report. Text is abstracted to what the code tells apart
in it (a hexadecimal string is its digits, a G-code line its words and comment marks, a USN
its serial and decorations); integers are integers, packed words sets of bits or records.

## 3. Runs

| Run | Checks | Shows |
|---|---|---|
| `MqttSession_buffer` | `TypeOK`, `NoMessageLost`, `NoMessageTwice`, `BufferKept`, `NoWriteOnTornStream` | dropped and failed PUBACK writes neither lose nor repeat a message; the buffer's accounting and bound hold and at most one message per session overtakes older ones; nothing is written after a torn frame |
| `MqttSession_zombie` | `ZombieClockTracksCommand`, `BackpressureClears` | only its own echo stops the clock of a correlated command; ticking drains a saturated in-flight table |
| `MqttSession_missed` (violation) | `ZombieNotMissed` | a command published while another is timed is never timed itself |
| `MqttKeepalive_dropped` (violation) | `NotDropped` | the broker may hear nothing for 49 s with the code's constants, beyond its 45 s |
| `CommandOutcomes_outcomes` | `TrackerKept`, `ImplementsLedger`, `NotTimedOutWhileBuffered`, `EveryCommandResolved` | one outcome per command, final, eventually |
| `CommandOutcomes_twice` (violation) | `OneOutcome` | two outcomes after a dropped close |
| `FtpsControl_sync` | `InSync`, `TransferVerified` | poisoning is complete on error paths; a successful transfer is a whole one |
| `FtpsControl_stale` (violation) | `OwnReply` | a dropped operation lets the next command read its reply |
| `FtpsControl_removed` (violation) | `RemovedIsGone` | a removal reported done that was refused |
| `FileTunnel_session` | `SessionKept`, `OwnFrames`, `TransfersWhole`, `EveryOperationReturns` | whatever stops an operation, a session left usable has no task and no reply of it left; no request reads another's frames, after dropped operations too; a read or upload reported done is whole; every operation returns |
| `Client` | `SlotsHonest`, `CacheCurrent`, `SettingIsLatest`, `NoNewTaint`, `JobCacheRight`, `ReaderInStep`, `IdsTellApart`, `FilesSound`, `RequestNotWasted`, `AnswerIsOwn`, `CameraInStep`, `SweepSound`, `SilenceBounded` | see below |
| `Algorithms` | `ReportsFaithful`, `TraysAddressed`, `MappingSound`, `JobsFit`, `SupportConsistent`, `CommandsSafe`, `SettingsReadBack`, `PrinterFilesRead`, `DevicesIdentified`, `IoVerdictsSound` | see below |

A violation run checks a sentence of the source's own documentation; `findings` in
`PROJECT.json` quotes it. All of them need a dropped future, a cut listing or a
particular timing, which is why the tests do not meet them.

What `Client` shows, part by part (a property is the conjunction of the parts named):

- `SlotsHonest` = `FtpsConfigKept`, `ConnectAllHonest`: an FTPS configuration survives
  everything but a disconnect dropped in mid-close; each channel's result of `connect_all`
  is true when it returns.
- `CacheCurrent` = `ConnectionScoped`, `CapabilitiesSettle`: homing, firmware and settings
  flag are this connection's or absent; a full report settles np format and light list.
- `SettingIsLatest`, `NoNewTaint`: a setting getter gives what was last said, with the three
  exceptions its comment names; once `cfg` is seen no heartbeat is trusted.
- `JobCacheRight` = `JobPlateRight`, `TunnelAskedOnce`: `job_plate` never names another job's
  plate when the pushall sent at connect is answered (`PushallAnswered`; see the
  observations); an unanswering tunnel costs one timeout per connection.
- `ReaderInStep` = `FramesInStep`, `NothingLost`, `AllocationFollowsArrival`.
- `IdsTellApart` = `EchoResolvesItsCommand`, `PendingIdsDistinct`.
- `FilesSound` = `ProbedOnce`, `ProbeFileCleared`, `ReadingOnItsTimer`, `CardHoldsAccepted`.
  A reading is advanced by the timer it was taken on only; on a timer without a real clock
  any reading is used as it was read (see the observations).
- `RequestNotWasted`, `AnswerIsOwn`: the k-profile request waited for is never the one the
  firmware ignores; a caller gets the table it asked for, not one an earlier call left
  buffered, and no entry under another's nozzle diameter. An entry has no diameter only
  where neither it nor its envelope carried one.
- `CameraInStep` = `FramesJudgedInOrder`, `FrameBufferBounded`.
- `SweepSound` = `EachPrinterOnce`, `OnePortIsEnough`, `SweepKeepsTime`, `PassTakesTime`.
- `SilenceBounded`: the broker hears from a polling client within ping interval + read
  deadline + two caller gaps.

`Algorithms` groups the properties of the pure functions by subject; `MCAlgorithms` lists
the parts, and each part's comment in its module says which function it is about.

**Bounds.** `MqttSession_buffer`: three messages of two sizes with a cap of three bytes
and two echo keys (a message one wait stashes is what another waits for),
so that eviction, parking over the cap and matching from the middle of the buffer all
happen; packet ids wrap at 2. `MqttSession_zombie`: two correlated echo keys (one to be
timed, one to mask it), one message, timeouts of 1 and 2 ticks; the ages are compared
with their limits only. `MqttKeepalive`: the code's own constants, caller gap 3 or 0.
`CommandOutcomes_outcomes`: three commands against a pending limit of 2 and a resolved
limit of 1, so that both tables overflow. `FtpsControl_sync`: three operations, two
files (a rename needs both, a listing needs one that is not the target), sizes 0 and 1
(a partial transfer is a smaller size), a listing limit of 1. `FileTunnel_session`: two
operations and a cancel (the second meets what the first left), a file of three blocks in
chunks of one or two (so that a last chunk is short), one defective frame, one frame in
transit (the printer sends the next as soon as it is read, so any number arrive before a
cancel is answered), skip budgets of 1 and 2 in place of 64 and 256. Sequence numbers wrap
after the last request, so that the wrap happens and no number is reused: reuse needs
2^32 requests on one session.

`Client`: one reconnect for the cache and generations modulo 5 (`CacheSessions`,
`CacheGenMod`; the code's 2^32 does not wrap in a client's life), three jobs over two
connections (`MaxJobs`, `JobSessions`: the job before, the job of the frames and the next
one), three frames of length 0, one under and one over the payload cap, in base 2 so that
a length takes three digits (`MaxFrames`, `FrameLengths`, `LenBase`, `MaxPayload`), six
sequence ids for five commands with two pending, so that the counter wraps (`IdFloor`,
`IdMax`, `MaxIssued`, `PendingLimit`), three FTPS sessions and operations on three
timers, one of them without a real clock (`TimerEpochs`, `Clockless`), four k-profile
requests (`MaxAsked`) for either of two diameters or all of them, three camera frames around the size limits, two
printers in a window of six ticks with two bursts. `Algorithms` enumerates whole tables
where the code has them (every model, every tray, every drying row) and boundary values
elsewhere: two whole years and the leap and century days of listings against a clock at
every turn of a year, temperatures around each clamp, archives of three entries.

**Deadlock** is checked in every run: a caller can always make another call.

**Fairness.** `MqttSession!FairSpec` asks strong fairness of ticking: a caller such as
`keepalive_tick` calls `tick_zombie_check` every 15 s whenever it holds the client;
`BackpressureClears` adds the hypothesis that calls return. `CommandOutcomes!FairSpec`
asks that a call in progress returns (dials, reads, writes and waits all race a
deadline), that the caller polls again and again, and that deadlines pass.
`FileTunnel!FairSpec` asks that a running operation takes its steps, as each of its
reads and writes has a deadline; which step, and what the printer sends, is free. Nothing
is assumed of the network or the printer: in all three, dials, reads and acknowledgements may
fail for ever. `Client` and `Algorithms` check no liveness.

## 4. Proofs

TLAPS checks these for all values of the constants, from the named assumptions in the
modules: sizes positive and under the cap, which the source asserts at compile time;
limits positive; ids from a positive floor, with room for the pending commands and the
echoes of others (`IdAssumption`); a tunnel sequence counter with at least two values
(`FileTunnelConstants`; the code's is a u32); generations that do not come round within
`CacheSessions` (`CacheAssumption`, for the code's 2^32); a camera header that is not empty
(`CamAssumption`) and positive intervals of the sweep (`SweepAssumption`), as the code's
constants are; `None` is no value an `Option` holds, no pair of places in a mapping
(`NoneIsNoPair`) and no verdict or error kind (`FoundAssumption`). Nothing is assumed about the number
of messages, files, commands or operations.
The bounds that stand for a caller's patience (`MaxIssued`, `FileOps`, ...) are arbitrary
naturals there.

The MQTT session (`MqttSessionProofs`, `MqttKeepaliveProofs`):

- `TypeCorrect`: `Spec => []TypeOK`. `TypeOK` carries what later
  proofs need: while a PUBACK is awaited the buffer is not empty, and while a message is
  being stashed `hold` is one.
- `TornStreamTheorem`: `[]TornStreamIsKnown`, an inductive invariant that relates the two
  flags, the future's position and the history variable `torn`. It is the reason for
- `NoWriteOnTornStreamTheorem`: an action property, from that invariant.
- `NoMessageLostTheorem`: `[]NoMessageLost`. Each read adds one number to the buffer or
  to a fate; each buffer operation moves it; the lemmas on `RemoveIndex`, `Head` and
  `Tail` say that it takes exactly one element out.
- `NoMessageTwiceTheorem`: `[]NoMessageTwice`, relative to the previous one: the number a
  read adds is new because every place holds numbers below the count of messages read.
  Together: every message has exactly one fate.
- `BufferKeptTheorem`: `[]BufferKept`, relative to the previous ones. `Accounted` says the
  count is the total of the buffer, by the equation of `SumSizes`, which is unrolled by
  induction over the numbers (`NumbersIn`, `SumIsTotal`), so a debit never saturates. The
  bound and the order are not inductive; `SomeParked` ties both to one message: the head
  of the buffer while its PUBACK is written, none before, and for good the one whose write
  was dropped, since `TornStreamIsKnown` lets no later message be parked. All ids but its
  own go up, through `handed` and then the buffer, and without it the bytes are within the
  cap. `CallInv` adds that `poll_telemetry` reads with an empty buffer. `StepBuffer` sorts
  the actions into six kinds of step, one lemma for each.
- `ZombieClockTheorem`: the action property `ZombieClockTracksCommand`. `ClockInv`: the
  armed command is among those waiting and the clock shows its waiting time; a command
  being published is not among them, since no echo is minted twice (`sent`).
- `SilenceTheorem`: `[]SilenceBounded`. Silence alone is not
  inductive; `SilenceInv` bounds the time since the stamp at each point of the loop and
  the slack between the stamp and the last packet.

Command outcomes (`CommandOutcomesProofs`), each for a caller who does not drop a close
(`~CancelClose`; `CommandOutcomes_twice` shows that they fail otherwise):

- `TrackerKeptTheorem`: `[]TrackerKept`. That a command is in one place is not inductive;
  `TrackerInv` adds what each await of the running future knows (a command being published
  is new, one that is awaited is still pending, without a session nothing is pending) and
  that the buffer is a session's, is empty when `poll_telemetry` reads and does not hold the
  echo `await_ack` waits for. The lemmas move a handle from pending or ready to
  the caller, or all of pending to ready when a session ends.
- `LedgerTheorem`: `Spec => Ledger!Spec`, the refinement of `CommandLedger`: the books
  before and after each action give a step of the abstract module or a stutter.
- `NotTimedOutTheorem`: the action property `NotTimedOutWhileBuffered`.

The client's own state (`ClientStateProofs`):

- `CacheCurrentTheorem`, `SettingTheorem`, `NoNewTaintTheorem`, from one invariant
  `CacheInv`. `GenInv` is what it rests on: the generation counter moves by one or two with
  each connection, so a stamp equal to the current generation was set in this one.
- `IdsTheorem`: `IdRoom /\ IdSpec => []IdsTellApart`. `IdRoom` (fewer commands over the
  client's life than the counter has values) is needed: past it an id is minted again
  while an echo of its first use may still be on its way. `IdInv`: the id of every pending
  command and of every echo of one is the id minted that many commands ago, counted back
  from the counter over the wrap.
- `FilesTheorem`: `[]FilesSound`; `FilesInv` has one part for each step of the probe.
  `Clockless` is any set of the timers.
- `JobTheorem`: `PushallAnswered /\ JobSpec => []JobCacheRight`. The hypothesis is needed
  (section 5 has the case without it). What the cache will hold once the messages in
  transit are read is stated without a fold: the last plate on the wire is the job's, or
  there is none and the cache has it or nothing (`PlateInv`); an echo is followed by its
  job's first status and is of the running job unless an end follows (`EchoInv`); so is a
  start recorded on this connection, whose cached state is busy or about to be, so that
  the end clears it (`StartInv`).
- `SlotsTheorem`: `SlotSpec => []SlotsHonest`. What `connect_all` returns is only spoken of at
  its return; `DialInv` says what each await before it knows: until a channel is installed
  its slot is as it was when `connect_all` looked (`Awaited`), and from then on each result
  agrees with its slot (`Told`), the MQTT one already while FTPS and the camera are still to
  be installed. `ConfigInv` says where the FTPS configuration is at each await of a close.
- `RequestNotWastedTheorem`: `KSpec => []RequestNotWasted`. The property
  only speaks of the moment a request is wasted; `PrimingInv` adds what leads there: a
  trusted flag, and a request past its priming, mean a live connection that has heard a
  request already (`Spent`), unless the caller took the risk on itself.
- `AnswerIsOwnTheorem`: `KSpec => []AnswerIsOwn`. The code matches by sequence id only, and
  the reply does not say in the id which table it is. `AnswerInv`: no reply has an id above
  the counter, one with the awaited id is of the table the running call asked for, and an
  envelope that has a diameter has that of the entries that carry none.

FTPS and the file tunnel (`FtpsControlProofs`, `FileTunnelProofs`):

- `FtpsTypeCorrect`, `PoisoningTheorem`: `[]TypeOK` and
  `[]InSync`. `InSync` is inductive relative to `TypeOK`: outside a read nothing is owed,
  inside one exactly the awaited reply is, and every exit that breaks this sets
  `poisoned`, or `dropped` if the caller took it.
- `TransferTheorem`: `[]TransferVerified`, relative to the two before. `VerifyInv` adds that
  a transfer can only end well through its SIZE (`VerbInv`) and that the reply to a SIZE
  tells the size the file still has when it is read (`SizeInv`): one operation runs at a
  time, and by `InSync` the reply is this SIZE's own.
- `SessionTheorem`: `[]SessionKept`. An idle session that is usable has no task and no
  reply left only because of what held at every await before: `CleanAt` says for each of
  them what may be in the printer's inbox, among its tasks and on the wire (at `csend`
  and `creply`, inside `abandon`, one task and its frames, or the cancel and its answer).
  The lemmas give each action's effect (a read, a write, an end, a step of the printer),
  and `CleanInv` is proved from the effects.
- `OwnFramesTheorem`: `TunnelRoom /\ Spec => []OwnFrames`. `OwnInv`: whatever is in the
  session carries the number of a request already made on it, counted from its base.
  `TunnelRoom` says that at most `SeqMax` requests are made: after 2^32 of them a frame of
  a dropped operation, if it were still to come, would have the number of a new one.
- `TransfersTheorem`: `TunnelRoom /\ Spec => []TransfersWhole`, relative to the invariants of
  the two theorems before. The property speaks of the end of a transfer; `TransferInv` of what
  is in transit before it, in five parts. `WorkInv`: every request is taken up at most once,
  and what the printer does for the running operation is what it asked for. `RunInv`: while an
  operation runs it has returned nothing, and no digest in transit is one that a wrong content
  would match. `MemberInv`: the pieces of a member follow each other in transit, from where
  the operation is. `UploadInv`: the offset the printer names is the length of its part, and
  it says success only after the last chunk. `ChunkInv`: the chunks in the inbox lie end to
  end from that part on (`ChunkArithmetic`: there are as many as `chunk_count` says). Frames
  are told apart by sequence, so `TunnelRoom` is needed here too.

Camera, frame reader and discovery (`ReceiverProofs`):

- `CameraTheorem`: `CamSpec => []CameraInStep`. That verdicts are right is not inductive;
  `CamInv` adds that the frames sent lie end to end (`StreamInv`) and where the reader is
  among them (`PlaceInv`): at the start of the first frame without a verdict, or inside
  it by the bytes the kept read state counts.
- `ReaderTheorem`: `FrameSpec => []ReaderInStep`. That no byte is lost is stated where the
  reader stands between fields; inside the length nothing on the wire says what the digits
  read so far are worth. `WhereInv` says it: the payload's length is the value read so far
  plus a number times the multiplier, and that number is what the digits still inbound
  encode (`InLength`); in the payload, the buffer is its beginning and the rest is inbound
  (`InPayload`). `RoomInv` bounds the allocation by what arrived. The recursive
  `EncodeLength` and the joined frames of the stream are unrolled by induction over the
  numbers, as a fact about sets (`NatSets`, from the well-founded induction of the library):
  a function satisfying the equation exists up to every bound (`EncodesExists`,
  `JoinsExists`), is unique, and so is the one the definition chooses. `NoneIsNoFrame` is
  assumed: the marker of a malformed frame is not itself a frame.
- `SweepTheorem`: `SweepSpec => []SweepSound`, for sends and receives that return within
  `SendMax` and `ReceiveMax`, whatever these are. `SweepInv` adds that `seenSerials` indexes
  `found` (`SeenInv`) and how much of a pass has gone by at each engine (`ClockInv`): it
  began inside the window, its search took at most `SendMax`, and each poll since at most
  a receive and one pause. `PollTime` has the case the pause exists for: the last poll of
  a pass leaves the clock where the pass began only if a sleep failed.

Pure functions, on every input (`AlgorithmProofs`):

- `MatchTheorem`: the pairing of `match_group`, for any filaments and trays: what
  `MaterialNeverMixed` and `MappingStable` say, stated of the function itself. `BestPairIs`:
  the scan over all pairs returns an open pair that none is nearer than (`ScanOn`, one more
  pair at a time). `RoundIs`: a round gives the best free pair, or the best pair if no tray
  is free, and gives nothing only if nothing is open. `Matched` is what every round keeps;
  each round gives one more filament its tray or finds nothing open, so after as many rounds
  as there are filaments nothing is open (`Rounds`).
- `CalendarTheorem`: `CalendarIsRight` on every day from 1970 on. A day of an era is
  `DayAt(c, q, b, d)`: day `d` of year `b` of four, of quad `q`, of century `c`; on it the
  three corrections of `civil_from_days` leave the year exactly. Months are the intervals of
  `(153 * mp + 2) / 5`. The next day is in the same month, the next month or the next year.
- `YearTheorem`: `YearRecovered` for every clock and every listed date, at any minute. Of the
  candidate years the right one is less than half a year from the clock and the others are
  more, since a year begins 365 or 366 days after the one before.
- `IoVerdictsTheorem`: `IoVerdictsSound` for every mask (with the flags the run leaves out),
  every size of trust store, every mbedTLS code, every read length and every deadline.

The recursive functions under these (rounds, scans) are unrolled by induction over the
numbers as a fact about sets, as in `ReaderTheorem`.

`FtpsControl!TypeOK` and `MqttSession!TornStreamIsKnown` are proved and need no run.

Only model-checked: the other pure functions (`MCAlgorithms` evaluates them over whole tables
of inputs; most are finite tables of models, features and numberings, where that is all of
them) and the liveness properties (the prover has no fairness or `ENABLED`).

## 5. Not modelled, and what is left

Not modelled: byte layouts (MQTT packets other than the remaining length, TLS, JSON
serialisation, deflate, the XML tokenizer, the splitting of listing lines), HMS texts and
other constant tables without a rule, fields that are copied from a frame to a getter,
commands that publish one fixed payload, sockets and executors, the CLI and the hardware
probes. Their outcomes appear as nondeterminism where they can fail.

Observations made while modelling, without a run of their own:

- A message parked by a dropped wait is delivered ahead of older ones and may leave the
  buffer over its cap until the next poll (`BufferKept` states how far this can go).
- An echo already buffered when `disconnect_mqtt` is called is discarded, and its command
  reported as `ConnectionLost`.
- `FileTunnelClient::single_reply` returns the error of a body that does not parse without
  poisoning the session, although its struct documentation says a frame that cannot be
  parsed does; should that frame also say CONTINUE, the printer's task stays open
  (`UsableIsClean` excludes it through `unread`; later requests skip its frames).
- A `disconnect_ftps` dropped during the close loses the FTPS configuration, although
  `client/storage.rs:81` says it is retained (the assignment of l. 91 follows the await).
- `connect_all` reports `ftps: None` when the slot holds a poisoned session: it is neither
  dialled nor an error.
- `job_plate` can name the previous job's plate on a new connection whose pushall is not
  answered: `last_plate_idx` carries no generation, although `client/connect.rs:333-335`
  says of a printer that never answers it that "the accessors already report `None` rather
  than a stale value" (set `PushallAnswered = FALSE` in `Client.cfg` to see it).
- `await_ack` consumes an accepted `print_option` reply that `poll_telemetry` would have
  applied; a frame with `cfg` clears the reply of a setting `cfg` has no bit for; a heartbeat
  before the first `cfg` is trusted. These are the three exceptions of `SettingIsLatest`.
- `get_version` mints its sequence id before the publish that may dial and reseed
  (`client/ams.rs:398`).
- A `disconnect_mqtt` or `attach_mqtt` dropped during the close leaves `k_profile_primed`
  set, so the next connection's first request is not spent (`ownRisk` excludes it).
- On an FTPS timer without a real clock a reading taken on another timer is used as it was
  read and kept, also one later than the timer, although `client/files.rs:832-833` says
  that such a reading "is logged, cleared and not used" (`PrinterClockReading::now` does not
  compare the two there, l. 262-268).
- An air-duct part listed without a `state` replaces the cached part (`device.rs:684`), so
  its last reading is lost, while every other optional field keeps what was last said.
- `receive_download` of the file tunnel has no budget for CONTINUE frames that bring no
  bytes: empty fragments, or the status blob of a `mem:/` read again
  (`file_tunnel/client.rs:921-1043`). A printer that sent them without end would hold the
  operation for ever. The printer of `FileTunnel` does not: what it sends without end is
  notifies, and that is what `EveryOperationReturns` is shown for.
- A clock probe dropped between its STOR and its DELE leaves its file on the card.
- A listing entry dated into the year after the reference clock's gets the clock's year.
- `parse_ssdp_payload` strips `uuid:` in lower case only, and NT and ST share one slot.
- The nozzle mapping of a tool changer (`print_job.rs:85-161`) gives the fixed hotend the
  physical id 1, which `is_valid_nozzle_id` (`quirks/mod.rs:671`) refuses for the H2C.
- On a two-nozzle printer the filaments of each extruder are matched independently, so a
  tray both reach can be given to both.
- `find_listed_model` compares file names only, not directories.
