# A formal model of phase4

phase4 captures audio (or generates a calibration signal), runs it through a
vocoder's filter bank, and publishes the band levels with MIDI transport over
a WebSocket server, OSC, or a shared-memory frame region. It runs as a terminal
program, as a headless child process, or as a macOS XPC service. This directory
holds TLA+ modules that model it from the command line to the datagram, TLC
configurations that check them on small instances, and TLAPS proofs that
every safety property of the runs holds at any size.

Source paths below are relative to `src/src/`, documentation to `src/`.
`PROJECT.json` maps every definition that models code to its lines.

To check a run: `tlc -config X.cfg M`, with the names in the tables below. To
check a module's proofs: `tlapm M.tla`, for each `M` whose name ends in `Proofs`.

## 1. The system

### How the parts fit together

    device callback / generator                MIDI callback / MIDI thread
             |  ring of f32                            |
             v                                         v
        analyser  --raw watch-->  mapper <-------- AppState (atomics)
             |                      |                  ^
             |  (XPC service only)  | display watch    | keep_running,
             +--raw watch--> frame  v                  | stream_error, midi
                             writer  WebSocket server, OSC sender
                               |
                               v
                        shared frame region --> client processes

The parts share `AppState` (`app.rs`): `keep_running`, the stream
error, the overflow flag and the MIDI atomics. Whoever hosts the engine (the
terminal controller, the headless loop, the XPC service) ends it by calling
`App::shutdown`, which drops the input stream, clears `keep_running` and joins
each worker within a grace period.

### Components

| Component | Source | State it keeps | Operations | What makes it correct |
|---|---|---|---|---|
| Frame region | `frames.rs`, `managers/frame_writer.rs` | a sequence word and payload words in shared memory | `publish`, `read_frame` | a reader gets one published frame, whole and finite, or none |
| Engine lifecycle | `app.rs`, `bootstrap.rs`, `worker.rs`, `controller.rs`, loops of `managers/*` | stream, `keep_running`, worker registry, watch channels | start, partial start failure, five ways to stop, join with grace | every worker stops, none early, captured audio is drained, shutdown returns |
| Capture ring and analyser | `managers/audio.rs`, `managers/generator.rs`, `managers/analyser.rs` | ring, producer's scratch, analyser's carry-over | callback push (two forms), generator push, pop, frame, carry | channels never rotate, nothing is lost without an overflow, the drain is complete |
| MIDI state | `app.rs`, `managers/midi.rs`, `managers/mapper.rs`, `managers/frame_writer.rs` | step counter, latest event, pending event, transport count | clock byte, transport byte, snapshot, frame | steps count ticks, no event is lost, readers see steps and event that belong together |
| WebSocket server | `managers/server.rs` | slots, receivers, refresh queue, encoded snapshot, client tasks | accept, refresh, serialise, send, ping, close, shutdown | slots are conserved, latest data arrives, nothing goes back in time, shutdown ends |
| Headless host link | `headless.rs`, `main.rs`, `app.rs` | signal flags, stdin watcher, report | start, ready, poll, drain, report | every end of the host ends the engine, drained before the report |
| XPC service | `xpc/service.rs` | peer mutex, run mutex, monitor threads, transactions | connect, start, stop, disconnect, termination, monitor poll | each run is drained once by one owner under its transaction, no deadlock |
| Display mapper | `managers/mapper.rs`, `dsp/payload.rs` | display buffer, exchanged with the channel's | wait, copy, take the event, publish | the latest analysis goes out whole, with an event once |
| OSC sender | `managers/osc.rs` | bundle template, MIDI snapshot | wait, update, encode, send | a datagram is one analysis and fits; a transport event is banged once |
| Vocoder and units | `dsp/*` | filter, envelope and bin per band | process a sample | a band recovers from a non-finite state and leaves the others alone |
| Configuration | `config/*`, `lib.rs` | none after startup | load, layer, resolve, validate | the layers keep their order, and what resolves is valid |
| Devices and startup | `managers/audio.rs`, `managers/midi.rs`, `bootstrap.rs`, `main.rs` | the input found, the lists given out | list, look up, check, open, report | what is listed can be opened, and a run that is up is one the pipeline can carry |
| XPC protocol and bindings | `xpc/protocol.rs`, `xpc/ffi.rs` | libxpc reference counts | read, parse, translate, build | each message parses to its request, and a request wins over its text |
| Logging, panic hooks, entry points | `xpc/logging.rs`, `xpc/mod.rs`, `bin/*` | none | format, install | - |

### Hard behaviours

* **Weak memory.** The frame region is a sequence lock shared with another
  process. Its fences matter on the ARM machines it ships for and not on the
  x86 machines a test may run on.
* **Several owners of one engine.** In the XPC service a stop request, a closed
  connection, the runtime's termination notice and the run's own monitor all
  compete to shut a run down, on different threads and under two mutexes.
* **Stopping by channel.** Only some workers read `keep_running`; the others
  leave when the channel they wait on closes. A stop is a chain of exits.
* **Rings that frames do not divide.** Capture rings are powers of two and
  frames are `n` channels wide, so fullness can strike in mid-frame.
* **Several atomics read as one moment.** The MIDI atomics are written by one
  thread and read one at a time by others.
* **Async cancellation and counting.** The server counts receivers to decide
  whether to encode, and hands slots to tasks that may be aborted.
* **A host that may vanish.** Headless runs race signals, end of file, the
  host's death and a stream failure within one poll.
* **Buffers that are exchanged.** `send_replace` hands the analyser and the
  mapper back a buffer with an older frame in it, and the same analysis is
  published at every tick: what is old must be overwritten, taken or kept.
* **Checks far apart.** A setting is checked when it is resolved, again by
  `App::new`, again against a device that may have been replugged since it was
  listed, and again by each output.

`PROJECT.json` lists 40 such hazards at the lines where they bite, with the
properties that cover them.

## 2. The modules

Every module of a component with state declares its parameters as CONSTANTS with
named assumptions and has one action per handler or per atomic step of it;
`Config`, `Devices`, `XpcProtocol` and `Vocoder` are operators, functions of
their arguments that `Startup` and `DisplayPath` use. Each `MC` module
instantiates one for TLC. Definitions marked "Mutant" are the plausible bugs
that `PROJECT.json` pairs with the properties they break.

| Layer | Modules |
|---|---|
| abstract specifications | `FrameRegister`, `EngineOwner`, `LatestValue` |
| components | `FrameRegion`, `XpcService`, `Lifecycle`, `CaptureRing`, `MidiState`, `WsServer`, `Headless` |
| pure code | `Config`, `Devices`, `XpcProtocol`, `Vocoder` |
| compositions | `Startup` (configuration, protocol, devices, bootstrap), `DisplayPath` (vocoder, analyser, mapper, MIDI event, OSC) |
| proofs | `FrameRegionProofs`, `XpcServiceProofs`, `LifecycleProofs`, `CaptureRingProofs`, `MidiStateProofs`, `WsServerProofs`, `DisplayPathProofs`, `HostProofs` (of `Startup` and `Headless`) |

### FrameRegister, FrameRegion

`FrameRegister` is the abstract promise: the writer publishes whole frames and a
reader takes the latest or an earlier one it has not passed, never going back.

`FrameRegion` is `publish` and `read_frame` (`frames.rs`) one memory access at a
time, over a view-based model of release/acquire memory. Each word keeps the
history of its stores (`mem`); each thread has a view, a lower bound per word on
what it may still read; a Relaxed load may return any store at or above that
bound; a release store or fence attaches the view and an acquire load or fence
adopts it. The actions follow the code: odd store, release fence, word
stores, even store; on the other side first load, word loads, acquire fence,
second load, compare, retry up to `READ_ATTEMPTS`. A frame with a NaN or an
infinity is refused before the odd store, as in the code. The refinement maps `published`
and `got`, two histories of the region, to the register's variables.

### EngineOwner, XpcService

`EngineOwner` is what the service promises of a run: it is installed when no
other is, taken by one of those who may end it, shut down once, and then gives
back its transaction. It lets a new run begin while a taken one drains, because
the code does (finding 1).

`XpcService` is `xpc/service.rs`. The two mutexes are `peer` and `run` (with `runLock` for the
one holder that keeps it across steps, `start`). Each connection has a handler
(`hpc`) which libxpc runs serially; each run has a monitor (`mpc`). Stop,
disconnect and termination share `TakeToEnd`, as they share `end_run`: take the
run, signal and join its monitor, shut the engine down, answer, end the
transaction. The monitor takes a failed run under the mutex and shuts it down
itself. The engine is one of live, failed and drained. The refinement mapping is
`Phase`: a run is installed while it is in the mutex, taken or drained while a
handler or a monitor holds it, over afterwards; a run that nobody has and that is
not drained would be `"lost"`, which is no phase of `EngineOwner`.

### Lifecycle

`bootstrap.rs`, `app.rs`, `worker.rs` and the loops of the managers.
`StartOrder` is the order of registration; `SpawnWorker` and `OutputFails` are
bootstrap's two outcomes per worker, `TearDown` what a late failure does;
`HostClears`, `HostStops`, `StreamFails` and `HostNotices` the ways an engine is
ended; `DropInput`, `SignalWorkers`, `Joined`, `PollAgain` and `TimedOut` are
`App::shutdown` and `join_with_timeout`. Every worker is its loop: where it
reads the flag, what it waits for, what its exit closes.

### CaptureRing

`managers/audio.rs`, `managers/generator.rs` and `managers/analyser.rs`. A
sample is the pair of its hardware frame and channel. The three producers
differ as in the code: all channels in one `push_slice` of whole frames,
selected channels one `try_push` at a time after a check for room, the generator
in whole frames while it runs. The analyser pops into what its carry-over leaves
of the transfer buffer, analyses whole frames and moves the rest to the front.
The flag is cleared by `ClearFlag`, a stop request or a stream error while the
stream is still live, or by `SignalWorkers`, which is `App::shutdown` and comes
only after the input was released. Only the first is remembered in `cutLive`, so
a shutdown that signalled before it released the input would break
`DrainedAtExit`, as it would `CaptureDrained` in `Lifecycle`.

### MidiState

The four atomics of `AppState`, the writer's private tick count, and the two
readers, each access an action: the stores of `record_byte` and
`record_transport`, the mapper's swap and load, the frame writer's loads. Values
carry the history the properties need (which Start they follow, which event they
are) beside the word the code stores. Accesses interleave. The code uses
Release stores, Acquire loads and AcqRel updates; each property relates two
variables written in one order and read in the other, where release and acquire
give what an interleaving gives. A load that returns an old value is an
interleaving that loads earlier.

### WsServer

`managers/server.rs`. The accept loop, the serialiser and each client task move
from one await to the next: everything between is one action. `Tasks` stands
for the receiver count, `slots` for the semaphore, `refresh` for the request
queue, `version`, `serialised` and `seen` for the snapshot watch. A client's
write may end, time out or never be finished by its peer. What the clients are
promised is `LatestValue`: values are published one after the other, and a receiver is
offered some of them, each newer than the last it took and fit to be sent.
`ImplementsLatestValue` maps the published value to `display`, what a receiver is offered
to what its task is writing and what it holds to `sent`; a write that fails withdraws the
offer. `DisplayPathProofs` shows that the OSC sender's receiver is promised the same,
without offers: a datagram is sent at once, and sent again while there is no newer one.

### Headless

`headless.rs` with the parts of `main.rs` and `app.rs` it runs through: start,
`ready`, handler registration, stdin watcher, the poll's loads one at a time,
shutdown, the report. Signals, end of file, a dead host (broken stdout) and the
stream's two-step error callback may come between any two.

### Config, Devices, XpcProtocol, Startup

`Config` is `config/*`: what clap lets through (`ArgsAccepted`), the layering of
command line over file over defaults (`layered`), `resolve_with_outputs` with
its rules in the order of the code, and the second set of rules, `validate_*`,
that `App::new` applies. A check is the sequence of the errors it raises, so the
first of a concatenation is the one returned. Numbers are integers on a scale
with a value for not finite and one for a number whose inverse overflows. A
selection is put in order by rank (`Ascending`): the k-th element is the one with
k - 1 below it, as `sort` and `dedup` leave it.

`Devices` is the listing, the lookup and the arithmetic of `managers/audio.rs`,
`managers/midi.rs` and `managers/osc.rs`: exact name first, then a name that
contains the query, in enumeration order (`FirstMatch`); transfer buffer and ring
sizes in whole frames; the bytes of an encoded bundle. Names are model strings, with
containment and equality up to case given as relations.

`XpcProtocol` is the typed reads of `xpc/ffi.rs` and `xpc/protocol.rs`: a message
is a dictionary of typed values, parsed to a request or to an error code, and a
start request becomes a configuration (`to_app_config`) by laying its source over
the settings of its text and keeping no output but the frame region.

`Startup` runs them: a process is launched (with or without a terminal, for a
list or for a run), a service answers messages. Each stage of the start
(`LoadConfig`, `ValidateConfig`, `ResolveAudio`, `ResolveMidi`,
`CheckAgainstHardware`, `OpenStream`, `StartOutputs`) is an action with the
errors the code returns there, and `Replug` changes the hardware between any
two; `OsRefuses` is an operating system call that fails.

### Vocoder, DisplayPath

`Vocoder` is `process_interleaved` (`dsp/vocoder.rs`) for one sample: each band's
filter may stay soft, turn loud or overflow, and a band that overflows is reset
and the loop goes on. The envelope follows a finite value between two finite
ones and needs no state.

`DisplayPath` is one analysis on its way: the analyser fills its payload buffer
and exchanges it with the raw channel's; the mapper waits for the first
analysis, then at each tick copies the newest, swaps the pending MIDI event out
of `AppState` and exchanges its own buffer; the OSC sender copies what it finds
into its template and sends bins, steps and bang. The tick may come at any time.
Payloads carry the number of their analysis and of their last finite sample.

The modules meet in their interfaces: what `Lifecycle` assumes of the analyser's
drain is `CaptureRing`'s `DrainedAtExit` and `DrainEnds`; what `XpcService` and
`Headless` take `App::shutdown` to be, one step that returns, is `Lifecycle`'s
`ShutdownReturns` and `NothingLeftBehind`.

## 3. The runs

| Run | Instance | States | What it shows |
|---|---|---|---|
| `FrameRegion` | 1 reader, 2 words (both levels), 3 bit patterns of which 1 is NaN, 2 frames, 3 attempts | 18,788 | `NoTornFrame`, `NoNonFiniteServed`, the inductive `SeqlockInv`, and `ImplementsRegister` |
| `XpcService` | 2 connections, 2 runs, 1 termination notice | 186,705 | `ImplementsOwner`: one owner and one drain for each run; `TransactionCoversRun`; a monitor takes only its own run; events reach the client that started the run; handlers finish and failed engines drain |
| `XpcStartIdle` | the same, no notice | violation | finding 1 |
| `Lifecycle` | hardware and calibration, no MIDI, clock or device, two network outputs or the frame region | 4,236,813 | `NothingLeftBehind`, `NoEarlyExit`, `CaptureDrained` over every start, failure and stop |
| `LifecycleLive` | hardware, device MIDI, OSC, one worker may hang | 264,614 | `WorkersStop`, `ShutdownReturns` |
| `CaptureRing` | all three producers, 5 hardware channels, 3 selected, a ring of 8 samples, a transfer buffer of 2 frames, 4 frames delivered | 18,989 | `ChannelAligned`, `NothingLost`, `DrainedAtExit`, `DrainEnds` |
| `MidiState` | 2 ticks to a step, 1-bit counters, 4 bytes | 1,690,146 | `StepsCountTicks`, `StartHasItsSteps`, `NoEventLost`, `FrameFieldsAgree` |
| `Headless` | no parameters | 535 | `DrainedBeforeReport`, `FailureHasItsCause`, `HostGoneStops`, `StreamFailureStops` |
| `HeadlessStreamError` | the same | violation | finding 2 |
| `WsServer` | 3 clients for 2 slots, 3 payloads of which 1 cannot be encoded | 104,756 | `SlotsConserved`, `ImplementsLatestValue`, `AdmissionEnds`, `ServerStops`, `LatestReachesClients` |
| `Startup` | launches and messages at the boundary of every rule, in both layers; three sets of hardware | 125,321 | `ResolvedIsValid`, `SettingsLayered`, `AcceptsWhatItLists`, `RunningIsSound` |
| `DisplayPath` | 2 channels of 2 bands, 2 analyses, 2 MIDI events | 684,299 | `DatagramIsOneFrame`, `BandRecovers`, `BangsNotRepeated`, `LatestReachesReceiver` |

Every invariant is checked on every reachable state of its instance; every
property has a mutant in `PROJECT.json` that breaks it. Deadlock is checked in
`FrameRegion`, `MidiState`, `Startup` and `DisplayPath`, whose systems go on for
ever or stutter by choice; the other systems really stop.

### Why the bounds are enough

* `FrameRegion`: a reader can fall two frames behind, be overlapped in each of
  three attempts and run out of attempts. Two words are what a torn frame needs.
  The proofs cover every other size.
* `XpcService`: the races are between a run, the one that follows it, and two
  connections; a third would have nothing new to race for. One notice lets an
  old client act beside the next one.
* `Lifecycle`: bootstrap's loops run over at most a generator, four fixed
  workers and the outputs. Two outputs are what it takes for the second to fail
  after the first. One hung worker suffices, since joins are one after another.
* `CaptureRing`: five and three do not divide eight, so the ring fills in
  mid-frame at once; two-frame deliveries overflow it; a ragged tail has every
  length.
* `MidiState`: one-bit counters wrap twice within four bytes; with two ticks a
  Start can fall within a step. `midi_steps` in the code is 32 bits and a step
  six ticks; the code treats no value specially but the wrap and the whole step.
* `WsServer`: three clients for two slots are refused, admitted beside another,
  and admitted into a slot another gave back. Payloads number more than a
  client needs to skip one.
* `Startup`: `MCStartup` varies one group of settings at a time (network, source,
  MIDI, vocoder, file) over absent, good, at the limit and past it, in each layer;
  its hardware has names that contain one another, a name twice, names and formats
  that cannot be read, and 73 and 74 channels. `RingBits` bounds the exponent that
  the next power of two is looked for in, and is far above what the hardware needs.
* `DisplayPath`: two analyses and the initial buffers are every age a buffer can
  have after an exchange; two events are what a repetition or a swap in order
  needs; of two bands one overflows beside one that does not.
* Bounds that cut behaviours: `MaxPublish`, `MaxRuns` (the runs a service
  starts), `MaxTerminations`, `MaxHung`, `MaxFrames`, `MaxDelivery`, `MaxBytes`,
  `MaxEvents`.
  Each guards one action and is named at its declaration.

### Fairness

Weak fairness is asked of steps a running thread owes: a worker's loop, the
thread in `shutdown`, a handler or monitor that has begun, the runtime's tasks,
a timeout that has come due, the mapper's tick. Nothing is asked of clients, hosts, devices, the
network, signals or failures. There are two finer points. `WsServer` asks strong
fairness of a client's update branch: the client select is biased towards
incoming messages (`managers/server.rs:550`), so a client that always has a Ping
waiting starves its own updates, and the property is about the others.
`XpcService`'s liveness properties hold until a termination notice. After one,
the old connection and a new one may both use the service, and one that keeps
starting and failing can win the run mutex for ever, as `std::sync::Mutex`
promises no turn.

## 4. Findings

Each is a sentence of the repository that the model of the code violates.

1. `XpcStartIdle`. docs/xpc.md:98: start "is valid only while the engine is
   idle". The monitor empties the run mutex before it drains a failed engine,
   and start (`xpc/service.rs:242`) takes the empty mutex for idle: two engines
   then overlap.
2. `HeadlessStreamError`. docs/headless.md:83: a hardware stream error "writes
   an `error` event and exits non-zero". A signal or an end of file that arrives
   within the same 50 ms poll takes precedence (`headless.rs:264`): the run is
   reported as a clean shutdown with exit 0.

Other sentences of the repository that the models of the code do not keep,
without a run of their own:

* docs/xpc.md:134: a stop during the monitor's drain is answered before the drain
  has ended (`xpc/service.rs:309`).
* docs/xpc.md:210: a monitor's events may go to the client that connected after
  the one whose run it is (`xpc/service.rs:404`); `EventsReachStarter` says when.
* docs/xpc.md:172: a region frame can carry a Start beside the step count of the
  Start before, because the frame writer loads the steps first.
* docs/xpc.md:110, "leaving it out analyses every channel": the configuration
  text's `audio.analyse_channels` applies then. The same line, "by its exact
  name": a name that matches no device exactly is matched as a part of one.
* docs/xpc.md:118: a MIDI port whose name cannot be read is listed as "Unknown
  Device", and no query finds it.
* docs/headless.md:79: a signal sent on reading `ready` may find the default
  handler, as `ready` is written first (`main.rs:87`).
* `headless.rs:71` calls the reported MIDI device "resolved"; it is the name the
  configuration asks for (`app.rs:182`).
* `managers/server.rs:474`: a new connection "requests a current snapshot before
  its client task starts", but a payload that arrives between the two is skipped
  (`managers/server.rs:477`), because no receiver exists yet, and the task starts
  on the older snapshot. `ImplementsLatestValue` and `LatestReachesClients` hold
  all the same.

## 5. The proofs

### The frame region

`FrameRegionProofs` proves four theorems about `FrameRegion` for every set of
readers, words and values and every number of frames and attempts:

| Theorem | Statement |
|---|---|
| `SeqlockInvariant` | `Spec => []SeqlockInv` |
| `NeverTorn` | `Spec => []NoTornFrame` |
| `NeverNonFinite` | `Spec => []NoNonFiniteServed` |
| `Refinement` | `Spec => ImplementsRegister` |

They rest on the module's assumptions and nothing else: the sequence word is
not a payload word and levels are payload words (`WordsAssumption`), values are
numbers and zero is finite (`ValuesAssumption`), at least one attempt is made
(`BoundsAssumption`).

`NoTornFrame` is not inductive: it says nothing of what a Relaxed load may
return next. `SeqlockInv` adds what makes the lock work:

* `HistoryInv`: how many stores each word has, given the frames published and
  where the writer is;
* `ViewInv`: no view names a store that is not in memory, and a message's view
  includes the message itself;
* `MessageInv`: the k-th store of the sequence is k - 1; a word's k-th store
  carries the odd sequence of its frame (the release fence); an even sequence
  carries all the words of its frame (the release store);
* `ReaderInv`: a reader past its first load can no longer read a word older than
  its frame's; each word it has copied has raised its view of the sequence to the
  odd value of that word's frame, so a word of a later frame keeps the second
  load from returning the first one's value; the frame it holds is a published
  one.

The argument has one lemma per action (`StoreOddInv` ... `LoadAfterInv`), each
split by conjunct; `StoreFacts` and `MergeFacts` say once what a store and a
join of views do, and `WriterKeepsReaders` why the writer's steps cannot disturb
a reader. `AcceptedCopy` is the heart: when the two loads agree, all copied
words belong to one frame. `Refinement` follows with each step of the region a
step of the register or a stutter.

### The XPC service

`XpcServiceProofs` proves seven theorems about `XpcService` for every set of
connections and every number of runs and of termination notices:

| Theorem | Statement |
|---|---|
| `OwnerInvariant` | `Spec => []OwnerInv` |
| `TypeCorrect` | `Spec => []TypeOK` |
| `TransactionCovers` | `Spec => []TransactionCoversRun` |
| `ServiceImplementsOwner` | `Spec => ImplementsOwner` |
| `SoleClient` | `Spec => []AloneInv` |
| `MonitorsTakeOwnRun` | `Spec => []MonitorTakesOwnRun` |
| `EventsDelivered` | `Spec => []EventsReachStarter` |

They rest on two assumptions: no connection is `NoClient` (`ClientsAssumption`)
and the bounds are numbers (`BoundsAssumption`).

`TransactionCoversRun` compares a counter with the state of engines that may be in
a mutex, with a handler or with another run's monitor, and is not inductive; even
`TypeOK` is not, since nothing in it keeps the counter from going below zero.
`OwnerInv` adds:

* `LockInv`: a start under way holds the mutex, and the mutex is then empty;
* `InstalledInv`: the run in the mutex is not drained and its monitor is still
  polling, so that it cannot be everyone's turn to be idle;
* `MonitorInv`, `HandlerInv`, `TakenInv`: a monitor exists once its run does, and
  what a handler or a monitor holds at each of its steps;
* `OneHolder`: at most one handler or monitor holds a run, and none holds the one
  in the mutex;
* `NoneLost`: an engine that is not drained is in the mutex or held;
* `Counted`: `transactions` is the number of runs in the mutex or held.

Each action is shown, by one lemma, to keep the places of the runs and to have
one of five effects on them: none, `Installs`, `Takes`, `Drains` or `Ends`. The
rest follows from the effects: `KeepsNoneLost`, `KeepsCounted` (with the
cardinality of a finite set and one element more or less) and `EffectRefines`,
where the effects are the four actions of `EngineOwner` and the stutter.

The last two hold until a termination notice comes, and so does what they need
(`AloneInv`): the peer is the only connection that is open or has a handler under
way (`SolePeer`); a monitor that still polls or drains belongs to the run in the
mutex, or its handler is about to join it (`MonitorsJoined`), so that the run it
takes is its own (`OwnRun`); a run whose engine has begun was started by the peer,
or by a connection that is closed (`Starters`); and what has been sent so far went
to the starter or came after its end (`Delivered`).

### The engine's life

`LifecycleProofs`, for every configuration, every order of the outputs and any
number of hung workers:

| Theorem | Statement |
|---|---|
| `StaysWhileRunning` | `Spec => []NoEarlyExit` |
| `RingDrained` | `Spec => []CaptureDrained` |
| `AllAccountedFor` | `Spec => []NothingLeftBehind` |
| `JoinedInStartOrder` | `Spec => []OrderInv` |
| `TypeCorrect` | `Spec => []TypeOK` |

They assume that the outputs of a configuration are output kinds
(`OutputsAssumption`). None of the first three is inductive. `FlagInv` covers the workers that have
read the flag and not left yet, and so the chain of exits that a closed channel
starts. `CaptureInv` says that with a hardware source there is no generator, and
that an unset `cutLive` with the flag clear means the stream is gone: nobody
fills the ring between the analyser's two looks and its exit. `cutLive` is set by a
stop request or a stream error, never by `shutdown` itself, so this holds only
because `shutdown` releases the input before it clears the flag. `RegistryInv` says
that a worker is in the registry, has exited or was given up from its first step
on; it needs nothing of the order of the registry.

`OrderInv` says the rest: the workers started are the first of `StartOrder`, and the
registry is a last part of these, all of them until the shutdown begins. `shutdown`
therefore joins each worker after those that feed it, whichever were started before a
failure, and no handle is in the registry twice, because no worker is twice in
`StartOrder` (`OrderInjective`). That the next handle is a new one is counted
(`SpawnOrder`): the place of a worker in the order is one more than the workers started.

### The capture ring

`CaptureRingProofs`, for every producer, number of channels, selection, capacity
and transfer buffer (`ShapeAssumption`):

| Theorem | Statement |
|---|---|
| `InOrderOnce` | `Spec => []NothingLost` |
| `AllAnalysed` | `Spec => []DrainedAtExit` |
| `FramesAligned` | `Spec => []ChannelAligned` |
| `TypeCorrect` | `Spec => []TypeOK` |

`NothingLost` needs only that a pop stays within the ring and a cut within the
buffer (`BufferInv`). `DrainedAtExit` needs the frames whole at both ends: what
was accepted is whole frames but for the one a callback is pushing, and that one
has room for its rest (`ProducerInv`); what was analysed is whole frames, and less
than one is carried (`BufferInv`). Unless a stop request or a stream error cleared
the flag under the stream, a clear flag means that the stream is dropped, because
`SignalWorkers` waits for `InputReleased`. So when the callbacks have ended and the ring is
empty (`ExitInv`), what is carried is a multiple of the channels and less than
them, and is nothing. `WholeFacts` is the arithmetic of this, `Regroup` the one
fact about sequences, and `Cat` a name for `\o` that keeps the provers from looking
into it.

`ChannelAligned` is about what is analysed, and follows from the same of what is
accepted (`AlignInv`), whose prefix it is: a sample has the channel of its place in
its frame, the instant of that frame, and a later one than the frame before
(`Sound`). A producer keeps this up because a delivery is hardware frames in order
(`DataInv`) and everything accepted is older than it, but for the frame being pushed
(`OlderInv`). `PlaceAfter`, `PlaceFacts` and `FramesBelow` are the arithmetic of
places. `TypeCorrect` includes the bounds of the buffers: the ring never holds more
than its capacity, nor the analyser a whole frame between two pops.

### MIDI state

`MidiStateProofs`, for every width of the counters, number of ticks and of bytes:

| Theorem | Statement |
|---|---|
| `SnapshotsAgree` | `Spec => []StartHasItsSteps` |
| `EventsKept` | `Spec => []NoEventLost` |
| `FramesAgree` | `Spec => []FrameFieldsAgree` |
| `StepsExact` | `Spec => []StepsCountTicks` |
| `TypeCorrect` | `Spec => []TypeOK` |

They assume that the widths and bounds are numbers and that a step has a tick
(`WidthAssumption`). Each of the first three compares two values that were loaded at
different times, so the invariant is about the values still to be loaded:
`WriterInv` orders the writer's stores, `MapperInv` says that the event taken is of
a Start whose steps, or later ones, are all that is left to load, and `FrameInv`
that the count loaded is covered by any latest event that can still be loaded, and
that the Start of the last published event has already reset the steps. A region
frame may carry the steps of the Start before its event, because the steps are loaded
first; the second half of `FrameFieldsAgree` is that the next frame no longer does.

The step count is exact because the writer's private count is the remainder of the
ticks (`StepInv`), and it wraps with `fetch_add`, which is one more modulo 2^`WordBits`
(`WordNext`). That this modulus is a number above zero, which the provers do not
know of a power, is that there are as many sets of a counter's bits (`WidthFacts`).

### The WebSocket server

`WsServerProofs`, for every finite set of clients and any number of slots and
payloads, whichever of these cannot be encoded (`ClientsAssumption`,
`ServerAssumption`):

| Theorem | Statement |
|---|---|
| `NoSlotLost` | `Spec => []SlotsConserved` |
| `ClientsGetLatest` | `Spec => ImplementsLatestValue` |
| `TypeCorrect` | `Spec => []TypeOK` |

`SlotsConserved` is inductive with `AdmitInv`, which says who is being admitted and
that this client has no task yet.

The refinement maps the published value of `LatestValue` to `display`, what a receiver
is offered to the payload its task is writing (`Writing`) and what it holds to `sent`.
That a write begins only with a payload newer than the one the client has needs the
order of the payloads along their way (`OrderInv`: snapshot, serialiser, mapper) and, per
client, that a version it has not seen holds a newer payload (`ClientInv`); that it is one
that can be encoded, that the snapshot and what a task has borrowed of it can be
(`EncodedInv`). Nothing is assumed of payload 1: if it cannot be encoded, the snapshot
is seeded with an empty one (`managers/server.rs:235`).

### The display path

`DisplayPathProofs`, for every number of channels, bands, analyses and events
(`PathAssumption`, `BandAssumption`):

| Theorem | Statement |
|---|---|
| `DatagramsWhole` | `Spec => []DatagramIsOneFrame` |
| `BandsRecover` | `Spec => []BandRecovers` |
| `BangsInOrder` | `Spec => []BangsNotRepeated` |
| `ReceiverGetsLatest` | `Spec => Feed!Spec` |

The buffers are exchanged, not copied, so that the one being sent holds one
analysis only because all five do, old ones too (`WholeInv`). `BandInv` says that no
filter is left overflowed, `ProcessSampleFacts` that one sample keeps it so.
`EventInv` orders the places of an event: what waits in `AppState` is later than
what the mapper holds, that than what is in the channel, that than what the sender
holds, and that than what was banged, wherever the place can still be read.

`Feed` is `LatestValue` with one receiver, the analyses as the values published and the
sender's template as what the receiver was given. The mapper publishes one analysis many
times, and an exchange hands it back a buffer with an older one; that neither makes the
sender go back is the order of the analyses from place to place (`OrderInv`), of which
the mapper's buffer is a part only between its copy and its exchange.

### The start of a run

`HostProofs`, for every set of launches, messages and hardware and any way names
contain one another:

| Theorem | Statement |
|---|---|
| `StartupInvariant` | `StartSpec => []StartupInv` |
| `ResolvedAccepted` | `StartSpec => []ResolvedIsValid` |
| `SettingsTraced` | `StartSpec => []SettingsLayered` |
| `ListedOpens` | `StartSpec => []AcceptsWhatItLists` |
| `RunsAreSound` | `StartSpec => []RunningIsSound` |

They assume what the types of the code say of its inputs: a setting of the command
line or of a file is an option, of a number where it is compared, and a file that is
there is refused or has such settings (`LaunchesAssumption`, `MessagesAssumption`); an
array and a device list are sequences (`MessagesAssumption`, `HardwareAssumption`). And
one thing of the hardware: a device with a format has a channel, and half a second of
its samples is at most 2^`RingBits`, so that the ring's power of two exists.

The first half of the proof is about the operators, one lemma for what each returns:

* `RankFacts`, `AscendingFacts`, `NormaliseFacts`: the ranks of a finite set of numbers
  are all the numbers below its size, so a selection comes out sorted, complete and
  without repetition, and not empty if it was not;
* `InputFacts`, `MidiFacts`, `VocoderFacts`, `OutputsFacts`: what each part of the
  resolution lets through; `ResolveFacts` for all of them, and `ResolvedValid`, that
  `validate_app_config` accepts every result of `resolve_with_outputs`;
* `LayeredFacts`, `OutputsLayered`, `InputLayered`, `MidiLayered`, `VocoderLayered`,
  `SignalFacts`: the layer each setting comes from; `ResolutionLayered` for all of them;
* `RequestParsed`, `ArgsFacts`, `RequestResolves`: that a parsed start request is a command
  line over its text without network settings;
* `MatchFacts`, `DeviceFacts`: that a lookup ends at a listed device with a format, and
  at the one device of that name if there is one;
* `SortedFacts`, `ChunkFacts`, `RingFacts`: a selection in order below the channel count is
  no longer than it; whole frames of a 10 ms chunk are at most half a second of samples,
  because a band limit of at least 2 Hz under the ceiling makes the rate at least 5.

The second half carries them through the stages. `StartupInv` has a clause per stage:
the configuration is `Resolved` (`ConfigInv`), the input has a format and the
configuration's selection (`InputInv`), what was checked still holds (`CheckedInv`), a
list that has not been outdated and the device that was found are of what is plugged in
(`DevicesInv`), and which errors can have stopped the start (`ErrorInv`). `ResolvedIsValid`
is then the fact that no error is at "validate"; the other three combine clauses.

`SettingsLayered` says of every setting which layer it comes from, because
`resolve_with_outputs` layers each by an expression of its own. `Over` is what a process
should resolve, the settings of the command line over those of the file, and
`LaunchHonoured` compares the whole configuration with it: the vocoder, the exact
outputs with their client limit and origin rule, the device and its channels, the MIDI
device, and the values of a test signal or clock. `RequestHonoured` does so for the
service: the request's source, its channels and MIDI input or else its text's, the
vocoder of the text, and the frame region for an output. `LaunchLayered` and
`RequestLayered` prove the two, for any settings, from `ResolutionLayered`.

Proving `SettingsLayered` corrected it. It used to say that a request with a MIDI part
runs with a MIDI input. A request whose MIDI device name is blank runs without one
(`config/resolve.rs:248`), as the tests there intend, and it does not fall back to the
device of its configuration text; `MCStartup` now sends such requests.

### The headless link

`HostProofs` again, which extends both modules (that is why the specification of
`Startup` is called `StartSpec`): whatever the host, the signals and
the stream do:

| Theorem | Statement |
|---|---|
| `DrainsFirst` | `Spec => []DrainedBeforeReport` |
| `CauseReported` | `Spec => []FailureHasItsCause` |
| `AtMostTwoLines` | `Spec => []TypeOK` |

They rest on no assumption. `RunInv` ties the engine and the result to the place of
the main thread, `EventsInv` the last line written to the engine, and `CauseInv`
the cleared flag to the recorded error: until the run ends only the stream's
callback clears the flag, after it has recorded the error, and the poll loads them
in the opposite order. `TypeOK` says that standard output gets at most two lines, the
ready line and the last: each is written at a place that is passed once (`LinesInv`).

### Only model-checked

Liveness under fairness, which is outside what the prover handles: `HandlerFinishes`,
`FailedEngineDrains`, `WorkersStop`, `ShutdownReturns`, `DrainEnds`, `HostGoneStops`,
`StreamFailureStops`, `AdmissionEnds`, `ServerStops`, `LatestReachesClients` and
`LatestReachesReceiver`. The two properties of section 4 are violated, and have no proof
for that reason. No recursion over data is proved about: the sums of `BundleBytes` and
the digits in it are opaque to the proofs, which use only that the size that was
checked is the size of the run.

## 6. What is not modelled

* **Data**: the values of samples, filters, envelopes and coefficients (floating
  point, which TLC has none of), JSON and OSC encodings beyond the size of a
  bundle, log lines. A value is what a property needs to tell it apart.
* **YAML and clap**: a file is missing, malformed or has its settings; a command
  line is refused or has its arguments.
* **libxpc objects**: reference counts and the builders of replies, calls without
  state of the program's own. A reply is the request's result.
* **The WebSocket handshake's origin policy**: a string comparison at admission.
* **Logging and panic hooks**: output only. The release profile aborts on panic,
  so no state follows one.
* **Real time**: 60 Hz pacing, 50 ms polls and the monitor's first sleep, which
  alone keeps an error event behind the reply to start (`xpc/service.rs:297`). A
  timeout is something that may happen once it is due.
* **External parts**, modelled as the code uses them and marked external in
  `PROJECT.json`: the C++20 memory model of one writer with no load buffering
  (stores become visible in order of their views, no value out of thin air), the
  ring buffer, tokio's watch, semaphore and notify, libxpc's serial delivery per
  connection, the host process, the operating system's signals and pipes.

## 7. Plan

Every part that keeps state across threads or steps is modelled. What is left is
to prove more of it and to compose more:

1. `Lifecycle` with `CaptureRing` in place of its one-bit queue.
2. A framed queue that `CaptureRing` implements, as `WsServer` and `DisplayPath`
   implement `LatestValue`.
