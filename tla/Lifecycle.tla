------------------------------ MODULE Lifecycle ------------------------------
(***************************************************************************)
(* The engine's life: bootstrap starts the workers one by one, a host      *)
(* serves until someone clears keep_running or calls shutdown, and the     *)
(* shutdown drops the input, clears the flag and joins the workers in the  *)
(* order they were registered, each for a bounded time.                    *)
(*                                                                         *)
(* Data is left out: a channel is the fact that a receiver has not seen    *)
(* the latest value, the capture ring is the fact that samples are queued, *)
(* and a grace period is a timeout that may happen once the join loop has  *)
(* gone round.  A worker is modelled by its loop: where it reads           *)
(* keep_running, what it waits for, and what its exit closes.  The release *)
(* profile aborts on panic, so a worker leaves only by its loop; it may    *)
(* hang inside a call.                                                     *)
(***************************************************************************)
EXTENDS Naturals, Sequences, FiniteSets, SequencesExt

CONSTANTS
  Sources,       \* audio sources: hardware, calibration
  MidiKinds,     \* MIDI inputs: none, clock, device
  OutputLists,   \* the configured output transports, in configured order
  MaxHung        \* bound: workers that hang in a call

OutputKinds == {"websocket", "osc", "frames"}
Workers == {"generator", "analyser", "mapper", "midi"} \cup OutputKinds

ASSUME ConfigAssumption ==
  /\ Sources \subseteq {"hardware", "calibration"}
  /\ MidiKinds \subseteq {"none", "clock", "device"}
ASSUME OutputsAssumption ==
  \A list \in OutputLists : list \in Seq(OutputKinds) /\ IsInjective(list)
ASSUME HungAssumption == MaxHung \in Nat

VARIABLES
  config,         \* the run's configuration: source, midi, outputs
  main,           \* where the thread that owns the App is
  keep_running,   \* AppState.keep_running
  input,          \* the capture stream: none, live or dropped
  workers,        \* WorkerThreads: registered and not yet joined
  polled,         \* the current join has been round its loop
  shutdown_started,
  wpc,            \* where each worker is in its loop
  token,          \* the MIDI thread's park token
  queued,         \* samples wait in the capture ring
  rawNew,         \* receivers of raw_rx that have not seen the latest frame
  displayNew,     \* the OSC sender has not seen the latest display frame
  mapping,        \* the mapper has seen its first frame
  detached,       \* workers given up after their grace period
  hung,           \* history: workers that never return from a call
  cutLive         \* history: a stop request or a stream error came under a live input

mainVars   == <<main, workers, polled, shutdown_started, detached>>
sharedVars == <<keep_running, input, token, cutLive>>
pipeVars   == <<queued, rawNew, displayNew, mapping>>
vars == <<config, mainVars, sharedVars, pipeVars, wpc, hung>>

\* The order in which bootstrap registers the workers of a configuration.
StartOrder ==
  (IF config.source = "calibration" THEN <<"generator">> ELSE << >>)
  \o <<"analyser", "mapper">>
  \o (IF config.midi = "none" THEN << >> ELSE <<"midi">>)
  \o config.outputs

Started == {w \in Workers : wpc[w] # "off"}
Exited(w) == wpc[w] = "done"

Init ==
  /\ config \in [source : Sources, midi : MidiKinds, outputs : OutputLists]
  /\ main = "audio"
  /\ keep_running = TRUE
  /\ input = "none"
  /\ workers = << >>
  /\ polled = FALSE
  /\ shutdown_started = FALSE
  /\ wpc = [w \in Workers |-> "off"]
  /\ token = FALSE
  /\ queued = FALSE
  /\ rawNew = {}
  /\ displayNew = FALSE
  /\ mapping = FALSE
  /\ detached = {}
  /\ hung = {}
  /\ cutLive = FALSE

\* keep_running is cleared by itself, with shutdown still to come.
ClearFlag ==
  /\ keep_running' = FALSE
  /\ cutLive' = (cutLive \/ input = "live")
-----------------------------------------------------------------------------
(***************************************************************************)
(* bootstrap                                                               *)
(***************************************************************************)
\* spawn_audio_input: in calibration mode the generator is the first worker;
\* a hardware stream starts here, or bootstrap fails before any worker exists.
StartAudio ==
  /\ main = "audio"
  /\ \/ config.source = "calibration" /\ main' = "spawn" /\ UNCHANGED input
     \/ config.source = "hardware" /\ main' = "spawn" /\ input' = "live"
     \/ config.source = "hardware" /\ main' = "end" /\ UNCHANGED input
  /\ UNCHANGED <<config, workers, polled, shutdown_started, detached,
                 keep_running, token, cutLive, pipeVars, wpc, hung>>

NextWorker == StartOrder[Cardinality(Started) + 1]

\* The kind a worker's handle is registered under.
Registered == NextWorker

SpawnWorker ==
  /\ main = "spawn"
  /\ Cardinality(Started) < Len(StartOrder)
  /\ wpc' = [wpc EXCEPT ![NextWorker] = "check"]
  /\ workers' = Append(workers, Registered)
  /\ UNCHANGED <<config, main, polled, shutdown_started, detached, sharedVars,
                 pipeVars, hung>>

\* Mutant: the failed output's error is returned at once.
ReturnError == main' = "end"

\* What bootstrap does with the error of an output that did not start.
TearDown == main' = "drop"

\* A transport cannot bind, acquire its socket or map its region.
OutputFails ==
  /\ main = "spawn"
  /\ Cardinality(Started) < Len(StartOrder)
  /\ NextWorker \in OutputKinds
  /\ TearDown
  /\ UNCHANGED <<config, workers, polled, shutdown_started, detached,
                 sharedVars, pipeVars, wpc, hung>>

Bootstrapped ==
  /\ main = "spawn"
  /\ Cardinality(Started) = Len(StartOrder)
  /\ main' = "serve"
  /\ UNCHANGED <<config, workers, polled, shutdown_started, detached,
                 sharedVars, pipeVars, wpc, hung>>
-----------------------------------------------------------------------------
(***************************************************************************)
(* The host, and the environment                                           *)
(***************************************************************************)
\* Ctrl+C in the controller, or a requested stop in the headless loop: the
\* flag is cleared first, and shutdown follows when the loop has returned.
HostClears ==
  /\ main = "serve"
  /\ keep_running
  /\ ClearFlag
  /\ UNCHANGED <<config, mainVars, input, token, pipeVars, wpc, hung>>

\* App::shutdown, or the Drop of an App, entered with the first call.
EnterShutdown ==
  /\ ~shutdown_started
  /\ shutdown_started' = TRUE
  /\ main' = "drop"

\* Every host polls keep_running and calls shutdown when it is clear.
HostNotices ==
  /\ main = "serve"
  /\ ~keep_running
  /\ EnterShutdown
  /\ UNCHANGED <<config, workers, polled, detached, sharedVars, pipeVars, wpc, hung>>

\* The XPC service stops a run, or main returns early: flag still set.
HostStops ==
  /\ main = "serve"
  /\ keep_running
  /\ EnterShutdown
  /\ UNCHANGED <<config, workers, polled, detached, sharedVars, pipeVars, wpc, hung>>

\* The stream's error callback: fail_hardware_stream.
StreamFails ==
  /\ input = "live"
  /\ keep_running
  /\ ClearFlag
  /\ UNCHANGED <<config, mainVars, input, token, pipeVars, wpc, hung>>

\* The stream's data callback, which goes on for as long as the stream lives.
StreamDelivers ==
  /\ input = "live"
  /\ ~queued
  /\ queued' = TRUE
  /\ UNCHANGED <<config, mainVars, sharedVars, rawNew, displayNew, mapping, wpc, hung>>

\* A worker never returns from the call it is in.
Hangs(w) ==
  /\ wpc[w] \notin {"off", "done"}
  /\ w \notin hung
  /\ Cardinality(hung) < MaxHung
  /\ hung' = hung \cup {w}
  /\ UNCHANGED <<config, mainVars, sharedVars, pipeVars, wpc>>
-----------------------------------------------------------------------------
(***************************************************************************)
(* shutdown, and the same sequence when bootstrap fails                    *)
(***************************************************************************)
\* Mutant: the stream is left to be dropped with the App.
KeepInput == UNCHANGED input

\* self.input_device.take(): the callback is gone when the handle is.
ReleaseInput == input' = (IF input = "live" THEN "dropped" ELSE input)

DropInput ==
  /\ main = "drop"
  /\ ReleaseInput
  /\ main' = "clear"
  /\ UNCHANGED <<config, workers, polled, shutdown_started, detached,
                 keep_running, token, cutLive, pipeVars, wpc, hung>>

SignalWorkers ==
  /\ main = "clear"
  /\ keep_running' = FALSE
  /\ main' = "join"
  /\ UNCHANGED <<config, workers, polled, shutdown_started, detached, input,
                 token, cutLive, pipeVars, wpc, hung>>

\* join_with_timeout, one turn of its loop for the first worker left.
Joined ==
  /\ main = "join"
  /\ workers # << >>
  /\ Exited(Head(workers))
  /\ workers' = Tail(workers)
  /\ polled' = FALSE
  /\ UNCHANGED <<config, main, shutdown_started, detached, sharedVars,
                 pipeVars, wpc, hung>>

\* Mutant: the loop only sleeps and polls.
NoUnpark == UNCHANGED token

\* handle.thread().unpark(): only the MIDI thread parks.
Unpark == token' = (token \/ Head(workers) = "midi")

PollAgain ==
  /\ main = "join"
  /\ workers # << >>
  /\ ~Exited(Head(workers))
  /\ Unpark
  /\ polled' = TRUE
  /\ UNCHANGED <<config, main, workers, shutdown_started, detached,
                 keep_running, input, cutLive, pipeVars, wpc, hung>>

\* Mutant: a plain join, which waits for the thread however long it takes.
NeverDue == FALSE

\* The deadline can pass only after the first turn has slept.
DeadlinePassed == polled

TimedOut ==
  /\ main = "join"
  /\ workers # << >>
  /\ ~Exited(Head(workers))
  /\ DeadlinePassed
  /\ detached' = detached \cup {Head(workers)}
  /\ workers' = Tail(workers)
  /\ polled' = FALSE
  /\ UNCHANGED <<config, main, shutdown_started, sharedVars, pipeVars, wpc, hung>>

ShutdownComplete ==
  /\ main = "join"
  /\ workers = << >>
  /\ main' = "end"
  /\ UNCHANGED <<config, workers, polled, shutdown_started, detached,
                 sharedVars, pipeVars, wpc, hung>>
-----------------------------------------------------------------------------
(***************************************************************************)
(* The workers                                                             *)
(***************************************************************************)
At(w, pc) == wpc[w] = pc /\ w \notin hung
Move(w, pc) == wpc' = [wpc EXCEPT ![w] = pc]

\* while keep_running { ... }
LoopCheck(w, last) ==
  /\ At(w, "check")
  /\ Move(w, IF keep_running THEN "body" ELSE last)
  /\ UNCHANGED <<config, mainVars, sharedVars, pipeVars, hung>>

GeneratorPush ==
  /\ At("generator", "body")
  /\ queued' = TRUE
  /\ Move("generator", "check")
  /\ UNCHANGED <<config, mainVars, sharedVars, rawNew, displayNew, mapping, hung>>

\* The right-hand side of `keep_running || !consumer.is_empty()`.
UnlessEmpty == IF queued THEN "body" ELSE "done"

\* Mutant: the two sides are joined by and.
WhileBoth == IF keep_running /\ queued THEN "body" ELSE "empty"

\* Its left-hand side; the ring is looked at one step later.
WhileRunning == IF keep_running THEN "body" ELSE "empty"

AnalyserCheck ==
  /\ \/ At("analyser", "check") /\ Move("analyser", WhileRunning)
     \/ At("analyser", "empty") /\ Move("analyser", UnlessEmpty)
  /\ UNCHANGED <<config, mainVars, sharedVars, pipeVars, hung>>

\* pop_slice, process and send_replace, or a sleep when there was nothing.
AnalyserPop ==
  /\ At("analyser", "body")
  /\ queued' = FALSE
  /\ rawNew' = IF queued THEN {"mapper", "frames"} ELSE rawNew
  /\ Move("analyser", "check")
  /\ UNCHANGED <<config, mainVars, sharedVars, displayNew, mapping, hung>>

\* Leaving drops raw_tx, and the mapper's leaving drops display_tx.
RawClosed == Exited("analyser")
DisplayClosed == Exited("mapper")

\* changed().await: an unseen value first, then an error once it is closed.
Changed(w, new, closed) ==
  \/ new /\ Move(w, "check")
  \/ ~new /\ closed /\ Move(w, "done")

MapperChanged ==
  /\ At("mapper", "body")
  /\ Changed("mapper", "mapper" \in rawNew, RawClosed)
  /\ mapping' = (mapping \/ "mapper" \in rawNew)
  /\ rawNew' = rawNew \ {"mapper"}
  /\ UNCHANGED <<config, mainVars, sharedVars, queued, displayNew, hung>>

\* The 60 Hz tick, once a first frame has been seen.
MapperTick ==
  /\ At("mapper", "body")
  /\ mapping
  /\ rawNew' = rawNew \ {"mapper"}
  /\ displayNew' = TRUE
  /\ Move("mapper", "check")
  /\ UNCHANGED <<config, mainVars, sharedVars, queued, mapping, hung>>

\* The synthetic clock sleeps a poll interval; a device holder parks.
MidiWaits ==
  /\ At("midi", "body")
  /\ config.midi = "device" => token
  /\ token' = FALSE
  /\ Move("midi", "check")
  /\ UNCHANGED <<config, mainVars, keep_running, input, cutLive, pipeVars, hung>>

\* accept with a timeout; after the loop, a bounded wait for the tasks.
ServerAccepts ==
  /\ At("websocket", "body")
  /\ Move("websocket", "check")
  /\ UNCHANGED <<config, mainVars, sharedVars, pipeVars, hung>>

ServerCloses ==
  /\ At("websocket", "closing")
  /\ Move("websocket", "done")
  /\ UNCHANGED <<config, mainVars, sharedVars, pipeVars, hung>>

OscChanged ==
  /\ At("osc", "body")
  /\ Changed("osc", displayNew, DisplayClosed)
  /\ displayNew' = FALSE
  /\ UNCHANGED <<config, mainVars, sharedVars, queued, rawNew, mapping, hung>>

FramesChanged ==
  /\ At("frames", "body")
  /\ Changed("frames", "frames" \in rawNew, RawClosed)
  /\ rawNew' = rawNew \ {"frames"}
  /\ UNCHANGED <<config, mainVars, sharedVars, queued, displayNew, mapping, hung>>
-----------------------------------------------------------------------------
Main ==
  \/ StartAudio \/ SpawnWorker \/ OutputFails \/ Bootstrapped \/ HostNotices
  \/ DropInput \/ SignalWorkers \/ Joined \/ PollAgain \/ ShutdownComplete

Generator == LoopCheck("generator", "done") \/ GeneratorPush
Analyser  == AnalyserCheck \/ AnalyserPop
Mapper    == LoopCheck("mapper", "done") \/ MapperChanged \/ MapperTick
Midi      == LoopCheck("midi", "done") \/ MidiWaits
Server    == LoopCheck("websocket", "closing") \/ ServerAccepts \/ ServerCloses
Osc       == LoopCheck("osc", "done") \/ OscChanged
Frames    == LoopCheck("frames", "done") \/ FramesChanged

Next ==
  \/ Main \/ TimedOut
  \/ HostClears \/ HostStops \/ StreamFails \/ StreamDelivers
  \/ \E w \in Workers : Hangs(w)
  \/ Generator \/ Analyser \/ Mapper \/ Midi \/ Server \/ Osc \/ Frames

\* The scheduler runs every thread that can run, and time passes: nobody is
\* obliged to stop the engine, to fail or to deliver samples.
Fairness ==
  /\ WF_vars(Main) /\ WF_vars(TimedOut)
  /\ WF_vars(Generator) /\ WF_vars(Analyser) /\ WF_vars(Mapper)
  /\ WF_vars(Midi) /\ WF_vars(Server) /\ WF_vars(Osc) /\ WF_vars(Frames)

Spec == Init /\ [][Next]_vars /\ Fairness
-----------------------------------------------------------------------------
(***************************************************************************)
(* Properties                                                              *)
(***************************************************************************)
\* The state has its types, and no handle is registered twice.
TypeOK ==
  /\ config \in [source : Sources, midi : MidiKinds, outputs : OutputLists]
  /\ main \in {"audio", "spawn", "serve", "drop", "clear", "join", "end"}
  /\ input \in {"none", "live", "dropped"}
  /\ workers \in Seq(Workers) /\ IsInjective(workers)
  /\ wpc \in [Workers -> {"off", "check", "body", "empty", "closing", "done"}]
  /\ rawNew \subseteq Workers /\ detached \subseteq Workers /\ hung \subseteq Workers
  /\ {keep_running, polled, shutdown_started, token, queued, displayNew,
      mapping, cutLive} \subseteq BOOLEAN

\* When bootstrap has failed or shutdown has returned, the stream is gone and
\* every worker that was ever started has exited or was given up by name: no
\* path, the failure of a later output included, leaves one behind.
NothingLeftBehind ==
  main = "end" =>
    /\ input # "live"
    /\ \A w \in Started : Exited(w) \/ w \in detached

\* No worker leaves while the engine runs: nobody exits, and so nobody closes
\* a channel under another worker, before keep_running has been cleared.
NoEarlyExit == \A w \in Workers : Exited(w) => ~keep_running

\* Unless a stop request or a stream error cleared the flag before it, a
\* shutdown loses no captured audio: it drops the input before it clears the
\* flag, so the analyser leaves with the ring empty for good (app.rs:335).
CaptureDrained ==
  (config.source = "hardware" /\ Exited("analyser") /\ ~cutLive) => ~queued

\* shutdown is bounded: once begun it returns, even when a worker hangs.
ShutdownReturns == main = "drop" ~> main = "end"

\* Once the flag is clear every worker exits, those given up after their
\* grace period too, unless one of them hangs in a call: the closed channels
\* reach every worker that waits and no wakeup of the MIDI thread is lost.
WorkersStop == ~keep_running ~> (hung # {} \/ \A w \in Started : Exited(w))
=============================================================================
