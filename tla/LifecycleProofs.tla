-------------------------- MODULE LifecycleProofs --------------------------
(***************************************************************************)
(* For any configuration, any order of the outputs and any number of hung  *)
(* workers: nobody leaves before the flag is cleared, an orderly shutdown  *)
(* leaves no captured audio, no worker is left behind unaccounted for, and *)
(* the workers are joined in the order in which they were started.         *)
(*                                                                         *)
(* None of these is inductive.  FlagInv covers the workers that have seen  *)
(* the flag and not left yet, CaptureInv says that nobody fills the ring   *)
(* behind an analyser about to look at it, RegistryInv that a worker is in *)
(* the registry from its first step until it has exited or was given up,   *)
(* and OrderInv that the registry is what is left of the start order,      *)
(* which is also why no handle is in it twice.                             *)
(***************************************************************************)
EXTENDS Lifecycle, FiniteSetTheorems, TLAPS

Leaving == {"empty", "closing", "done"}

Kinds ==
  /\ config \in [source : Sources, midi : MidiKinds, outputs : OutputLists]
  /\ keep_running \in BOOLEAN /\ queued \in BOOLEAN /\ cutLive \in BOOLEAN
  /\ main = "audio" => input = "none"
  /\ workers \in Seq(Workers)
  /\ wpc \in [Workers -> {"off", "check", "body"} \cup Leaving]

\* A worker that is leaving, or has to look at the ring before it does, has
\* found the flag clear or the channel of one that had.
FlagInv == \A w \in Workers : wpc[w] \in Leaving => ~keep_running

\* With a hardware source only the stream fills the ring, and the flag is not
\* cleared under a live stream unless cutLive remembers it.
CaptureInv ==
  config.source = "hardware" =>
    /\ wpc["generator"] = "off"
    /\ ~keep_running /\ ~cutLive => input # "live"
    /\ Exited("analyser") /\ ~cutLive => ~queued

\* Every worker that was started waits to be joined, has exited or was given
\* up; there is none before the input is up, and nobody has left main's hands
\* with the stream alive.
RegistryInv ==
  /\ main = "audio" =>
       keep_running /\ workers = << >> /\ \A w \in Workers : wpc[w] = "off"
  /\ main \in {"clear", "join", "end"} => input # "live"
  /\ main = "end" => workers = << >>
  /\ \A w \in Workers :
       wpc[w] # "off" =>
         Exited(w) \/ w \in detached \/ \E i \in 1..Len(workers) : workers[i] = w

LifeInv == Kinds /\ FlagInv /\ CaptureInv /\ RegistryInv
-----------------------------------------------------------------------------
\* Workers is finite, so the number of those started is a number.
LEMMA StartedCount == IsFiniteSet(Started) /\ Cardinality(Started) \in Nat
<1>1. IsFiniteSet(Workers)
  <2>1. Workers = {"generator"} \cup {"analyser"} \cup {"mapper"} \cup {"midi"}
                    \cup {"websocket"} \cup {"osc"} \cup {"frames"}
    BY DEF Workers, OutputKinds
  <2> QED BY <2>1, FS_Singleton, FS_Union
<1> QED BY <1>1, FS_Subset, FS_CardinalityType DEF Started

\* The order of a configuration names workers, and the generator only when
\* the source is the calibration signal.
LEMMA OrderFacts ==
  ASSUME Kinds
  PROVE  /\ StartOrder \in Seq(Workers)
         /\ config.source = "hardware" =>
              \A i \in 1..Len(StartOrder) : StartOrder[i] # "generator"
<1> DEFINE first == IF config.source = "calibration" THEN <<"generator">> ELSE << >>
           third == IF config.midi = "none" THEN << >> ELSE <<"midi">>
           two   == first \o <<"analyser", "mapper">>
           four  == two \o third
<1>1. config.outputs \in Seq(OutputKinds)
  BY OutputsAssumption DEF Kinds
<1>2. first \in Seq({"generator"}) /\ (config.source = "hardware" => first = << >>)
  <2>1. << >> \in Seq({"generator"}) /\ <<"generator">> \in Seq({"generator"})
    OBVIOUS
  <2> QED BY <2>1
<1>3. <<"analyser", "mapper">> \in Seq({"analyser", "mapper"}) /\ third \in Seq({"midi"})
  <2>1. << >> \in Seq({"midi"}) /\ <<"midi">> \in Seq({"midi"})
    OBVIOUS
  <2>2. <<"analyser", "mapper">> \in Seq({"analyser", "mapper"})
    OBVIOUS
  <2> QED BY <2>1, <2>2
<1>4. /\ four \in Seq({"generator", "analyser", "mapper", "midi"})
      /\ config.source = "hardware" => four \in Seq({"analyser", "mapper", "midi"})
  <2> HIDE DEF first, third
  <2>1. two \in Seq({"generator", "analyser", "mapper"})
    BY <1>2, <1>3
  <2>2. config.source = "hardware" => two = <<"analyser", "mapper">>
    BY <1>2
  <2>3. config.source = "hardware" => two \in Seq({"analyser", "mapper"})
    BY <1>3, <2>2
  <2> HIDE DEF two
  <2>4. four \in Seq({"generator", "analyser", "mapper", "midi"})
    BY <1>3, <2>1
  <2>5. config.source = "hardware" => four \in Seq({"analyser", "mapper", "midi"})
    BY <1>3, <2>3
  <2> QED BY <2>4, <2>5
<1>5. StartOrder = four \o config.outputs
  BY DEF StartOrder
<1>6. StartOrder \in Seq(Workers)
  BY <1>1, <1>4, <1>5 DEF Workers
<1>7. ASSUME config.source = "hardware"
      PROVE  \A i \in 1..Len(StartOrder) : StartOrder[i] # "generator"
  <2>1. StartOrder \in Seq({"analyser", "mapper", "midi"} \cup OutputKinds)
    BY <1>1, <1>4, <1>5, <1>7
  <2> QED BY <2>1 DEF OutputKinds
<1> QED BY <1>6, <1>7

\* The next worker is one of the workers, and the generator only of a
\* calibration run.
LEMMA NextFacts ==
  ASSUME Kinds, Cardinality(Started) < Len(StartOrder)
  PROVE  NextWorker \in Workers /\ (config.source = "hardware" => NextWorker # "generator")
<1>1. Cardinality(Started) + 1 \in 1..Len(StartOrder)
  BY StartedCount, OrderFacts
<1> QED BY <1>1, OrderFacts DEF NextWorker

\* Nothing has been started in the initial state.
LEMMA InitLife == Init => LifeInv
<1> SUFFICES ASSUME Init PROVE LifeInv
  OBVIOUS
<1>1. Kinds
  <2>1. << >> \in Seq(Workers)
    OBVIOUS
  <2> QED BY <2>1 DEF Init, Kinds
<1>2. FlagInv
  BY DEF Init, FlagInv, Leaving
<1>3. CaptureInv
  BY DEF Init, CaptureInv, Workers, Exited
<1>4. RegistryInv
  BY DEF Init, RegistryInv
<1> QED BY <1>1, <1>2, <1>3, <1>4 DEF LifeInv

\* The stream starts, or bootstrap fails.
LEMMA StartAudioKeeps ==
  ASSUME LifeInv, StartAudio
  PROVE  LifeInv'
<1> USE DEF LifeInv, Leaving, mainVars, sharedVars, pipeVars
<1> USE DEF StartAudio
<1>1. Kinds'
  BY DEF Kinds, RegistryInv
<1>2. FlagInv'
  BY DEF Kinds, FlagInv, Exited, Workers, OutputKinds
<1>3. CaptureInv'
  BY DEF Kinds, CaptureInv, FlagInv, RegistryInv, Exited, Workers
<1>4. RegistryInv'
  BY DEF Kinds, RegistryInv, FlagInv, Exited, Workers, OutputKinds
<1> QED BY <1>1, <1>2, <1>3, <1>4

\* A worker is started and registered.
LEMMA SpawnWorkerKeeps ==
  ASSUME LifeInv, SpawnWorker
  PROVE  LifeInv'
<1> USE NextFacts DEF LifeInv, Leaving, mainVars, sharedVars, pipeVars
<1> USE DEF SpawnWorker, Registered
<1>1. Kinds'
  BY DEF Kinds, RegistryInv
<1>2. FlagInv'
  BY DEF Kinds, FlagInv, Exited, Workers, OutputKinds
<1>3. CaptureInv'
  BY DEF Kinds, CaptureInv, FlagInv, RegistryInv, Exited, Workers
<1>4. RegistryInv'
  BY DEF Kinds, RegistryInv, FlagInv, Exited, Workers, OutputKinds
<1> QED BY <1>1, <1>2, <1>3, <1>4

\* An output fails.
LEMMA OutputFailsKeeps ==
  ASSUME LifeInv, OutputFails
  PROVE  LifeInv'
<1> USE DEF LifeInv, Leaving, mainVars, sharedVars, pipeVars
<1> USE DEF OutputFails, TearDown
<1>1. Kinds'
  BY DEF Kinds, RegistryInv
<1>2. FlagInv'
  BY DEF Kinds, FlagInv, Exited, Workers, OutputKinds
<1>3. CaptureInv'
  BY DEF Kinds, CaptureInv, FlagInv, RegistryInv, Exited, Workers
<1>4. RegistryInv'
  BY DEF Kinds, RegistryInv, FlagInv, Exited, Workers, OutputKinds
<1> QED BY <1>1, <1>2, <1>3, <1>4

\* All workers are up.
LEMMA BootstrappedKeeps ==
  ASSUME LifeInv, Bootstrapped
  PROVE  LifeInv'
<1> USE DEF LifeInv, Leaving, mainVars, sharedVars, pipeVars
<1> USE DEF Bootstrapped
<1>1. Kinds'
  BY DEF Kinds, RegistryInv
<1>2. FlagInv'
  BY DEF Kinds, FlagInv, Exited, Workers, OutputKinds
<1>3. CaptureInv'
  BY DEF Kinds, CaptureInv, FlagInv, RegistryInv, Exited, Workers
<1>4. RegistryInv'
  BY DEF Kinds, RegistryInv, FlagInv, Exited, Workers, OutputKinds
<1> QED BY <1>1, <1>2, <1>3, <1>4

\* The host clears the flag.
LEMMA HostClearsKeeps ==
  ASSUME LifeInv, HostClears
  PROVE  LifeInv'
<1> USE DEF LifeInv, Leaving, mainVars, sharedVars, pipeVars
<1> USE DEF HostClears, ClearFlag
<1>1. Kinds'
  BY DEF Kinds, RegistryInv
<1>2. FlagInv'
  BY DEF Kinds, FlagInv, Exited, Workers, OutputKinds
<1>3. CaptureInv'
  BY DEF Kinds, CaptureInv, FlagInv, RegistryInv, Exited, Workers
<1>4. RegistryInv'
  BY DEF Kinds, RegistryInv, FlagInv, Exited, Workers, OutputKinds
<1> QED BY <1>1, <1>2, <1>3, <1>4

\* The host begins the shutdown.
LEMMA HostShutdownKeeps ==
  ASSUME LifeInv, HostNotices \/ HostStops
  PROVE  LifeInv'
<1> USE DEF LifeInv, Leaving, mainVars, sharedVars, pipeVars
<1> USE DEF HostNotices, HostStops, EnterShutdown
<1>1. Kinds'
  BY DEF Kinds, RegistryInv
<1>2. FlagInv'
  BY DEF Kinds, FlagInv, Exited, Workers, OutputKinds
<1>3. CaptureInv'
  BY DEF Kinds, CaptureInv, FlagInv, RegistryInv, Exited, Workers
<1>4. RegistryInv'
  BY DEF Kinds, RegistryInv, FlagInv, Exited, Workers, OutputKinds
<1> QED BY <1>1, <1>2, <1>3, <1>4

\* The stream clears the flag.
LEMMA StreamFailsKeeps ==
  ASSUME LifeInv, StreamFails
  PROVE  LifeInv'
<1> USE DEF LifeInv, Leaving, mainVars, sharedVars, pipeVars
<1> USE DEF StreamFails, ClearFlag
<1>1. Kinds'
  BY DEF Kinds, RegistryInv
<1>2. FlagInv'
  BY DEF Kinds, FlagInv, Exited, Workers, OutputKinds
<1>3. CaptureInv'
  BY DEF Kinds, CaptureInv, FlagInv, RegistryInv, Exited, Workers
<1>4. RegistryInv'
  BY DEF Kinds, RegistryInv, FlagInv, Exited, Workers, OutputKinds
<1> QED BY <1>1, <1>2, <1>3, <1>4

\* Samples arrive: the stream is live.
LEMMA StreamDeliversKeeps ==
  ASSUME LifeInv, StreamDelivers
  PROVE  LifeInv'
<1> USE DEF LifeInv, Leaving, mainVars, sharedVars, pipeVars
<1> USE DEF StreamDelivers
<1>1. Kinds'
  BY DEF Kinds, RegistryInv
<1>2. FlagInv'
  BY DEF Kinds, FlagInv, Exited, Workers, OutputKinds
<1>3. CaptureInv'
  BY DEF Kinds, CaptureInv, FlagInv, RegistryInv, Exited, Workers
<1>4. RegistryInv'
  BY DEF Kinds, RegistryInv, FlagInv, Exited, Workers, OutputKinds
<1> QED BY <1>1, <1>2, <1>3, <1>4

\* The stream is dropped.
LEMMA DropInputKeeps ==
  ASSUME LifeInv, DropInput
  PROVE  LifeInv'
<1> USE DEF LifeInv, Leaving, mainVars, sharedVars, pipeVars
<1> USE DEF DropInput, ReleaseInput
<1>1. Kinds'
  BY DEF Kinds, RegistryInv
<1>2. FlagInv'
  BY DEF Kinds, FlagInv, Exited, Workers, OutputKinds
<1>3. CaptureInv'
  BY DEF Kinds, CaptureInv, FlagInv, RegistryInv, Exited, Workers
<1>4. RegistryInv'
  BY DEF Kinds, RegistryInv, FlagInv, Exited, Workers, OutputKinds
<1> QED BY <1>1, <1>2, <1>3, <1>4

\* The flag is cleared for the workers.
LEMMA SignalWorkersKeeps ==
  ASSUME LifeInv, SignalWorkers
  PROVE  LifeInv'
<1> USE DEF LifeInv, Leaving, mainVars, sharedVars, pipeVars
<1> USE DEF SignalWorkers
<1>1. Kinds'
  BY DEF Kinds, RegistryInv
<1>2. FlagInv'
  BY DEF Kinds, FlagInv, Exited, Workers, OutputKinds
<1>3. CaptureInv'
  BY DEF Kinds, CaptureInv, FlagInv, RegistryInv, Exited, Workers
<1>4. RegistryInv'
  BY DEF Kinds, RegistryInv, FlagInv, Exited, Workers, OutputKinds
<1> QED BY <1>1, <1>2, <1>3, <1>4

\* A join goes round.
LEMMA PollAgainKeeps ==
  ASSUME LifeInv, PollAgain
  PROVE  LifeInv'
<1> USE DEF LifeInv, Leaving, mainVars, sharedVars, pipeVars
<1> USE DEF PollAgain, Unpark
<1>1. Kinds'
  BY DEF Kinds, RegistryInv
<1>2. FlagInv'
  BY DEF Kinds, FlagInv, Exited, Workers, OutputKinds
<1>3. CaptureInv'
  BY DEF Kinds, CaptureInv, FlagInv, RegistryInv, Exited, Workers
<1>4. RegistryInv'
  BY DEF Kinds, RegistryInv, FlagInv, Exited, Workers, OutputKinds
<1> QED BY <1>1, <1>2, <1>3, <1>4

\* The registry is empty.
LEMMA ShutdownCompleteKeeps ==
  ASSUME LifeInv, ShutdownComplete
  PROVE  LifeInv'
<1> USE DEF LifeInv, Leaving, mainVars, sharedVars, pipeVars
<1> USE DEF ShutdownComplete
<1>1. Kinds'
  BY DEF Kinds, RegistryInv
<1>2. FlagInv'
  BY DEF Kinds, FlagInv, Exited, Workers, OutputKinds
<1>3. CaptureInv'
  BY DEF Kinds, CaptureInv, FlagInv, RegistryInv, Exited, Workers
<1>4. RegistryInv'
  BY DEF Kinds, RegistryInv, FlagInv, Exited, Workers, OutputKinds
<1> QED BY <1>1, <1>2, <1>3, <1>4

\* A worker looks at the flag.
LEMMA LoopCheckKeeps ==
  ASSUME LifeInv, NEW w \in Workers, w # "analyser", NEW last \in Leaving, LoopCheck(w, last)
  PROVE  LifeInv'
<1> USE DEF LifeInv, Leaving, mainVars, sharedVars, pipeVars
<1> USE DEF LoopCheck, At, Move
<1>1. Kinds'
  BY DEF Kinds, RegistryInv
<1>2. FlagInv'
  BY DEF Kinds, FlagInv, Exited, Workers, OutputKinds
<1>3. CaptureInv'
  BY DEF Kinds, CaptureInv, FlagInv, RegistryInv, Exited, Workers
<1>4. RegistryInv'
  BY DEF Kinds, RegistryInv, FlagInv, Exited, Workers, OutputKinds
<1> QED BY <1>1, <1>2, <1>3, <1>4

\* The generator runs only with the calibration source.
LEMMA GeneratorPushKeeps ==
  ASSUME LifeInv, GeneratorPush
  PROVE  LifeInv'
<1> USE DEF LifeInv, Leaving, mainVars, sharedVars, pipeVars
<1> USE DEF GeneratorPush, At, Move
<1>1. Kinds'
  BY DEF Kinds, RegistryInv
<1>2. FlagInv'
  BY DEF Kinds, FlagInv, Exited, Workers, OutputKinds
<1>3. CaptureInv'
  BY DEF Kinds, CaptureInv, FlagInv, RegistryInv, Exited, Workers
<1>4. RegistryInv'
  BY DEF Kinds, RegistryInv, FlagInv, Exited, Workers, OutputKinds
<1> QED BY <1>1, <1>2, <1>3, <1>4

\* The analyser looks at the flag, then at the ring.
LEMMA AnalyserCheckKeeps ==
  ASSUME LifeInv, AnalyserCheck
  PROVE  LifeInv'
<1> USE DEF LifeInv, Leaving, mainVars, sharedVars, pipeVars
<1> USE DEF AnalyserCheck, WhileRunning, UnlessEmpty, At, Move
<1>1. Kinds'
  BY DEF Kinds, RegistryInv
<1>2. FlagInv'
  BY DEF Kinds, FlagInv, Exited, Workers, OutputKinds
<1>3. CaptureInv'
  BY DEF Kinds, CaptureInv, FlagInv, RegistryInv, Exited, Workers
<1>4. RegistryInv'
  BY DEF Kinds, RegistryInv, FlagInv, Exited, Workers, OutputKinds
<1> QED BY <1>1, <1>2, <1>3, <1>4

\* The analyser empties the ring.
LEMMA AnalyserPopKeeps ==
  ASSUME LifeInv, AnalyserPop
  PROVE  LifeInv'
<1> USE DEF LifeInv, Leaving, mainVars, sharedVars, pipeVars
<1> USE DEF AnalyserPop, At, Move
<1>1. Kinds'
  BY DEF Kinds, RegistryInv
<1>2. FlagInv'
  BY DEF Kinds, FlagInv, Exited, Workers, OutputKinds
<1>3. CaptureInv'
  BY DEF Kinds, CaptureInv, FlagInv, RegistryInv, Exited, Workers
<1>4. RegistryInv'
  BY DEF Kinds, RegistryInv, FlagInv, Exited, Workers, OutputKinds
<1> QED BY <1>1, <1>2, <1>3, <1>4

\* The mapper is told of a frame, or that the analyser has left.
LEMMA MapperChangedKeeps ==
  ASSUME LifeInv, MapperChanged
  PROVE  LifeInv'
<1> USE DEF LifeInv, Leaving, mainVars, sharedVars, pipeVars
<1> USE DEF MapperChanged, Changed, RawClosed, At, Move
<1>1. Kinds'
  BY DEF Kinds, RegistryInv
<1>2. FlagInv'
  BY DEF Kinds, FlagInv, Exited, Workers, OutputKinds
<1>3. CaptureInv'
  BY DEF Kinds, CaptureInv, FlagInv, RegistryInv, Exited, Workers
<1>4. RegistryInv'
  BY DEF Kinds, RegistryInv, FlagInv, Exited, Workers, OutputKinds
<1> QED BY <1>1, <1>2, <1>3, <1>4

\* The sender is told of a frame, or that the mapper has left.
LEMMA OscChangedKeeps ==
  ASSUME LifeInv, OscChanged
  PROVE  LifeInv'
<1> USE DEF LifeInv, Leaving, mainVars, sharedVars, pipeVars
<1> USE DEF OscChanged, Changed, DisplayClosed, At, Move
<1>1. Kinds'
  BY DEF Kinds, RegistryInv
<1>2. FlagInv'
  BY DEF Kinds, FlagInv, Exited, Workers, OutputKinds
<1>3. CaptureInv'
  BY DEF Kinds, CaptureInv, FlagInv, RegistryInv, Exited, Workers
<1>4. RegistryInv'
  BY DEF Kinds, RegistryInv, FlagInv, Exited, Workers, OutputKinds
<1> QED BY <1>1, <1>2, <1>3, <1>4

\* The frame writer is told of a frame, or that the analyser has left.
LEMMA FramesChangedKeeps ==
  ASSUME LifeInv, FramesChanged
  PROVE  LifeInv'
<1> USE DEF LifeInv, Leaving, mainVars, sharedVars, pipeVars
<1> USE DEF FramesChanged, Changed, RawClosed, At, Move
<1>1. Kinds'
  BY DEF Kinds, RegistryInv
<1>2. FlagInv'
  BY DEF Kinds, FlagInv, Exited, Workers, OutputKinds
<1>3. CaptureInv'
  BY DEF Kinds, CaptureInv, FlagInv, RegistryInv, Exited, Workers
<1>4. RegistryInv'
  BY DEF Kinds, RegistryInv, FlagInv, Exited, Workers, OutputKinds
<1> QED BY <1>1, <1>2, <1>3, <1>4

\* A worker ends a turn of its loop.
LEMMA BodyKeeps ==
  ASSUME LifeInv, MapperTick \/ MidiWaits \/ ServerAccepts
  PROVE  LifeInv'
<1> USE DEF LifeInv, Leaving, mainVars, sharedVars, pipeVars
<1> USE DEF MapperTick, MidiWaits, ServerAccepts, At, Move
<1>1. Kinds'
  BY DEF Kinds, RegistryInv
<1>2. FlagInv'
  BY DEF Kinds, FlagInv, Exited, Workers, OutputKinds
<1>3. CaptureInv'
  BY DEF Kinds, CaptureInv, FlagInv, RegistryInv, Exited, Workers
<1>4. RegistryInv'
  BY DEF Kinds, RegistryInv, FlagInv, Exited, Workers, OutputKinds
<1> QED BY <1>1, <1>2, <1>3, <1>4

\* The server has closed its tasks.
LEMMA ServerClosesKeeps ==
  ASSUME LifeInv, ServerCloses
  PROVE  LifeInv'
<1> USE DEF LifeInv, Leaving, mainVars, sharedVars, pipeVars
<1> USE DEF ServerCloses, At, Move
<1>1. Kinds'
  BY DEF Kinds, RegistryInv
<1>2. FlagInv'
  BY DEF Kinds, FlagInv, Exited, Workers, OutputKinds
<1>3. CaptureInv'
  BY DEF Kinds, CaptureInv, FlagInv, RegistryInv, Exited, Workers
<1>4. RegistryInv'
  BY DEF Kinds, RegistryInv, FlagInv, Exited, Workers, OutputKinds
<1> QED BY <1>1, <1>2, <1>3, <1>4

\* The first worker is joined, having exited, or is given up.
LEMMA JoinKeeps ==
  ASSUME LifeInv, Joined \/ TimedOut
  PROVE  LifeInv'
<1> USE DEF LifeInv, Joined, TimedOut, mainVars, sharedVars, pipeVars
<1>1. Kinds'
  BY DEF Kinds
<1>2. FlagInv'
  BY DEF FlagInv
<1>3. CaptureInv'
  BY DEF CaptureInv, Exited
<1>4. RegistryInv'
  <2>1. workers \in Seq(Workers) /\ workers # << >> /\ workers' = Tail(workers)
    BY DEF Kinds
  <2>2. Exited(Head(workers)) \/ Head(workers) \in detached'
    OBVIOUS
  <2>3. ASSUME NEW w \in Workers, wpc'[w] # "off"
        PROVE  \/ Exited(w)' \/ w \in detached'
               \/ \E i \in 1..Len(workers') : workers'[i] = w
    <3>1. CASE Exited(w) \/ w \in detached
      BY <3>1 DEF Exited
    <3>2. CASE \E i \in 1..Len(workers) : workers[i] = w
      <4>1. PICK i \in 1..Len(workers) : workers[i] = w
        BY <3>2
      <4>2. CASE i = 1
        BY <2>1, <2>2, <4>1, <4>2 DEF Exited
      <4>3. CASE i # 1
        <5>1. i - 1 \in 1..Len(workers') /\ workers'[i - 1] = w
          BY <2>1, <4>1, <4>3
        <5> QED BY <5>1
      <4> QED BY <4>2, <4>3
    <3> QED BY <2>3, <3>1, <3>2 DEF RegistryInv
  <2> QED BY <2>3 DEF RegistryInv
<1> QED BY <1>1, <1>2, <1>3, <1>4

\* A worker that hangs changes nothing else.
LEMMA StutterKeeps ==
  ASSUME LifeInv, UNCHANGED <<config, mainVars, sharedVars, pipeVars, wpc>>
  PROVE  LifeInv'
BY DEF LifeInv, Kinds, FlagInv, CaptureInv, RegistryInv, Exited, mainVars, sharedVars, pipeVars

\* The invariant is inductive.
LEMMA StepLife == LifeInv /\ [Next]_vars => LifeInv'
<1> SUFFICES ASSUME LifeInv, [Next]_vars PROVE LifeInv'
  OBVIOUS
<1>1. CASE Main
  BY <1>1, StartAudioKeeps, SpawnWorkerKeeps, OutputFailsKeeps, BootstrappedKeeps,
     HostShutdownKeeps, DropInputKeeps, SignalWorkersKeeps, JoinKeeps, PollAgainKeeps,
     ShutdownCompleteKeeps DEF Main
<1>2. CASE HostClears \/ HostStops \/ StreamFails \/ StreamDelivers \/ TimedOut
  BY <1>2, HostClearsKeeps, HostShutdownKeeps, StreamFailsKeeps, StreamDeliversKeeps, JoinKeeps
<1>3. CASE \E w \in Workers : Hangs(w)
  BY <1>3, StutterKeeps DEF Hangs
<1>4. CASE Generator \/ Analyser \/ Mapper
  <2>1. {"generator", "mapper"} \subseteq Workers /\ "done" \in Leaving
    BY DEF Workers, Leaving
  <2> QED BY <1>4, <2>1, LoopCheckKeeps, GeneratorPushKeeps, AnalyserCheckKeeps,
             AnalyserPopKeeps, MapperChangedKeeps, BodyKeeps DEF Generator, Analyser, Mapper
<1>5. CASE Midi \/ Server \/ Osc \/ Frames
  <2>1. /\ {"midi", "websocket", "osc", "frames"} \subseteq Workers
        /\ {"done", "closing"} \subseteq Leaving
    BY DEF Workers, OutputKinds, Leaving
  <2> QED BY <1>5, <2>1, LoopCheckKeeps, BodyKeeps, ServerClosesKeeps, OscChangedKeeps,
             FramesChangedKeeps DEF Midi, Server, Osc, Frames
<1>6. CASE UNCHANGED vars
  BY <1>6, StutterKeeps DEF vars
<1> QED BY <1>1, <1>2, <1>3, <1>4, <1>5, <1>6 DEF Next

\* LifeInv holds throughout.
LEMMA LifeInvariant == Spec => []LifeInv
BY InitLife, StepLife, PTL DEF Spec

\* No worker leaves, and so closes a channel, while the engine runs.
THEOREM StaysWhileRunning == Spec => []NoEarlyExit
<1>1. LifeInv => NoEarlyExit
  BY DEF LifeInv, FlagInv, NoEarlyExit, Exited, Leaving
<1> QED BY <1>1, LifeInvariant, PTL

\* A shutdown that drops the input before it clears the flag leaves no sample
\* in the ring when the analyser has left.
THEOREM RingDrained == Spec => []CaptureDrained
<1>1. LifeInv => CaptureDrained
  BY DEF LifeInv, CaptureInv, CaptureDrained
<1> QED BY <1>1, LifeInvariant, PTL

\* When main is done the stream is gone and every worker has exited or was
\* given up, also when bootstrap failed half way.
THEOREM AllAccountedFor == Spec => []NothingLeftBehind
<1>1. LifeInv => NothingLeftBehind
  BY DEF LifeInv, RegistryInv, NothingLeftBehind, Started
<1> QED BY <1>1, LifeInvariant, PTL
-----------------------------------------------------------------------------
(***************************************************************************)
(* The registry: who is in it, in which order, and how often.              *)
(***************************************************************************)

\* Sequences without repetition and without a common element, one after the
\* other.
LEMMA CatInjective ==
  ASSUME NEW A, NEW B, A \cap B = {}, NEW s \in Seq(A), NEW t \in Seq(B),
         IsInjective(s), IsInjective(t)
  PROVE  s \o t \in Seq(A \cup B) /\ IsInjective(s \o t)
<1>1. s \o t \in Seq(A \cup B) /\ Len(s \o t) = Len(s) + Len(t)
  OBVIOUS
<1>2. ASSUME NEW i \in 1..Len(s \o t)
      PROVE  \/ i \in 1..Len(s) /\ (s \o t)[i] = s[i] /\ s[i] \in A
             \/ i - Len(s) \in 1..Len(t) /\ (s \o t)[i] = t[i - Len(s)] /\ t[i - Len(s)] \in B
  BY <1>1
<1>3. ASSUME NEW i \in 1..Len(s \o t), NEW j \in 1..Len(s \o t), (s \o t)[i] = (s \o t)[j]
      PROVE  i = j
  <2>1. CASE i \in 1..Len(s) /\ j \in 1..Len(s) /\ s[i] = s[j]
    BY <2>1 DEF IsInjective
  <2>2. CASE /\ i - Len(s) \in 1..Len(t) /\ j - Len(s) \in 1..Len(t)
             /\ t[i - Len(s)] = t[j - Len(s)]
    BY <2>2 DEF IsInjective
  <2> QED BY <1>2, <1>3, <2>1, <2>2
<1> QED BY <1>1, <1>3 DEF IsInjective

\* No worker is twice in the order of a configuration.
LEMMA OrderInjective ==
  ASSUME Kinds
  PROVE  IsInjective(StartOrder)
<1> DEFINE first == IF config.source = "calibration" THEN <<"generator">> ELSE << >>
           third == IF config.midi = "none" THEN << >> ELSE <<"midi">>
           two   == first \o <<"analyser", "mapper">>
           four  == two \o third
<1>1. first \in Seq({"generator"}) /\ IsInjective(first)
  <2>1. << >> \in Seq({"generator"}) /\ IsInjective(<< >>)
    BY DEF IsInjective
  <2>2. <<"generator">> \in Seq({"generator"}) /\ IsInjective(<<"generator">>)
    BY DEF IsInjective
  <2> QED BY <2>1, <2>2
<1>2. <<"analyser", "mapper">> \in Seq({"analyser", "mapper"}) /\ IsInjective(<<"analyser", "mapper">>)
  BY DEF IsInjective
<1>3. third \in Seq({"midi"}) /\ IsInjective(third)
  <2>1. << >> \in Seq({"midi"}) /\ IsInjective(<< >>)
    BY DEF IsInjective
  <2>2. <<"midi">> \in Seq({"midi"}) /\ IsInjective(<<"midi">>)
    BY DEF IsInjective
  <2> QED BY <2>1, <2>2
<1>4. config.outputs \in Seq(OutputKinds) /\ IsInjective(config.outputs)
  BY OutputsAssumption DEF Kinds
<1>5. StartOrder = four \o config.outputs
  BY DEF StartOrder
<1> HIDE DEF first, third
<1>6. {"generator"} \cap {"analyser", "mapper"} = {}
  OBVIOUS
<1>7. two \in Seq({"generator"} \cup {"analyser", "mapper"}) /\ IsInjective(two)
  BY <1>1, <1>2, <1>6, CatInjective
<1> HIDE DEF two
<1>8. ({"generator"} \cup {"analyser", "mapper"}) \cap {"midi"} = {}
  OBVIOUS
<1>9. /\ four \in Seq(({"generator"} \cup {"analyser", "mapper"}) \cup {"midi"})
      /\ IsInjective(four)
  BY <1>3, <1>7, <1>8, CatInjective
<1> HIDE DEF four
<1>10. (({"generator"} \cup {"analyser", "mapper"}) \cup {"midi"}) \cap OutputKinds = {}
  BY DEF OutputKinds
<1> QED BY <1>4, <1>5, <1>9, <1>10, CatInjective

\* Those that were started are the first of the order, and of them the last
\* are still to be joined, in that order.
Count == Cardinality(Started)

OrderInv ==
  /\ Count <= Len(StartOrder)
  /\ Started = {StartOrder[i] : i \in 1..Count}
  /\ \E k \in 0..Count :
       /\ workers = SubSeq(StartOrder, k + 1, Count)
       /\ main \in {"audio", "spawn"} => k = 0

\* A step that starts no worker and joins none.
LEMMA OrderKept ==
  ASSUME OrderInv, Started' = Started, UNCHANGED <<config, workers>>,
         main' \in {"audio", "spawn"} => main \in {"audio", "spawn"}
  PROVE  OrderInv'
<1>1. StartOrder' = StartOrder
  BY DEF StartOrder
<1> QED BY <1>1 DEF OrderInv, Count

\* A worker that moves was started and stays so.
LEMMA MoveStarted ==
  ASSUME Kinds, NEW w \in Workers, wpc[w] # "off", NEW pc, pc # "off", Move(w, pc)
  PROVE  Started' = Started
BY DEF Kinds, Move, Started

\* The next worker of the order is started and registered, for the first time.
LEMMA SpawnOrder ==
  ASSUME LifeInv, OrderInv, SpawnWorker
  PROVE  OrderInv'
<1>1. Count \in Nat /\ Count + 1 \in 1..Len(StartOrder) /\ StartOrder \in Seq(Workers)
  BY StartedCount, OrderFacts DEF LifeInv, SpawnWorker, Count
<1>2. workers = SubSeq(StartOrder, 1, Count) /\ Started = {StartOrder[i] : i \in 1..Count}
  <2>1. main = "spawn"
    BY DEF SpawnWorker
  <2>2. \E k \in 0..Count : workers = SubSeq(StartOrder, k + 1, Count) /\ k = 0
    BY <2>1 DEF OrderInv
  <2>3. workers = SubSeq(StartOrder, 0 + 1, Count)
    BY <2>2, Zenon
  <2>4. SubSeq(StartOrder, 0 + 1, Count) = SubSeq(StartOrder, 1, Count)
    OBVIOUS
  <2>5. Started = {StartOrder[i] : i \in 1..Count}
    BY Zenon DEF OrderInv
  <2> QED BY <2>3, <2>4, <2>5, Zenon
<1>3. NextWorker = StartOrder[Count + 1] /\ NextWorker \in Workers
  <2>1. NextWorker \in Workers
    BY NextFacts DEF LifeInv, SpawnWorker
  <2> QED BY <2>1 DEF NextWorker, Count
<1>4. NextWorker \notin Started
  BY <1>1, <1>2, <1>3, OrderInjective DEF IsInjective, LifeInv
<1>5. Started' = Started \cup {NextWorker}
  BY <1>3 DEF LifeInv, Kinds, SpawnWorker, Started
<1>6. Count' = Count + 1
  <2>1. Cardinality(Started') = Cardinality(Started) + 1
    BY <1>4, <1>5, StartedCount, FS_AddElement
  <2> QED BY <2>1 DEF Count
<1>7. workers' = SubSeq(StartOrder, 1, Count + 1)
  BY <1>1, <1>2, <1>3 DEF SpawnWorker, Registered
<1>8. StartOrder' = StartOrder
  BY DEF SpawnWorker, StartOrder
<1>9. Started' = {StartOrder[i] : i \in 1..(Count + 1)}
  BY <1>1, <1>2, <1>3, <1>5
<1>10. \E k \in 0..(Count + 1) : workers' = SubSeq(StartOrder, k + 1, Count + 1) /\ k = 0
  BY <1>1, <1>7
<1> QED BY <1>1, <1>6, <1>8, <1>9, <1>10 DEF OrderInv

\* The first of the rest leaves the registry.
LEMMA JoinOrder ==
  ASSUME LifeInv, OrderInv, Joined \/ TimedOut
  PROVE  OrderInv'
<1>1. Count \in Nat /\ Count <= Len(StartOrder) /\ StartOrder \in Seq(Workers)
  BY StartedCount, OrderFacts DEF LifeInv, OrderInv, Count
<1>2. PICK k \in 0..Count : workers = SubSeq(StartOrder, k + 1, Count)
  BY DEF OrderInv
<1>3. workers # << >> /\ workers' = Tail(workers) /\ main' = "join"
  BY DEF Joined, TimedOut
<1>4. k + 1 \in 0..Count
  BY <1>1, <1>2, <1>3
<1>5. workers' = SubSeq(StartOrder, (k + 1) + 1, Count)
  BY <1>1, <1>2, <1>3, <1>4
<1>6. Started' = Started /\ StartOrder' = StartOrder
  BY DEF Joined, TimedOut, Started, StartOrder
<1>7. Count' = Count
  BY <1>6 DEF Count
<1>8. \E j \in 0..Count : workers' = SubSeq(StartOrder, j + 1, Count)
  BY <1>4, <1>5
<1>9. main' \notin {"audio", "spawn"}
  BY <1>3
<1> QED BY <1>6, <1>7, <1>8, <1>9 DEF OrderInv

\* The registry keeps its order.
LEMMA StepOrder == LifeInv /\ OrderInv /\ [Next]_vars => OrderInv'
<1> SUFFICES ASSUME LifeInv, OrderInv, [Next]_vars PROVE OrderInv'
  OBVIOUS
<1> USE DEF mainVars, At
<1>1. CASE SpawnWorker \/ Joined \/ TimedOut
  BY <1>1, SpawnOrder, JoinOrder
<1>2. ASSUME UNCHANGED <<config, wpc, workers>>,
             main' \in {"audio", "spawn"} => main \in {"audio", "spawn"}
      PROVE  OrderInv'
  BY <1>2, OrderKept DEF Started
<1>3. CASE \/ StartAudio \/ OutputFails \/ Bootstrapped \/ HostNotices \/ DropInput
          \/ SignalWorkers \/ PollAgain \/ ShutdownComplete
  BY <1>2, <1>3 DEF StartAudio, OutputFails, TearDown, Bootstrapped, HostNotices, EnterShutdown,
     DropInput, SignalWorkers, PollAgain, ShutdownComplete
<1>4. CASE \/ HostClears \/ HostStops \/ StreamFails \/ StreamDelivers
          \/ \E w \in Workers : Hangs(w)
  BY <1>2, <1>4 DEF HostClears, HostStops, EnterShutdown, StreamFails, StreamDelivers, Hangs
<1>5. CASE UNCHANGED vars
  BY <1>2, <1>5 DEF vars
<1>6. ASSUME NEW w \in Workers, NEW pc, wpc[w] # "off", pc # "off", Move(w, pc),
             UNCHANGED <<config, mainVars>>
      PROVE  OrderInv'
  BY <1>6, MoveStarted, OrderKept DEF LifeInv
<1>7. {"generator", "analyser", "mapper", "midi", "websocket", "osc", "frames"} \subseteq Workers
  BY DEF Workers, OutputKinds
<1>8. ASSUME NEW w \in Workers, NEW last, last # "off", LoopCheck(w, last)
      PROVE  OrderInv'
  BY <1>6, <1>8 DEF LoopCheck
<1>9. CASE Generator \/ Analyser
  BY <1>6, <1>7, <1>8, <1>9 DEF Generator, GeneratorPush, Analyser, AnalyserCheck, WhileRunning,
     UnlessEmpty, AnalyserPop
<1>10. CASE Mapper \/ Midi
  BY <1>6, <1>7, <1>8, <1>10 DEF Mapper, MapperChanged, MapperTick, Changed, Midi, MidiWaits
<1>11. CASE Server \/ Osc \/ Frames
  BY <1>6, <1>7, <1>8, <1>11 DEF Server, ServerAccepts, ServerCloses, Osc, OscChanged, Frames,
     FramesChanged, Changed
<1> QED BY <1>1, <1>3, <1>4, <1>5, <1>9, <1>10, <1>11 DEF Next, Main

\* The workers are joined in the order in which they were started, so that each
\* is waited for after the one that feeds it.
THEOREM JoinedInStartOrder == Spec => []OrderInv
<1>1. Init => OrderInv
  <2> SUFFICES ASSUME Init PROVE OrderInv
    OBVIOUS
  <2>1. Started = {} /\ Count = 0
    BY FS_EmptySet DEF Init, Started, Count
  <2>2. StartOrder \in Seq(Workers)
    BY InitLife, OrderFacts DEF LifeInv
  <2>3. workers = SubSeq(StartOrder, 0 + 1, 0)
    BY <2>2 DEF Init
  <2> QED BY <2>1, <2>2, <2>3 DEF OrderInv
<1>2. LifeInv /\ OrderInv /\ [Next]_vars => OrderInv'
  BY StepOrder
<1> QED BY <1>1, <1>2, LifeInvariant, PTL DEF Spec

\* The registry holds workers, none of them twice.
LEMMA RegistryTyped ==
  ASSUME Kinds, OrderInv
  PROVE  workers \in Seq(Workers) /\ IsInjective(workers)
<1>1. /\ Count \in Nat /\ Count <= Len(StartOrder)
      /\ StartOrder \in Seq(Workers) /\ IsInjective(StartOrder)
  BY StartedCount, OrderFacts, OrderInjective DEF Count, OrderInv
<1>2. PICK k \in 0..Count : workers = SubSeq(StartOrder, k + 1, Count)
  BY DEF OrderInv
<1>3. ASSUME NEW i \in 1..Len(workers)
      PROVE  k + i \in 1..Len(StartOrder) /\ workers[i] = StartOrder[k + i]
  BY <1>1, <1>2
<1>4. ASSUME NEW i \in 1..Len(workers), NEW j \in 1..Len(workers), workers[i] = workers[j]
      PROVE  i = j
  <2>1. StartOrder[k + i] = StartOrder[k + j]
    BY <1>3, <1>4
  <2>2. k + i \in 1..Len(StartOrder) /\ k + j \in 1..Len(StartOrder)
    BY <1>3
  <2>3. k + i = k + j
    BY <1>1, <2>1, <2>2 DEF IsInjective
  <2> QED BY <1>2, <2>3
<1> QED BY <1>4 DEF IsInjective, Kinds

\* The types of what neither the flag nor the registry depends on.
OtherTypes ==
  /\ main \in {"audio", "spawn", "serve", "drop", "clear", "join", "end"}
  /\ input \in {"none", "live", "dropped"}
  /\ rawNew \subseteq Workers /\ detached \subseteq Workers /\ hung \subseteq Workers
  /\ polled \in BOOLEAN /\ shutdown_started \in BOOLEAN /\ token \in BOOLEAN
  /\ displayNew \in BOOLEAN /\ mapping \in BOOLEAN

LEMMA StepOther == Kinds /\ OtherTypes /\ [Next]_vars => OtherTypes'
<1> SUFFICES ASSUME Kinds, OtherTypes, [Next]_vars PROVE OtherTypes'
  OBVIOUS
<1> USE DEF OtherTypes, mainVars, sharedVars, pipeVars
<1>1. CASE StartAudio \/ SpawnWorker \/ OutputFails \/ Bootstrapped
  BY <1>1 DEF StartAudio, SpawnWorker, OutputFails, TearDown, Bootstrapped
<1>2. CASE HostClears \/ HostNotices \/ HostStops \/ StreamFails \/ StreamDelivers
  BY <1>2 DEF HostClears, HostNotices, HostStops, EnterShutdown, StreamFails, StreamDelivers
<1>3. CASE DropInput \/ SignalWorkers \/ Joined \/ ShutdownComplete
  BY <1>3 DEF DropInput, ReleaseInput, SignalWorkers, Joined, ShutdownComplete
<1>4. CASE PollAgain
  BY <1>4 DEF PollAgain, Unpark
<1>5. CASE TimedOut
  <2>1. Head(workers) \in Workers
    BY <1>5 DEF TimedOut, Kinds
  <2> QED BY <1>5, <2>1 DEF TimedOut
<1>6. CASE \E w \in Workers : Hangs(w)
  BY <1>6 DEF Hangs
<1>7. ASSUME NEW w, NEW last, LoopCheck(w, last)
      PROVE  OtherTypes'
  BY <1>7 DEF LoopCheck
<1>8. CASE Generator \/ Mapper \/ Midi
  BY <1>7, <1>8 DEF Generator, GeneratorPush, Mapper, MapperChanged, MapperTick, Midi, MidiWaits
<1>9. CASE Analyser
  BY <1>9 DEF Analyser, AnalyserCheck, AnalyserPop, Workers, OutputKinds
<1>10. CASE Server \/ Osc \/ Frames
  BY <1>7, <1>10 DEF Server, ServerAccepts, ServerCloses, Osc, OscChanged, Frames, FramesChanged
<1>11. CASE UNCHANGED vars
  BY <1>11 DEF vars
<1> QED BY <1>1, <1>2, <1>3, <1>4, <1>5, <1>6, <1>8, <1>9, <1>10, <1>11 DEF Next, Main

\* Whatever the engine does, its state has its types, and no handle is in the
\* registry twice.
THEOREM TypeCorrect == Spec => []TypeOK
<1>1. Init => OtherTypes
  BY DEF Init, OtherTypes
<1>2. Spec => []Kinds
  <2>1. LifeInv => Kinds
    BY DEF LifeInv
  <2> QED BY <2>1, LifeInvariant, PTL
<1>3. Spec => []OtherTypes
  BY <1>1, <1>2, StepOther, PTL DEF Spec
<1>4. Kinds /\ OrderInv /\ OtherTypes => TypeOK
  BY RegistryTyped DEF Kinds, OtherTypes, TypeOK, Leaving
<1> QED BY <1>2, <1>3, <1>4, JoinedInStartOrder, PTL
=============================================================================
