----------------------------- MODULE CaptureRing -----------------------------
(***************************************************************************)
(* The capture path: the audio callback (or the calibration generator)     *)
(* pushes interleaved samples into a lock-free single-producer ring, and   *)
(* the analyser thread pops them into its transfer buffer and analyses     *)
(* whole frames, carrying a partial one over.  Nothing marks where a frame *)
(* begins, so one torn frame would swap every later channel.               *)
(*                                                                         *)
(* A sample is the pair of its hardware frame and its channel: the DSP and *)
(* the payload are left out.  The ring publishes a push_slice at once and  *)
(* a try_push one sample at a time.                                        *)
(***************************************************************************)
EXTENDS Naturals, Sequences, FiniteSetsExt

CONSTANTS
  Producers,   \* of the runs: "all", "selected", "generator"
  Hw,          \* hardware channels
  Selected,    \* the channels that the "selected" callback keeps, sorted
  Capacity,    \* of the ring: a power of two, whatever the channel count
  ChunkFrames, \* frames the transfer buffer holds
  MaxDelivery, \* bound: frames of one callback
  MaxFrames    \* bound: frames delivered in all

ASSUME ShapeAssumption ==
  /\ Producers \subseteq {"all", "selected", "generator"}
  /\ Hw \in Nat \ {0} /\ Capacity \in Nat /\ ChunkFrames \in Nat \ {0}
  /\ Selected \in Seq(1..Hw) /\ Selected # << >>
  /\ MaxDelivery \in Nat \ {0} /\ MaxFrames \in Nat

VARIABLES
  producer,   \* who fills the ring in this run
  keep_running,
  stream,     \* the input device's handle: live or dropped
  ppc,        \* where the producer is
  data,       \* samples of its delivery that it has not dealt with
  room,       \* samples of it that it has found room for
  index,      \* position of the next selected sample of the frame
  captured,   \* frames delivered so far
  ring,       \* the ring's contents
  apc,        \* where the analyser is
  carried,    \* the first pending samples of transfer_buffer
  accepted,   \* history: every sample pushed
  analysed,   \* history: every sample analysed
  cutLive     \* history: a stop request or a stream error came under a live stream

producerVars == <<stream, ppc, data, room, index, captured, accepted>>
analyserVars == <<apc, carried, analysed>>
vars == <<producer, keep_running, cutLive, ring, producerVars, analyserVars>>

\* The channels of an analysed frame, in their order, and how many they are.
Order == IF producer = "selected" THEN Selected ELSE [c \in 1..Hw |-> c]
channels == Len(Order)
TransferSize == ChunkFrames * channels

Init ==
  /\ producer \in Producers
  /\ keep_running = TRUE
  /\ stream = "live"
  /\ ppc = "idle"
  /\ data = << >>
  /\ room = 0
  /\ index = 1
  /\ captured = 0
  /\ ring = << >>
  /\ apc = "check"
  /\ carried = << >>
  /\ accepted = << >>
  /\ analysed = << >>
  /\ cutLive = FALSE

vacant_len == Capacity - Len(ring)
Drop(s, n) == SubSeq(s, n + 1, Len(s))
WholeFrames(n) == (n \div Hw) * Hw

\* Interleaved samples of frames first+1, first+2, ...
Interleaved(first, n) ==
  [i \in 1..n |-> [frame |-> first + 1 + ((i - 1) \div Hw), ch |-> 1 + ((i - 1) % Hw)]]

Push(samples) ==
  /\ ring' = ring \o samples
  /\ accepted' = accepted \o samples
-----------------------------------------------------------------------------
(***************************************************************************)
(* The producer                                                            *)
(***************************************************************************)
\* The callback receives frames, perhaps with a ragged tail that push's
\* truncation is there for; the generator fills whole frames while it runs.
Deliver(frames, tail) ==
  /\ ppc = "idle"
  /\ \/ producer = "generator" /\ keep_running /\ tail = 0
     \/ producer # "generator" /\ stream = "live"
  /\ captured' = captured + frames + (IF tail = 0 THEN 0 ELSE 1)
  /\ captured' <= MaxFrames
  /\ data' = Interleaved(captured, frames * Hw + tail)
  /\ ppc' = IF producer = "selected" THEN "frame" ELSE "slice"
  /\ UNCHANGED <<producer, keep_running, cutLive, ring, stream, room, index,
                 accepted, analyserVars>>

\* Mutant: the writable span is not cut to whole frames.
AllRoom == Min({WholeFrames(Len(data)), vacant_len})

\* What push_slice will take: whole frames of what came and of what fits.
SliceRoom == Min({WholeFrames(Len(data)), WholeFrames(vacant_len)})

MeasureSlice ==
  /\ ppc = "slice"
  /\ room' = SliceRoom
  /\ ppc' = "push"
  /\ UNCHANGED <<producer, keep_running, cutLive, ring, stream, data, index, captured,
                 accepted, analyserVars>>

PushSlice ==
  /\ ppc = "push"
  /\ Push(SubSeq(data, 1, room))
  /\ data' = << >>
  /\ ppc' = "idle"
  /\ UNCHANGED <<producer, keep_running, cutLive, stream, room, index,
                 captured, analyserVars>>

\* All or nothing per selected frame.
FrameFits == vacant_len >= channels

\* The next frame of chunks_exact: dropped when it does not fit.
AdmitFrame ==
  /\ ppc = "frame"
  /\ IF Len(data) < Hw
       THEN ppc' = "idle" /\ data' = << >>
       ELSE IF FrameFits
              THEN ppc' = "sample" /\ UNCHANGED data
              ELSE data' = Drop(data, Hw) /\ UNCHANGED ppc
  /\ index' = 1
  /\ UNCHANGED <<producer, keep_running, cutLive, ring, stream, room, captured,
                 accepted, analyserVars>>

\* try_push of one selected sample; its result is ignored.
PushSample ==
  /\ ppc = "sample"
  /\ IF vacant_len > 0
       THEN Push(<<data[Selected[index]]>>)
       ELSE UNCHANGED <<ring, accepted>>
  /\ IF index < channels
       THEN index' = index + 1 /\ UNCHANGED <<ppc, data>>
       ELSE index' = 1 /\ ppc' = "frame" /\ data' = Drop(data, Hw)
  /\ UNCHANGED <<producer, keep_running, cutLive, stream, room, captured, analyserVars>>

\* Dropping the handle waits for the callback that is running.
DropStream ==
  /\ producer # "generator"
  /\ stream = "live"
  /\ ppc = "idle"
  /\ stream' = "dropped"
  /\ UNCHANGED <<producer, keep_running, cutLive, ring, ppc, data, room, index, captured,
                 accepted, analyserVars>>

\* A stop request of a host, or the stream's error: shutdown has yet to come.
ClearFlag ==
  /\ keep_running /\ stream = "live"
  /\ keep_running' = FALSE
  /\ cutLive' = TRUE
  /\ UNCHANGED <<producer, ring, producerVars, analyserVars>>

\* Mutant: shutdown clears the flag before it drops the input.
AnyTime == TRUE

\* self.input_device.take() has returned; a calibration run holds no device.
InputReleased == producer = "generator" \/ stream = "dropped"

\* shutdown's own clearing of the flag.
SignalWorkers ==
  /\ keep_running /\ InputReleased
  /\ keep_running' = FALSE
  /\ UNCHANGED <<producer, cutLive, ring, producerVars, analyserVars>>
-----------------------------------------------------------------------------
(***************************************************************************)
(* The analyser                                                            *)
(***************************************************************************)
\* Mutant: the negation of is_empty is missing.
ExitUnlessEmpty == IF ring = << >> THEN "pop" ELSE "done"

\* The flag was clear: go on while samples are queued.
ExitWhenEmpty == IF ring = << >> THEN "done" ELSE "pop"

LoopCheck ==
  /\ \/ apc = "check" /\ apc' = (IF keep_running THEN "pop" ELSE "empty")
     \/ apc = "empty" /\ apc' = ExitWhenEmpty
  /\ UNCHANGED <<producer, keep_running, cutLive, ring, producerVars, carried, analysed>>

\* Mutant: the partial frame at the end of a chunk is left behind.
DropPartial(total, aligned) == << >>

\* copy_within: the samples after the last whole frame move to the front.
CarryOver(total, aligned) == Drop(total, aligned)

\* pop_slice after the carried samples, then process: the whole frames are
\* analysed and published.
PopAndProcess ==
  /\ apc = "pop"
  /\ LET popped  == Min({Len(ring), TransferSize - Len(carried)})
         total   == carried \o SubSeq(ring, 1, popped)
         aligned == Len(total) - (Len(total) % channels)
     IN /\ ring' = Drop(ring, popped)
        /\ analysed' = analysed \o SubSeq(total, 1, aligned)
        /\ carried' = IF popped = 0 THEN carried ELSE CarryOver(total, aligned)
  /\ apc' = "check"
  /\ UNCHANGED <<producer, keep_running, cutLive, producerVars>>
-----------------------------------------------------------------------------
Analyser == LoopCheck \/ PopAndProcess
ProducerStep == MeasureSlice \/ PushSlice \/ AdmitFrame \/ PushSample

Next ==
  \/ \E frames \in 0..MaxDelivery, tail \in 0..(Hw - 1) : Deliver(frames, tail)
  \/ ProducerStep \/ DropStream \/ ClearFlag \/ SignalWorkers \/ Analyser

\* The analyser thread and a callback that has begun keep running.
Spec == Init /\ [][Next]_vars /\ WF_vars(Analyser) /\ WF_vars(ProducerStep)
-----------------------------------------------------------------------------
(***************************************************************************)
(* Properties                                                              *)
(***************************************************************************)
Samples == [frame : 1..MaxFrames, ch : 1..Hw]

\* The state has its types, and the ring and the transfer buffer their sizes.
TypeOK ==
  /\ producer \in Producers /\ keep_running \in BOOLEAN /\ cutLive \in BOOLEAN
  /\ stream \in {"live", "dropped"}
  /\ ppc \in {"idle", "slice", "push", "frame", "sample"}
  /\ apc \in {"check", "empty", "pop", "done"}
  /\ {data, ring, carried, accepted, analysed} \subseteq Seq(Samples)
  /\ Len(ring) <= Capacity /\ Len(carried) < channels
  /\ captured \in 0..MaxFrames /\ room \in Nat /\ index \in 1..channels

\* What the analyser is handed is whole frames, each with its channels in
\* order and from one instant, and later frames after earlier ones: overflow,
\* a ring size that no frame divides and a pop in the middle of a selected
\* frame never rotate the channels.
ChannelAligned ==
  /\ Len(analysed) % channels = 0
  /\ \A i \in 1..Len(analysed) :
       LET position == (i - 1) % channels
       IN /\ analysed[i].ch = Order[position + 1]
          /\ analysed[i].frame = analysed[i - position].frame
          /\ i > channels => analysed[i].frame > analysed[i - channels].frame

\* Every sample that was accepted is queued, carried or analysed, once and in
\* the order of capture.
NothingLost == accepted = analysed \o carried \o ring

\* Unless a stop request or a stream error cleared the flag under the stream,
\* the analyser leaves having analysed all that was captured, with no partial
\* frame in hand: shutdown clears the flag only after the stream is dropped
\* (app.rs:335).
DrainedAtExit ==
  (producer # "generator" /\ apc = "done" /\ ~cutLive) => analysed = accepted

\* A drain ends: once the stream is gone and the flag clear, the analyser
\* leaves, whatever was queued.
DrainEnds == (~keep_running /\ stream = "dropped") ~> apc = "done"
=============================================================================
