------------------------------ MODULE MidiState ------------------------------
(***************************************************************************)
(* The MIDI atomics of AppState.  One writer (the MIDI backend's callback, *)
(* or the synthetic clock) turns status bytes into four atomics; the       *)
(* mapper reads and clears a snapshot of two for each display frame; the   *)
(* frame writer reads three for each frame of the region.  Nothing locks,  *)
(* so every access is a step of its own.                                   *)
(*                                                                         *)
(* A stored transport event carries its number and the number of Starts so *)
(* far, a stored step count the number of the Start it counts from, and a  *)
(* stored event count the number of the event it counted last: history     *)
(* that the program does not have and no guard reads.                      *)
(***************************************************************************)
EXTENDS Naturals

CONSTANTS
  MIDI_CLOCK_TICKS_PER_STEP,
  WordBits,      \* width of the counters
  MaxBytes       \* bound: bytes received

ASSUME WidthAssumption ==
  /\ MIDI_CLOCK_TICKS_PER_STEP \in Nat \ {0}
  /\ WordBits \in Nat /\ MaxBytes \in Nat

Transports == {"start", "stop", "continue"}
Bytes == Transports \cup {"clock"}

NoEvent == [code |-> "none", number |-> 0, start |-> 0]

VARIABLES
  source,                 \* device, or clock: the synthetic one
  midi_last_transport,    \* an event, cleared by the mapper
  midi_transport_latest,  \* an event
  midi_transport_count,   \* a value, with the number of the last event counted
  midi_steps,             \* a value, with the number of the Start it counts from
  ticks_since_step,       \* the writer's own
  wpc,                    \* what the writer does next
  code,                   \* the transport event it is recording
  mpc, taken,             \* the mapper, and what it has read so far
  fpc, seen,              \* the frame writer, and what it has read so far
  snapshot,               \* the latest MIDI snapshot the mapper published
  frame,                  \* the latest MIDI fields the frame writer published
  bytes, events, starts,  \* history: bytes, transport events, Starts so far
  ticks,                  \* history: clock bytes since the last Start
  delivered               \* history: number of the last event a snapshot took

stateVars  == <<midi_last_transport, midi_transport_latest,
                midi_transport_count, midi_steps>>
writerVars == <<source, ticks_since_step, wpc, code, bytes, events, starts, ticks>>
mapperVars == <<mpc, taken, snapshot, delivered>>
frameVars  == <<fpc, seen, frame>>
vars == <<stateVars, writerVars, mapperVars, frameVars>>

Word(n) == n % 2^WordBits
NoSteps == [value |-> 0, since |-> 0]
NoCount == [value |-> 0, number |-> 0]

\* A reader's locals before its first load.
NothingRead == [transport |-> NoEvent, steps |-> NoSteps]
NothingSeen == [steps |-> NoSteps, count |-> NoCount]

Init ==
  /\ source \in {"device", "clock"}
  /\ midi_last_transport = NoEvent
  /\ midi_transport_latest = NoEvent
  /\ midi_transport_count = NoCount
  /\ midi_steps = NoSteps
  /\ ticks_since_step = 0
  /\ wpc = "idle"
  /\ code = NoEvent
  /\ mpc = "first"
  /\ taken = NothingRead
  /\ fpc = "steps"
  /\ seen = NothingSeen
  /\ snapshot = NothingRead
  /\ frame = [steps |-> NoSteps, count |-> NoCount, last |-> NoEvent]
  /\ bytes = 0 /\ events = 0 /\ starts = 0 /\ ticks = 0 /\ delivered = 0
-----------------------------------------------------------------------------
(***************************************************************************)
(* The writer: record_byte and record_transport                            *)
(***************************************************************************)
\* A device sends what it likes; the synthetic clock sends Start, then ticks.
Receive(byte) ==
  /\ wpc = "idle"
  /\ bytes < MaxBytes
  /\ bytes' = bytes + 1
  /\ source = "clock" => byte = (IF bytes = 0 THEN "start" ELSE "clock")

\* Mutant: a Start keeps the ticks of the step in progress.
KeepTicks == ticks_since_step

\* A Start begins a new step.
StartTicks == 0

\* Start: reset the counters before the event becomes visible.
RecordStart ==
  /\ Receive("start")
  /\ ticks_since_step' = StartTicks
  /\ midi_steps' = [value |-> 0, since |-> starts + 1]
  /\ starts' = starts + 1
  /\ ticks' = 0
  /\ events' = events + 1
  /\ code' = [code |-> "start", number |-> events + 1, start |-> starts + 1]
  /\ wpc' = "last"
  /\ UNCHANGED <<source, midi_last_transport, midi_transport_latest,
                 midi_transport_count, mapperVars, frameVars>>

RecordStopOrContinue(byte) ==
  /\ byte \in {"stop", "continue"}
  /\ Receive(byte)
  /\ events' = events + 1
  /\ code' = [code |-> byte, number |-> events + 1, start |-> starts]
  /\ wpc' = "last"
  /\ UNCHANGED <<source, stateVars, ticks_since_step, starts, ticks,
                 mapperVars, frameVars>>

\* The tick that completes a step.
WholeStep(count) == count >= MIDI_CLOCK_TICKS_PER_STEP

RecordClock ==
  /\ Receive("clock")
  /\ ticks' = ticks + 1
  /\ IF WholeStep(ticks_since_step + 1)
       THEN /\ ticks_since_step' = 0
            /\ midi_steps' = [midi_steps EXCEPT !.value = Word(@ + 1)]
       ELSE /\ ticks_since_step' = ticks_since_step + 1
            /\ UNCHANGED midi_steps
  /\ UNCHANGED <<source, midi_last_transport, midi_transport_latest,
                 midi_transport_count, wpc, code, events, starts,
                 mapperVars, frameVars>>

\* record_transport, store by store.
StoreLast ==
  /\ wpc = "last"
  /\ midi_last_transport' = code
  /\ wpc' = "latest"
  /\ UNCHANGED <<source, midi_transport_latest, midi_transport_count, midi_steps,
                 ticks_since_step, code, bytes, events, starts, ticks,
                 mapperVars, frameVars>>

\* midi_transport_count.fetch_add(1), for the event being recorded.
Counted == [value |-> Word(midi_transport_count.value + 1), number |-> code.number]

\* Mutant: the count goes up before the latest event is stored.
CountFirst ==
  IF wpc = "latest"
    THEN midi_transport_count' = Counted /\ UNCHANGED midi_transport_latest
    ELSE midi_transport_latest' = code /\ UNCHANGED midi_transport_count

\* The latest event is stored before the count that announces it.
LatestFirst ==
  IF wpc = "latest"
    THEN midi_transport_latest' = code /\ UNCHANGED midi_transport_count
    ELSE midi_transport_count' = Counted /\ UNCHANGED midi_transport_latest

StoreLatestAndCount ==
  /\ \/ wpc = "latest" /\ wpc' = "count"
     \/ wpc = "count" /\ wpc' = "idle"
  /\ LatestFirst
  /\ UNCHANGED <<source, midi_last_transport, midi_steps, ticks_since_step, code,
                 bytes, events, starts, ticks, mapperVars, frameVars>>
-----------------------------------------------------------------------------
(***************************************************************************)
(* The readers                                                             *)
(***************************************************************************)
TakeEvent ==
  /\ midi_last_transport' = NoEvent
  /\ delivered' = IF midi_last_transport = NoEvent THEN delivered
                                                   ELSE midi_last_transport.number

\* Mutant: the event is loaded, and cleared one step later.
LoadThenClear ==
  \/ /\ mpc = "first"
     /\ mpc' = "second"
     /\ taken' = [transport |-> midi_last_transport, steps |-> NoSteps]
     /\ delivered' = IF midi_last_transport = NoEvent THEN delivered
                                                      ELSE midi_last_transport.number
     /\ UNCHANGED <<midi_last_transport, snapshot>>
  \/ /\ mpc = "second"
     /\ mpc' = "first"
     /\ midi_last_transport' = NoEvent
     /\ snapshot' = [taken EXCEPT !.steps = midi_steps]
     /\ UNCHANGED <<taken, delivered>>

\* Mutant: the steps are loaded before the event is taken.
StepsFirst ==
  \/ /\ mpc = "first"
     /\ mpc' = "second"
     /\ taken' = [transport |-> NoEvent, steps |-> midi_steps]
     /\ UNCHANGED <<midi_last_transport, delivered, snapshot>>
  \/ /\ mpc = "second"
     /\ mpc' = "first"
     /\ TakeEvent
     /\ snapshot' = [taken EXCEPT !.transport = midi_last_transport]
     /\ UNCHANGED taken

\* read_midi_snapshot: swap the event for none, then load the steps.
SwapThenLoad ==
  \/ /\ mpc = "first"
     /\ mpc' = "second"
     /\ TakeEvent
     /\ taken' = [transport |-> midi_last_transport, steps |-> NoSteps]
     /\ UNCHANGED snapshot
  \/ /\ mpc = "second"
     /\ mpc' = "first"
     /\ snapshot' = [taken EXCEPT !.steps = midi_steps]
     /\ taken' = NothingRead
     /\ UNCHANGED <<midi_last_transport, delivered>>

\* Once per display frame.
ReadMidiSnapshot ==
  /\ SwapThenLoad
  /\ UNCHANGED <<midi_transport_latest, midi_transport_count, midi_steps,
                 writerVars, frameVars>>

\* The frame writer's three loads; the last completes the published fields.
LoadFrameSteps ==
  /\ fpc = "steps"
  /\ seen' = [seen EXCEPT !.steps = midi_steps]
  /\ fpc' = "count"
  /\ UNCHANGED <<stateVars, writerVars, mapperVars, frame>>

LoadFrameCount ==
  /\ fpc = "count"
  /\ seen' = [seen EXCEPT !.count = midi_transport_count]
  /\ fpc' = "last"
  /\ UNCHANGED <<stateVars, writerVars, mapperVars, frame>>

LoadFrameLatest ==
  /\ fpc = "last"
  /\ frame' = [steps |-> seen.steps, count |-> seen.count, last |-> midi_transport_latest]
  /\ seen' = NothingSeen
  /\ fpc' = "steps"
  /\ UNCHANGED <<stateVars, writerVars, mapperVars>>
-----------------------------------------------------------------------------
Next ==
  \/ RecordStart \/ RecordClock \/ \E byte \in Bytes : RecordStopOrContinue(byte)
  \/ StoreLast \/ StoreLatestAndCount
  \/ ReadMidiSnapshot
  \/ LoadFrameSteps \/ LoadFrameCount \/ LoadFrameLatest

Spec == Init /\ [][Next]_vars
-----------------------------------------------------------------------------
(***************************************************************************)
(* Properties                                                              *)
(***************************************************************************)
Events == [code : Transports \cup {"none"}, number : 0..MaxBytes, start : 0..MaxBytes]
Counts == [value : 0..(2^WordBits - 1), number : 0..MaxBytes]
Steps == [value : 0..(2^WordBits - 1), since : 0..MaxBytes]

\* The state has its types: no counter outgrows its width, and the private
\* tick count stays below a whole step.
TypeOK ==
  /\ {midi_last_transport, midi_transport_latest, code} \subseteq Events
  /\ {midi_transport_count, seen.count, frame.count} \subseteq Counts
  /\ {midi_steps, seen.steps, taken.steps, snapshot.steps, frame.steps} \subseteq Steps
  /\ ticks_since_step \in 0..(MIDI_CLOCK_TICKS_PER_STEP - 1)
  /\ wpc \in {"idle", "last", "latest", "count"}
  /\ mpc \in {"first", "second"} /\ fpc \in {"steps", "count", "last"}

\* The step count is the number of whole steps ticked since the last Start,
\* as the counter's width shows it: a Start in the middle of a step does not
\* shorten the next one.
StepsCountTicks ==
  midi_steps.value = Word(ticks \div MIDI_CLOCK_TICKS_PER_STEP)

\* A display snapshot that reports a Start carries steps counted from that
\* Start or a later one, never the count that the Start ended.
StartHasItsSteps ==
  snapshot.transport.code = "start" => snapshot.steps.since >= snapshot.transport.start

\* The last event to have been stored waits for the mapper or was taken by
\* it: the read-and-clear loses no event that no later one replaced.
NoEventLost ==
  LET stored == IF wpc = "last" THEN events - 1 ELSE events
  IN stored = 0 \/ delivered = stored \/ midi_last_transport.number = stored

\* The fields of a region frame are loaded one by one.  Its latest event is at
\* least as recent as its count: a client that sees the count go up finds the
\* event, or a later one, beside it.  Its steps may be those of the Start
\* before, but not for longer than that frame: the steps of the next one count
\* from the Start that this one's event belongs to, or from a later one.
FrameFieldsAgree ==
  /\ frame.last.number >= frame.count.number
  /\ fpc # "steps" => seen.steps.since >= frame.last.start
=============================================================================
