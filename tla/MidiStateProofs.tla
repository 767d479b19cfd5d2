-------------------------- MODULE MidiStateProofs --------------------------
(***************************************************************************)
(* For counters of any width, any number of ticks in a step and any number *)
(* of bytes: no transport event is lost between the writer and the mapper, *)
(* a Start comes with its own steps, and the latest event of a frame is as *)
(* recent as its count and no older Start's steps outlast the frame.       *)
(*                                                                         *)
(* None of the three is inductive: each compares two values that were      *)
(* loaded at different times.  MidiInv relates what a reader has loaded so *)
(* far to what it can still load.                                          *)
(*                                                                         *)
(* The step count is exact, with the writer's ticks since the last step as *)
(* the remainder (StepInv), and every counter keeps its width (TypeInv).   *)
(***************************************************************************)
EXTENDS MidiState, FiniteSetTheorems, TLAPS

\* The records have their fields; the numbers in them are numbers.
Shapes ==
  /\ {starts, events, delivered, code.number, code.start,
      midi_last_transport.number, midi_last_transport.start,
      midi_transport_latest.number, midi_transport_latest.start,
      midi_transport_count.number, taken.transport.start, seen.count.number,
      frame.last.start} \subseteq Nat
  /\ midi_steps = [value |-> midi_steps.value, since |-> starts]
  /\ taken = [transport |-> taken.transport, steps |-> taken.steps]
  /\ seen = [steps |-> seen.steps, count |-> seen.count]
  /\ wpc \in {"idle", "last", "latest", "count"}

\* The number of the last event put out for the mapper.
Stored == IF wpc = "last" THEN events - 1 ELSE events

\* The writer: the event it records is the last one, no event is of a Start
\* that has not been, what waits for the mapper is the last event put out, and
\* the count follows the latest event.
WriterInv ==
  /\ code.number = events /\ code.start <= starts
  /\ midi_last_transport.start <= starts /\ midi_transport_latest.start <= starts
  /\ midi_last_transport # NoEvent => midi_last_transport.number = Stored
  /\ midi_transport_latest.number <= events
  /\ wpc = "count" => midi_transport_latest.number = events
  /\ midi_transport_count.number <= midi_transport_latest.number

\* The mapper: the event it has taken is of a Start whose steps, or later ones,
\* are the only ones left to load.
MapperInv ==
  /\ taken.transport.start <= starts
  /\ StartHasItsSteps

\* The frame writer: the count it has loaded is covered by any latest event it
\* can still load, and the Start of the last frame's event has reset the steps
\* that it can still load.
FrameInv ==
  /\ seen.count.number <= midi_transport_latest.number
  /\ frame.last.start <= starts
  /\ FrameFieldsAgree

MidiInv == Shapes /\ WriterInv /\ MapperInv /\ FrameInv /\ NoEventLost
-----------------------------------------------------------------------------
\* Nothing has been sent in the initial state.
LEMMA InitMidi == Init => MidiInv
<1> SUFFICES ASSUME Init PROVE MidiInv
  OBVIOUS
<1> USE DEF Init, NoEvent, NoSteps, NoCount, NothingRead, NothingSeen
<1>1. Shapes
  BY DEF Shapes
<1>2. WriterInv /\ NoEventLost
  BY DEF WriterInv, NoEventLost, Stored
<1>3. MapperInv /\ FrameInv
  BY DEF MapperInv, FrameInv, StartHasItsSteps, FrameFieldsAgree
<1> QED BY <1>1, <1>2, <1>3 DEF MidiInv

\* A Start resets the steps and becomes the event to record.
LEMMA RecordStartKeeps ==
  ASSUME MidiInv, RecordStart
  PROVE  MidiInv'
<1> USE DEF MidiInv, RecordStart, Receive, StartTicks, stateVars, writerVars, mapperVars, frameVars
<1>1. Shapes'
  BY DEF Shapes, WriterInv, Stored
<1>2. WriterInv'
  BY DEF Shapes, WriterInv, Stored
<1>3. MapperInv'
  BY DEF Shapes, WriterInv, MapperInv, StartHasItsSteps
<1>4. FrameInv'
  BY DEF Shapes, WriterInv, FrameInv, FrameFieldsAgree
<1>5. NoEventLost'
  BY DEF Shapes, WriterInv, NoEventLost
<1> QED BY <1>1, <1>2, <1>3, <1>4, <1>5

\* A tick.
LEMMA RecordClockKeeps ==
  ASSUME MidiInv, RecordClock
  PROVE  MidiInv'
<1> USE DEF MidiInv, RecordClock, Receive, stateVars, writerVars, mapperVars, frameVars
<1>1. Shapes'
  BY DEF Shapes, WriterInv, Stored
<1>2. WriterInv'
  BY DEF Shapes, WriterInv, Stored
<1>3. MapperInv'
  BY DEF Shapes, WriterInv, MapperInv, StartHasItsSteps
<1>4. FrameInv'
  BY DEF Shapes, WriterInv, FrameInv, FrameFieldsAgree
<1>5. NoEventLost'
  BY DEF Shapes, WriterInv, NoEventLost
<1> QED BY <1>1, <1>2, <1>3, <1>4, <1>5

\* Stop and Continue leave the steps alone.
LEMMA RecordStopOrContinueKeeps ==
  ASSUME MidiInv, NEW byte \in Bytes, RecordStopOrContinue(byte)
  PROVE  MidiInv'
<1> USE DEF MidiInv, RecordStopOrContinue, Receive, stateVars, writerVars, mapperVars, frameVars
<1>1. Shapes'
  BY DEF Shapes, WriterInv, Stored
<1>2. WriterInv'
  BY DEF Shapes, WriterInv, Stored
<1>3. MapperInv'
  BY DEF Shapes, WriterInv, MapperInv, StartHasItsSteps
<1>4. FrameInv'
  BY DEF Shapes, WriterInv, FrameInv, FrameFieldsAgree
<1>5. NoEventLost'
  BY DEF Shapes, WriterInv, NoEventLost
<1> QED BY <1>1, <1>2, <1>3, <1>4, <1>5

\* The event is put out for the mapper.
LEMMA StoreLastKeeps ==
  ASSUME MidiInv, StoreLast
  PROVE  MidiInv'
<1> USE DEF MidiInv, StoreLast, stateVars, writerVars, mapperVars, frameVars
<1>1. Shapes'
  BY DEF Shapes, WriterInv, Stored
<1>2. WriterInv'
  BY DEF Shapes, WriterInv, Stored
<1>3. MapperInv'
  BY DEF Shapes, WriterInv, MapperInv, StartHasItsSteps
<1>4. FrameInv'
  BY DEF Shapes, WriterInv, FrameInv, FrameFieldsAgree
<1>5. NoEventLost'
  BY DEF Shapes, WriterInv, NoEventLost
<1> QED BY <1>1, <1>2, <1>3, <1>4, <1>5

\* The latest event is stored, then its count.
LEMMA StoreLatestAndCountKeeps ==
  ASSUME MidiInv, StoreLatestAndCount
  PROVE  MidiInv'
<1> USE DEF MidiInv, StoreLatestAndCount, LatestFirst, Counted, stateVars, writerVars, mapperVars, frameVars
<1>1. Shapes'
  BY DEF Shapes, WriterInv, Stored
<1>2. WriterInv'
  BY DEF Shapes, WriterInv, Stored
<1>3. MapperInv'
  BY DEF Shapes, WriterInv, MapperInv, StartHasItsSteps
<1>4. FrameInv'
  BY DEF Shapes, WriterInv, FrameInv, FrameFieldsAgree
<1>5. NoEventLost'
  BY DEF Shapes, WriterInv, NoEventLost
<1> QED BY <1>1, <1>2, <1>3, <1>4, <1>5

\* The mapper swaps the event, then loads the steps.
LEMMA ReadMidiSnapshotKeeps ==
  ASSUME MidiInv, ReadMidiSnapshot
  PROVE  MidiInv'
<1> USE DEF MidiInv, ReadMidiSnapshot, SwapThenLoad, TakeEvent, NoEvent, NoSteps, NothingRead, stateVars, writerVars, mapperVars, frameVars
<1>1. Shapes'
  BY DEF Shapes, WriterInv, Stored
<1>2. WriterInv'
  BY DEF Shapes, WriterInv, Stored
<1>3. MapperInv'
  BY DEF Shapes, WriterInv, MapperInv, StartHasItsSteps
<1>4. FrameInv'
  BY DEF Shapes, WriterInv, FrameInv, FrameFieldsAgree
<1>5. NoEventLost'
  <2>1. midi_last_transport.number # 0 => midi_last_transport # NoEvent
    OBVIOUS
  <2>2. CASE mpc = "first"
    <3>1. /\ wpc' = wpc /\ events' = events
          /\ delivered' = IF midi_last_transport = NoEvent THEN delivered
                                                           ELSE midi_last_transport.number
      BY <2>2
    <3>2. midi_last_transport.number # 0 => delivered' = midi_last_transport.number
      BY <2>1, <3>1
    <3>3. midi_last_transport = NoEvent => delivered' = delivered
      BY <3>1
    <3>4. midi_last_transport # NoEvent => midi_last_transport.number = Stored
      BY DEF WriterInv
    <3> QED BY <3>1, <3>2, <3>3, <3>4 DEF Shapes, NoEventLost, Stored
  <2>3. CASE mpc = "second"
    BY <2>3 DEF NoEventLost
  <2> QED BY <2>2, <2>3
<1> QED BY <1>1, <1>2, <1>3, <1>4, <1>5

\* The frame writer loads the steps.
LEMMA LoadFrameStepsKeeps ==
  ASSUME MidiInv, LoadFrameSteps
  PROVE  MidiInv'
<1> USE DEF MidiInv, LoadFrameSteps, stateVars, writerVars, mapperVars, frameVars
<1>1. Shapes'
  BY DEF Shapes, WriterInv, Stored
<1>2. WriterInv'
  BY DEF Shapes, WriterInv, Stored
<1>3. MapperInv'
  BY DEF Shapes, WriterInv, MapperInv, StartHasItsSteps
<1>4. FrameInv'
  BY DEF Shapes, WriterInv, FrameInv, FrameFieldsAgree
<1>5. NoEventLost'
  BY DEF Shapes, WriterInv, NoEventLost
<1> QED BY <1>1, <1>2, <1>3, <1>4, <1>5

\* The frame writer loads the count.
LEMMA LoadFrameCountKeeps ==
  ASSUME MidiInv, LoadFrameCount
  PROVE  MidiInv'
<1> USE DEF MidiInv, LoadFrameCount, stateVars, writerVars, mapperVars, frameVars
<1>1. Shapes'
  BY DEF Shapes, WriterInv, Stored
<1>2. WriterInv'
  BY DEF Shapes, WriterInv, Stored
<1>3. MapperInv'
  BY DEF Shapes, WriterInv, MapperInv, StartHasItsSteps
<1>4. FrameInv'
  BY DEF Shapes, WriterInv, FrameInv, FrameFieldsAgree
<1>5. NoEventLost'
  BY DEF Shapes, WriterInv, NoEventLost
<1> QED BY <1>1, <1>2, <1>3, <1>4, <1>5

\* The frame writer loads the latest event, and publishes.
LEMMA LoadFrameLatestKeeps ==
  ASSUME MidiInv, LoadFrameLatest
  PROVE  MidiInv'
<1> USE DEF MidiInv, LoadFrameLatest, NothingSeen, NoCount, NoSteps, stateVars, writerVars, mapperVars, frameVars
<1>1. Shapes'
  BY DEF Shapes, WriterInv, Stored
<1>2. WriterInv'
  BY DEF Shapes, WriterInv, Stored
<1>3. MapperInv'
  BY DEF Shapes, WriterInv, MapperInv, StartHasItsSteps
<1>4. FrameInv'
  BY DEF Shapes, WriterInv, FrameInv, FrameFieldsAgree
<1>5. NoEventLost'
  BY DEF Shapes, WriterInv, NoEventLost
<1> QED BY <1>1, <1>2, <1>3, <1>4, <1>5

\* The invariant is inductive.
LEMMA StepMidi == MidiInv /\ [Next]_vars => MidiInv'
<1> SUFFICES ASSUME MidiInv, [Next]_vars PROVE MidiInv'
  OBVIOUS
<1>1. CASE Next
  BY <1>1, RecordStartKeeps, RecordClockKeeps, RecordStopOrContinueKeeps, StoreLastKeeps,
     StoreLatestAndCountKeeps, ReadMidiSnapshotKeeps, LoadFrameStepsKeeps,
     LoadFrameCountKeeps, LoadFrameLatestKeeps DEF Next
<1>2. CASE UNCHANGED vars
  BY <1>2 DEF vars, stateVars, writerVars, mapperVars, frameVars, MidiInv, Shapes, WriterInv,
     MapperInv, FrameInv, NoEventLost, StartHasItsSteps, FrameFieldsAgree, Stored
<1> QED BY <1>1, <1>2
-----------------------------------------------------------------------------
\* MidiInv holds throughout.
LEMMA MidiInvariant == Spec => []MidiInv
BY InitMidi, StepMidi, PTL DEF Spec

\* A display snapshot that reports a Start never carries the steps that the
\* Start ended (read_midi_snapshot swaps the event before it loads them).
THEOREM SnapshotsAgree == Spec => []StartHasItsSteps
<1>1. MidiInv => StartHasItsSteps
  BY DEF MidiInv, MapperInv
<1> QED BY <1>1, MidiInvariant, PTL

\* The mapper's read-and-clear loses no event that no later one replaced.
THEOREM EventsKept == Spec => []NoEventLost
<1>1. MidiInv => NoEventLost
  BY DEF MidiInv
<1> QED BY <1>1, MidiInvariant, PTL

\* The latest event of a region frame is at least as recent as its count
\* (record_transport stores it first, the frame writer loads it last), and the
\* next frame has the steps of its Start or a later one (record_byte resets
\* them before it records the event).
THEOREM FramesAgree == Spec => []FrameFieldsAgree
<1>1. MidiInv => FrameFieldsAgree
  BY DEF MidiInv, FrameInv
<1> QED BY <1>1, MidiInvariant, PTL
-----------------------------------------------------------------------------
(***************************************************************************)
(* The step count.                                                         *)
(***************************************************************************)

\* The writer's own count is the ticks of the step in progress, and the shared
\* one the whole steps before it.
StepInv ==
  /\ ticks \in Nat
  /\ ticks_since_step = ticks % MIDI_CLOCK_TICKS_PER_STEP
  /\ midi_steps = [value |-> midi_steps.value, since |-> midi_steps.since]
  /\ StepsCountTicks

\* A counter of any width has at least one value: as many as there are sets of
\* its bits.
LEMMA WidthFacts == 2^WordBits \in Nat \ {0}
<1> DEFINE bits == 1..WordBits
<1>1. IsFiniteSet(bits) /\ Cardinality(bits) = WordBits
  BY FS_Interval, WidthAssumption
<1>2. IsFiniteSet(SUBSET bits) /\ Cardinality(SUBSET bits) = 2^WordBits
  BY <1>1, FS_SUBSET
<1>3. Cardinality(SUBSET bits) # 0
  BY <1>2, FS_EmptySet
<1> QED BY <1>2, <1>3, FS_CardinalityType

\* A number, its quotient and its remainder.
LEMMA DivMod ==
  ASSUME NEW n \in Nat, NEW c \in Nat \ {0}
  PROVE  /\ n \div c \in Nat /\ n % c \in 0..(c - 1)
         /\ n = (n \div c) * c + (n % c)
<1>1. \A i \in Nat, j \in Nat \ {0} : i = (i \div j) * j + (i % j)
  BY Z3
<1> QED BY <1>1

\* They are the only ones.
LEMMA DivModUnique ==
  ASSUME NEW c \in Nat \ {0}, NEW k \in Nat, NEW r \in 0..(c - 1)
  PROVE  (k * c + r) \div c = k /\ (k * c + r) % c = r
<1>1. (k * c + r) \div c = k
  BY Z3
<1>2. (k * c + r) % c = r
  BY Z3
<1> QED BY <1>1, <1>2

\* One more moves to the next remainder, or to the next quotient.
LEMMA DivModNext ==
  ASSUME NEW n \in Nat, NEW c \in Nat \ {0}
  PROVE  IF (n % c) + 1 < c
           THEN (n + 1) % c = (n % c) + 1 /\ (n + 1) \div c = n \div c
           ELSE (n + 1) % c = 0 /\ (n + 1) \div c = (n \div c) + 1
<1> DEFINE q == n \div c
           r == n % c
<1>1. q \in Nat /\ r \in 0..(c - 1) /\ n = q * c + r
  BY DivMod
<1> HIDE DEF q, r
<1>2. q * c \in Nat /\ (q + 1) * c = q * c + c
  BY <1>1
<1>3. CASE r + 1 < c
  <2>1. n + 1 = q * c + (r + 1) /\ r + 1 \in 0..(c - 1)
    BY <1>1, <1>2, <1>3
  <2>2. (n + 1) \div c = q /\ (n + 1) % c = r + 1
    BY <1>1, <2>1, DivModUnique
  <2> QED BY <1>3, <2>2 DEF q, r
<1>4. CASE ~(r + 1 < c)
  <2>1. n + 1 = (q + 1) * c + 0 /\ q + 1 \in Nat /\ 0 \in 0..(c - 1)
    BY <1>1, <1>2, <1>4
  <2>2. ((q + 1) * c + 0) \div c = q + 1 /\ ((q + 1) * c + 0) % c = 0
    BY <2>1, DivModUnique
  <2>3. (n + 1) \div c = q + 1 /\ (n + 1) % c = 0
    BY <2>1, <2>2
  <2> QED BY <1>4, <2>3 DEF q, r
<1> QED BY <1>3, <1>4

\* A counter may wrap before it is added to.
LEMMA WordNext ==
  ASSUME NEW n \in Nat
  PROVE  Word(Word(n) + 1) = Word(n + 1)
<1> DEFINE w == 2^WordBits
           r == n % w
<1>1. w \in Nat \ {0}
  BY WidthFacts
<1> HIDE DEF w
<1>2. r \in 0..(w - 1)
  BY <1>1, DivMod
<1>3. IF r + 1 < w THEN (n + 1) % w = r + 1 ELSE (n + 1) % w = 0
  BY <1>1, DivModNext
<1> HIDE DEF r
<1>4. IF r + 1 < w THEN (r + 1) % w = r + 1 ELSE (r + 1) % w = 0
  <2>1. CASE r + 1 < w
    <3>1. r + 1 \in 0..(w - 1) /\ 0 \in Nat /\ 0 * w + (r + 1) = r + 1
      BY <1>1, <1>2, <2>1
    <3> QED BY <1>1, <2>1, <3>1, DivModUnique
  <2>2. CASE ~(r + 1 < w)
    <3>1. r + 1 = 1 * w + 0 /\ 0 \in 0..(w - 1) /\ 1 \in Nat
      BY <1>1, <1>2, <2>2
    <3> QED BY <1>1, <2>2, <3>1, DivModUnique
  <2> QED BY <2>1, <2>2
<1>5. (r + 1) % w = (n + 1) % w
  BY <1>3, <1>4
<1> QED BY <1>5 DEF Word, w, r

\* Nothing has ticked in the initial state.
LEMMA InitSteps == Init => StepInv
<1> SUFFICES ASSUME Init PROVE StepInv
  OBVIOUS
<1> USE DEF Init, NoSteps
<1>1. \A c \in Nat \ {0} : 0 % c = 0 /\ 0 \div c = 0
  BY Z3
<1>2. /\ 0 % MIDI_CLOCK_TICKS_PER_STEP = 0
      /\ 0 \div MIDI_CLOCK_TICKS_PER_STEP = 0 /\ Word(0) = 0
  BY <1>1, WidthAssumption, WidthFacts DEF Word
<1> QED BY <1>2 DEF StepInv, StepsCountTicks

\* A Start counts from nothing, a tick completes a step or does not, and no
\* other step touches the counts.
LEMMA StepSteps == StepInv /\ [Next]_vars => StepInv'
<1> SUFFICES ASSUME StepInv, [Next]_vars PROVE StepInv'
  OBVIOUS
<1> DEFINE T == MIDI_CLOCK_TICKS_PER_STEP
<1>1. T \in Nat \ {0}
  BY WidthAssumption
<1> HIDE DEF T
<1>2. CASE RecordStart
  <2>1. \A c \in Nat \ {0} : 0 % c = 0 /\ 0 \div c = 0
    BY Z3
  <2>2. 0 % T = 0 /\ 0 \div T = 0 /\ Word(0) = 0
    BY <1>1, <2>1, WidthFacts DEF Word
  <2> QED BY <1>2, <2>2 DEF RecordStart, StartTicks, StepInv, StepsCountTicks, T
<1>3. CASE RecordClock
  <2>1. /\ ticks \in Nat /\ ticks_since_step = ticks % T
        /\ midi_steps = [value |-> midi_steps.value, since |-> midi_steps.since]
        /\ midi_steps.value = Word(ticks \div T)
    BY DEF StepInv, StepsCountTicks, T
  <2>2. /\ ticks' = ticks + 1
        /\ IF ticks_since_step + 1 >= T
             THEN /\ ticks_since_step' = 0
                  /\ midi_steps' = [midi_steps EXCEPT !.value = Word(midi_steps.value + 1)]
             ELSE ticks_since_step' = ticks_since_step + 1 /\ midi_steps' = midi_steps
    BY <1>3 DEF RecordClock, WholeStep, T
  <2>3. ticks % T \in 0..(T - 1) /\ ticks \div T \in Nat
    BY <1>1, <2>1, DivMod
  <2>4. IF (ticks % T) + 1 < T
          THEN ticks' % T = (ticks % T) + 1 /\ ticks' \div T = ticks \div T
          ELSE ticks' % T = 0 /\ ticks' \div T = (ticks \div T) + 1
    BY <1>1, <2>1, <2>2, DivModNext
  <2>5. Word(Word(ticks \div T) + 1) = Word((ticks \div T) + 1)
    BY <2>3, WordNext
  <2>6. CASE ticks_since_step + 1 >= T
    <3>1. ticks' % T = 0 /\ ticks' \div T = (ticks \div T) + 1
      BY <1>1, <2>1, <2>3, <2>4, <2>6
    <3>2. midi_steps' = [value |-> Word(ticks' \div T), since |-> midi_steps.since]
      BY <2>1, <2>2, <2>5, <2>6, <3>1
    <3> QED BY <2>1, <2>2, <2>6, <3>1, <3>2 DEF StepInv, StepsCountTicks, T
  <2>7. CASE ~(ticks_since_step + 1 >= T)
    <3>1. ticks' % T = ticks_since_step + 1 /\ ticks' \div T = ticks \div T
      BY <1>1, <2>1, <2>3, <2>4, <2>7
    <3> QED BY <2>1, <2>2, <2>7, <3>1 DEF StepInv, StepsCountTicks, T
  <2> QED BY <2>6, <2>7
<1>4. CASE UNCHANGED <<ticks, ticks_since_step, midi_steps>>
  BY <1>4 DEF StepInv, StepsCountTicks
<1>5. CASE UNCHANGED vars
  BY <1>4, <1>5 DEF vars, stateVars, writerVars
<1>6. ASSUME NEW byte \in Bytes, RecordStopOrContinue(byte)
      PROVE  UNCHANGED <<ticks, ticks_since_step, midi_steps>>
  BY <1>6 DEF RecordStopOrContinue, stateVars
<1>7. CASE \/ StoreLast \/ StoreLatestAndCount \/ ReadMidiSnapshot
           \/ LoadFrameSteps \/ LoadFrameCount \/ LoadFrameLatest
  BY <1>4, <1>7 DEF StoreLast, StoreLatestAndCount, ReadMidiSnapshot, LoadFrameSteps,
     LoadFrameCount, LoadFrameLatest, stateVars, writerVars
<1> QED BY <1>2, <1>3, <1>4, <1>5, <1>6, <1>7 DEF Next

\* The step count is the number of whole steps ticked since the last Start,
\* modulo the counter's width, for any width and any length of a step.
THEOREM StepsExact == Spec => []StepsCountTicks
<1>1. StepInv => StepsCountTicks
  BY DEF StepInv
<1> QED BY <1>1, InitSteps, StepSteps, PTL DEF Spec
-----------------------------------------------------------------------------
(***************************************************************************)
(* Types.                                                                  *)
(***************************************************************************)

\* TypeOK, with the history that numbers the events and the locals of the two
\* readers.
TypeInv ==
  /\ TypeOK
  /\ bytes \in 0..MaxBytes /\ events \in 0..bytes /\ starts \in 0..bytes
  /\ taken \in [transport : Events, steps : Steps]
  /\ seen \in [steps : Steps, count : Counts]

\* A counter keeps to its width.
LEMMA WordTyped == \A n \in Nat : Word(n) \in 0..(2^WordBits - 1)
BY WidthFacts, DivMod DEF Word

\* What the readers and the atomics start with.
LEMMA ZeroTyped == NoEvent \in Events /\ NoSteps \in Steps /\ NoCount \in Counts
<1>1. 0 \in 0..MaxBytes /\ 0 \in 0..(2^WordBits - 1)
  BY WidthAssumption, WidthFacts
<1> QED BY <1>1 DEF NoEvent, NoSteps, NoCount, Events, Steps, Counts

\* The writer's bytes: the counters count within their width.
LEMMA RecordTyped ==
  ASSUME TypeInv, NEW byte \in Bytes,
         RecordStart \/ RecordClock \/ RecordStopOrContinue(byte)
  PROVE  TypeInv'
<1>1. /\ bytes < MaxBytes /\ bytes' = bytes + 1 /\ bytes \in Nat
      /\ events \in 0..bytes /\ starts \in 0..bytes
      /\ UNCHANGED <<midi_last_transport, midi_transport_latest, midi_transport_count,
                     mapperVars, frameVars>>
  BY WidthAssumption DEF TypeInv, RecordStart, RecordClock, RecordStopOrContinue, Receive,
     stateVars
<1>2. bytes' \in 0..MaxBytes /\ events + 1 \in 0..MaxBytes /\ starts + 1 \in 0..MaxBytes
      /\ starts \in 0..MaxBytes
  BY <1>1, WidthAssumption
<1>3. CASE RecordStart
  <2>1. code' \in Events
    BY <1>2, <1>3 DEF RecordStart, Events, Transports
  <2>2. midi_steps' \in Steps
    BY <1>2, <1>3, WidthFacts DEF RecordStart, Steps
  <2>3. ticks_since_step' \in 0..(MIDI_CLOCK_TICKS_PER_STEP - 1)
    BY <1>3, WidthAssumption DEF RecordStart, StartTicks
  <2> QED BY <1>1, <1>2, <1>3, <2>1, <2>2, <2>3
       DEF TypeInv, TypeOK, RecordStart, mapperVars, frameVars
<1>4. CASE RecordClock
  <2>1. midi_steps \in Steps /\ ticks_since_step \in 0..(MIDI_CLOCK_TICKS_PER_STEP - 1)
    BY DEF TypeInv, TypeOK
  <2>2. Word(midi_steps.value + 1) \in 0..(2^WordBits - 1)
    BY <2>1, WordTyped, WidthFacts DEF Steps
  <2>3. midi_steps' \in Steps
    BY <1>4, <2>1, <2>2 DEF RecordClock, Steps
  <2>4. ticks_since_step' \in 0..(MIDI_CLOCK_TICKS_PER_STEP - 1)
    BY <1>4, <2>1, WidthAssumption DEF RecordClock, WholeStep
  <2> QED BY <1>1, <1>2, <1>4, <2>3, <2>4
       DEF TypeInv, TypeOK, RecordClock, mapperVars, frameVars
<1>5. CASE RecordStopOrContinue(byte)
  <2>1. code' \in Events
    BY <1>2, <1>5 DEF RecordStopOrContinue, Events, Transports
  <2> QED BY <1>1, <1>2, <1>5, <2>1
       DEF TypeInv, TypeOK, RecordStopOrContinue, stateVars, mapperVars, frameVars
<1> QED BY <1>3, <1>4, <1>5

\* record_transport's stores.
LEMMA StoreTyped ==
  ASSUME TypeInv, StoreLast \/ StoreLatestAndCount
  PROVE  TypeInv'
<1>1. CASE StoreLast
  BY <1>1 DEF TypeInv, TypeOK, StoreLast, mapperVars, frameVars
<1>2. CASE StoreLatestAndCount
  <2>1. midi_transport_count \in Counts /\ code \in Events
    BY DEF TypeInv, TypeOK
  <2>2. Word(midi_transport_count.value + 1) \in 0..(2^WordBits - 1)
    BY <2>1, WordTyped, WidthFacts DEF Counts
  <2>3. Counted \in Counts
    BY <2>1, <2>2 DEF Counted, Counts, Events
  <2> QED BY <1>2, <2>3
       DEF TypeInv, TypeOK, StoreLatestAndCount, LatestFirst, mapperVars, frameVars
<1> QED BY <1>1, <1>2

\* The readers copy what the atomics hold.
LEMMA ReadTyped ==
  ASSUME TypeInv, \/ ReadMidiSnapshot \/ LoadFrameSteps
                  \/ LoadFrameCount \/ LoadFrameLatest
  PROVE  TypeInv'
<1>1. CASE ReadMidiSnapshot
  <2>1. NothingRead \in [transport : Events, steps : Steps]
    BY ZeroTyped DEF NothingRead
  <2>2. taken' \in [transport : Events, steps : Steps] /\ taken'.steps \in Steps
    BY <1>1, <2>1, ZeroTyped DEF ReadMidiSnapshot, SwapThenLoad, TypeInv, TypeOK
  <2>3. snapshot'.steps \in Steps /\ midi_last_transport' \in Events
    BY <1>1, ZeroTyped DEF ReadMidiSnapshot, SwapThenLoad, TakeEvent, TypeInv, TypeOK
  <2>4. mpc' \in {"first", "second"}
    BY <1>1 DEF ReadMidiSnapshot, SwapThenLoad
  <2> QED BY <1>1, <2>2, <2>3, <2>4
       DEF ReadMidiSnapshot, TypeInv, TypeOK, writerVars, frameVars
<1>2. CASE LoadFrameSteps \/ LoadFrameCount \/ LoadFrameLatest
  <2>1. NothingSeen \in [steps : Steps, count : Counts]
    BY ZeroTyped DEF NothingSeen
  <2>2. seen' \in [steps : Steps, count : Counts]
    BY <1>2, <2>1 DEF LoadFrameSteps, LoadFrameCount, LoadFrameLatest, TypeInv, TypeOK
  <2>3. frame'.count \in Counts /\ frame'.steps \in Steps
    BY <1>2 DEF LoadFrameSteps, LoadFrameCount, LoadFrameLatest, TypeInv, TypeOK
  <2>4. fpc' \in {"steps", "count", "last"} /\ UNCHANGED <<stateVars, writerVars, mapperVars>>
    BY <1>2 DEF LoadFrameSteps, LoadFrameCount, LoadFrameLatest
  <2> QED BY <2>2, <2>3, <2>4 DEF TypeInv, TypeOK, stateVars, writerVars, mapperVars
<1> QED BY <1>1, <1>2

\* No counter outgrows its width, whatever wraps, and the private tick count
\* stays below a whole step.
THEOREM TypeCorrect == Spec => []TypeOK
<1>1. Init => TypeInv
  <2> SUFFICES ASSUME Init PROVE TypeInv
    OBVIOUS
  <2>1. 0 \in 0..MaxBytes /\ 0 \in 0..(MIDI_CLOCK_TICKS_PER_STEP - 1)
    BY WidthAssumption
  <2> QED BY <2>1, ZeroTyped DEF Init, TypeInv, TypeOK, NothingRead, NothingSeen
<1>2. TypeInv /\ [Next]_vars => TypeInv'
  <2> SUFFICES ASSUME TypeInv, [Next]_vars PROVE TypeInv'
    OBVIOUS
  <2>1. CASE UNCHANGED vars
    BY <2>1 DEF vars, stateVars, writerVars, mapperVars, frameVars, TypeInv, TypeOK
  <2>2. CASE Next
    <3>1. "clock" \in Bytes
      BY DEF Bytes
    <3> QED BY <2>2, <3>1, RecordTyped, StoreTyped, ReadTyped DEF Next
  <2> QED BY <2>1, <2>2
<1>3. TypeInv => TypeOK
  BY DEF TypeInv
<1> QED BY <1>1, <1>2, <1>3, PTL DEF Spec
=============================================================================
