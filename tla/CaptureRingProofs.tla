------------------------- MODULE CaptureRingProofs -------------------------
(***************************************************************************)
(* For any producer, any numbers of channels, any selection of them, any   *)
(* capacity of the ring and any transfer buffer: every accepted sample is  *)
(* queued, carried or analysed, in order, and after an orderly shutdown    *)
(* all of them are analysed.                                               *)
(*                                                                         *)
(* The second needs the frames whole at both ends.  The samples accepted   *)
(* are whole frames but for the one a callback is pushing (ProducerInv),   *)
(* those analysed are whole frames, and the carried ones are fewer than a  *)
(* frame (BufferInv): once the callbacks have ended and the ring is empty  *)
(* (ExitInv), nothing can be carried.                                      *)
(*                                                                         *)
(* And the channels never rotate: each accepted sample has the channel of  *)
(* its place (AlignInv), and what is analysed is a prefix of what was      *)
(* accepted.  The types follow last (TypesInv): what is in a buffer was    *)
(* delivered, and the ring stays within its capacity.                      *)
(***************************************************************************)
EXTENDS CaptureRing, SequenceTheorems, TLAPS

Pairs == [frame : Int, ch : Int]

\* A number of samples that is a number of frames.
Multiple(n, c) == \E k \in Nat : n = k * c

BufferInv ==
  /\ ring \in Seq(Pairs) /\ carried \in Seq(Pairs)
  /\ analysed \in Seq(Pairs) /\ accepted \in Seq(Pairs)
  /\ Len(ring) <= Capacity /\ Len(carried) < channels
  /\ Multiple(Len(analysed), channels)
  /\ NothingLost

\* The samples that a frame being pushed has in the ring.
Begun == IF ppc = "sample" THEN index - 1 ELSE 0

\* A slice has found room for its whole frames; a selected frame that is being
\* pushed has room for the rest of it.
ProducerInv ==
  /\ producer \in Producers /\ data \in Seq(Pairs) /\ captured \in Nat
  /\ ppc \in {"idle", "slice", "push", "frame", "sample"}
  /\ ppc \in {"frame", "sample"} => producer = "selected"
  /\ ppc \in {"slice", "push"} => producer # "selected"
  /\ ppc = "push" => room \in 0..Len(data) /\ room <= vacant_len /\ Multiple(room, channels)
  /\ ppc = "sample" =>
       /\ index \in 1..channels /\ Len(data) >= Hw
       /\ vacant_len >= channels - index + 1
  /\ Multiple(Len(accepted) - Begun, channels)

\* Behind a stream that is dropped nobody pushes, and the analyser that has
\* found the flag clear and then the ring empty leaves it empty for good.
ExitInv ==
  /\ keep_running \in BOOLEAN
  /\ stream = "dropped" => ppc = "idle" /\ producer # "generator"
  /\ apc \in {"empty", "done"} => ~keep_running
  /\ producer # "generator" /\ ~cutLive =>
       /\ ~keep_running => stream = "dropped"
       /\ apc = "done" => ring = << >>
  /\ stream \in {"live", "dropped"}

RingInv == BufferInv /\ ProducerInv /\ ExitInv
-----------------------------------------------------------------------------
\* A number, its quotient and its remainder.
LEMMA DivMod ==
  ASSUME NEW n \in Nat, NEW c \in Nat \ {0}
  PROVE  /\ n \div c \in Nat /\ n % c \in 0..(c - 1)
         /\ n = (n \div c) * c + (n % c)
<1>1. \A i \in Nat, j \in Nat \ {0} : i = (i \div j) * j + (i % j)
  BY Z3
<1> QED BY <1>1

\* Multiples: their sums and differences, and the only one below c.
LEMMA Multiples ==
  ASSUME NEW c \in Nat \ {0}, NEW k \in Nat, NEW m \in Nat
  PROVE  /\ k * c \in Nat
         /\ k * c + m * c = (k + m) * c
         /\ k * c + c = (k + 1) * c
         /\ k # 0 => k * c >= c
         /\ \A r \in 0..(c - 1) : k * c = m * c + r => r = 0
<1>1. k * c \in Nat /\ k * c + m * c = (k + m) * c /\ k * c + c = (k + 1) * c
  OBVIOUS
<1>2. k # 0 => k * c >= c
  OBVIOUS
<1>3. ASSUME NEW r \in 0..(c - 1), k * c = m * c + r
      PROVE  r = 0
  <2>1. (k - m) * c = r
    BY <1>3
  <2>2. k - m \in Int
    OBVIOUS
  <2>3. k - m >= 1 => (k - m) * c >= c
    BY <2>2
  <2>4. k - m <= -1 => (k - m) * c < 0
    BY <2>2
  <2>5. k - m = 0
    BY <2>1, <2>2, <2>3, <2>4
  <2> QED BY <1>3, <2>5
<1> QED BY <1>1, <1>2, <1>3

\* The smaller of two numbers.
LEMMA MinOfTwo ==
  ASSUME NEW a \in Int, NEW b \in Int
  PROVE  Min({a, b}) \in {a, b} /\ Min({a, b}) <= a /\ Min({a, b}) <= b
<1>1. Min({a, b}) = IF a <= b THEN a ELSE b
  BY DEF Min
<1> QED BY <1>1

\* A sequence is what it begins with and what is left.
LEMMA Split ==
  ASSUME NEW S, NEW s \in Seq(S), NEW n \in 0..Len(s)
  PROVE  /\ SubSeq(s, 1, n) \in Seq(S) /\ Len(SubSeq(s, 1, n)) = n
         /\ Drop(s, n) \in Seq(S) /\ Len(Drop(s, n)) = Len(s) - n
         /\ s = SubSeq(s, 1, n) \o Drop(s, n)
<1>1. SubSeq(s, 1, n) \in Seq(S) /\ Len(SubSeq(s, 1, n)) = n
  OBVIOUS
<1>2. Drop(s, n) \in Seq(S) /\ Len(Drop(s, n)) = Len(s) - n
  BY DEF Drop
<1>3. 1 \in 1..(Len(s) + 1) /\ n \in (1 - 1)..Len(s) /\ Len(s) \in n..Len(s)
  OBVIOUS
<1>4. SubSeq(s, 1, n) \o SubSeq(s, n + 1, Len(s)) = SubSeq(s, 1, Len(s))
  BY <1>3, ConcatAdjacentSubSeq
<1> QED BY <1>1, <1>2, <1>4, SubSeqFull DEF Drop

\* A run has at least one channel, and the transfer buffer holds a frame.
LEMMA ChannelFacts ==
  /\ channels \in Nat \ {0} /\ TransferSize \in Nat /\ channels <= TransferSize
  /\ producer # "selected" => channels = Hw
  /\ producer = "selected" => channels = Len(Selected)
<1>1. Len([c \in 1..Hw |-> c]) = Hw
  BY ShapeAssumption
<1>2. channels \in Nat \ {0}
  BY <1>1, ShapeAssumption DEF channels, Order
<1>3. TransferSize \in Nat /\ channels <= TransferSize
  BY <1>2, ShapeAssumption, Multiples DEF TransferSize
<1> QED BY <1>1, <1>2, <1>3 DEF channels, Order

\* Multiple frames: none, one, a sum, and less than one over some.
LEMMA WholeFacts ==
  /\ Multiple(0, channels) /\ Multiple(channels, channels)
  /\ \A a \in Int : Multiple(a, channels) => a \in Nat
  /\ \A a, b \in Nat : Multiple(a, channels) /\ Multiple(b, channels) => Multiple(a + b, channels)
  /\ \A a \in Nat, r \in 0..(channels - 1) :
       Multiple(a, channels) /\ Multiple(a + r, channels) => r = 0
<1>1. 0 * channels = 0 /\ 1 * channels = channels
  BY ChannelFacts
<1>2. ASSUME NEW a \in Nat, NEW b \in Nat, Multiple(a, channels), Multiple(b, channels)
      PROVE  Multiple(a + b, channels)
  <2>1. PICK k \in Nat : a = k * channels
    BY <1>2 DEF Multiple
  <2>2. PICK m \in Nat : b = m * channels
    BY <1>2 DEF Multiple
  <2>3. k + m \in Nat /\ a + b = (k + m) * channels
    BY <2>1, <2>2, Multiples, ChannelFacts
  <2> QED BY <2>3 DEF Multiple
<1>3. ASSUME NEW a \in Nat, NEW r \in 0..(channels - 1),
             Multiple(a, channels), Multiple(a + r, channels)
      PROVE  r = 0
  <2>1. PICK k \in Nat : a + r = k * channels
    BY <1>3 DEF Multiple
  <2>2. PICK m \in Nat : a = m * channels
    BY <1>3 DEF Multiple
  <2> QED BY <2>1, <2>2, Multiples, ChannelFacts
<1>4. Multiple(0, channels) /\ Multiple(channels, channels)
  BY <1>1 DEF Multiple
<1>5. ASSUME NEW a \in Int, Multiple(a, channels)
      PROVE  a \in Nat
  BY <1>5, Multiples, ChannelFacts DEF Multiple
<1> QED BY <1>2, <1>3, <1>4, <1>5

\* The whole frames of a number of samples.
LEMMA WholeFramesFacts ==
  ASSUME NEW n \in Nat, producer # "selected"
  PROVE  WholeFrames(n) \in 0..n /\ Multiple(WholeFrames(n), channels)
<1>1. Hw \in Nat \ {0} /\ channels = Hw
  BY ShapeAssumption, ChannelFacts
<1>2. n \div Hw \in Nat /\ n % Hw \in 0..(Hw - 1) /\ n = (n \div Hw) * Hw + (n % Hw)
  BY <1>1, DivMod
<1>3. (n \div Hw) * Hw \in Nat
  BY <1>1, <1>2, Multiples
<1>4. WholeFrames(n) \in 0..n
  BY <1>2, <1>3, <1>1 DEF WholeFrames
<1>5. Multiple(WholeFrames(n), channels)
  BY <1>1, <1>2 DEF WholeFrames, Multiple
<1> QED BY <1>4, <1>5

\* Sequences one after the other, however they are grouped.  Cat is \o by a
\* name that the provers do not look into.
Cat(a, b) == a \o b

LEMMA CatFacts ==
  ASSUME NEW a \in Seq(Pairs), NEW b \in Seq(Pairs), NEW c \in Seq(Pairs)
  PROVE  Cat(a, b) \in Seq(Pairs) /\ Cat(Cat(a, b), c) = Cat(a, Cat(b, c))
<1>1. a \o b \in Seq(Pairs)
  BY ConcatProperties
<1>2. (a \o b) \o c = a \o (b \o c)
  BY SMTT(60)
<1> QED BY <1>1, <1>2, Zenon DEF Cat

\* Four sequences, the two in the middle cut elsewhere.
LEMMA Regroup ==
  ASSUME NEW a \in Seq(Pairs), NEW b \in Seq(Pairs), NEW c \in Seq(Pairs),
         NEW d \in Seq(Pairs), NEW e \in Seq(Pairs), NEW f \in Seq(Pairs),
         Cat(b, c) = Cat(e, f)
  PROVE  Cat(Cat(a, b), Cat(c, d)) = Cat(Cat(Cat(a, e), f), d)
<1>1. Cat(a, b) \in Seq(Pairs)
  BY CatFacts
<1>2. Cat(Cat(a, b), Cat(c, d)) = Cat(Cat(Cat(a, b), c), d)
  BY <1>1, CatFacts
<1>3. Cat(Cat(a, b), c) = Cat(Cat(a, e), f)
  BY CatFacts
<1> QED BY <1>2, <1>3
-----------------------------------------------------------------------------
\* Nothing has been captured in the initial state.
LEMMA InitRing == Init => RingInv
<1> SUFFICES ASSUME Init PROVE RingInv
  OBVIOUS
<1>1. Multiple(0, channels) /\ Len(<< >>) = 0 /\ << >> \in Seq(Pairs) /\ << >> \o << >> = << >>
  BY WholeFacts, ConcatEmptySeq
<1>2. BufferInv
  BY <1>1, ChannelFacts, ShapeAssumption DEF Init, BufferInv, NothingLost
<1>3. ProducerInv
  BY <1>1 DEF Init, ProducerInv, Begun
<1>4. ExitInv
  BY DEF Init, ExitInv
<1> QED BY <1>2, <1>3, <1>4 DEF RingInv

\* The channels of a run do not change.
LEMMA SameChannels ==
  ASSUME producer' = producer
  PROVE  channels' = channels
BY DEF channels, Order

\* A step that leaves the ring and the analyser's buffers alone.
LEMMA BuffersKept ==
  ASSUME BufferInv, UNCHANGED <<producer, ring, carried, analysed, accepted>>
  PROVE  BufferInv'
BY SameChannels DEF BufferInv, NothingLost

\* A callback delivers, or the generator fills its buffer.
LEMMA DeliverKeeps ==
  ASSUME RingInv, NEW frames \in Nat, NEW tail \in Nat, Deliver(frames, tail)
  PROVE  RingInv'
<1> USE DEF RingInv, Deliver, analyserVars
<1>1. BufferInv'
  BY BuffersKept
<1>2. data' \in Seq(Pairs)
  <2>1. frames * Hw + tail \in Nat /\ captured \in Nat
    BY ShapeAssumption, Multiples DEF ProducerInv
  <2>2. \A i \in 1..(frames * Hw + tail) :
          [frame |-> captured + 1 + ((i - 1) \div Hw), ch |-> 1 + ((i - 1) % Hw)] \in Pairs
    BY <2>1, ShapeAssumption DEF Pairs
  <2> QED BY <2>1, <2>2 DEF Interleaved
<1>3. ProducerInv'
  BY <1>2, SameChannels, ShapeAssumption DEF ProducerInv, Begun
<1>4. ExitInv'
  BY DEF ExitInv
<1> QED BY <1>1, <1>3, <1>4

\* A slice is cut to the whole frames that there is room for.
LEMMA MeasureSliceKeeps ==
  ASSUME RingInv, MeasureSlice
  PROVE  RingInv'
<1> USE DEF RingInv, MeasureSlice, analyserVars
<1>1. BufferInv'
  BY BuffersKept
<1>2. room' \in 0..Len(data') /\ room' <= vacant_len' /\ Multiple(room', channels')
  <2>1. Len(data) \in Nat /\ vacant_len \in Nat /\ channels = Hw
    BY ChannelFacts, ShapeAssumption DEF ProducerInv, BufferInv, vacant_len
  <2>2. /\ WholeFrames(Len(data)) \in 0..Len(data) /\ Multiple(WholeFrames(Len(data)), channels)
        /\ WholeFrames(vacant_len) \in 0..vacant_len /\ Multiple(WholeFrames(vacant_len), channels)
    BY <2>1, WholeFramesFacts DEF ProducerInv
  <2>3. WholeFrames(Len(data)) \in Int /\ WholeFrames(vacant_len) \in Int
    BY <2>1, <2>2
  <2>4. /\ SliceRoom \in {WholeFrames(Len(data)), WholeFrames(vacant_len)}
        /\ SliceRoom <= WholeFrames(Len(data)) /\ SliceRoom <= WholeFrames(vacant_len)
    BY <2>3, MinOfTwo, Zenon DEF SliceRoom
  <2>5. SliceRoom \in 0..Len(data) /\ SliceRoom <= vacant_len
    BY <2>1, <2>2, <2>4
  <2>6. Multiple(SliceRoom, channels)
    BY <2>2, <2>4, Zenon
  <2>7. vacant_len' = vacant_len /\ Len(data') = Len(data) /\ room' = SliceRoom
    BY DEF vacant_len
  <2>8. Multiple(room', channels')
    BY <2>6, <2>7, SameChannels
  <2> QED BY <2>5, <2>7, <2>8
<1>3. ProducerInv'
  BY <1>2, SameChannels DEF ProducerInv, Begun
<1>4. ExitInv'
  BY DEF ExitInv
<1> QED BY <1>1, <1>3, <1>4

\* What is pushed is at the end of the ring, and of all that was accepted.
LEMMA PushKeeps ==
  ASSUME BufferInv, NEW samples \in Seq(Pairs), Push(samples),
         Len(samples) <= vacant_len,
         UNCHANGED <<producer, carried, analysed>>
  PROVE  BufferInv' /\ Len(accepted') = Len(accepted) + Len(samples)
<1>1. /\ ring' \in Seq(Pairs) /\ Len(ring') = Len(ring) + Len(samples)
      /\ accepted' \in Seq(Pairs) /\ Len(accepted') = Len(accepted) + Len(samples)
  BY ConcatProperties DEF Push, BufferInv
<1>2. Len(ring') <= Capacity
  BY <1>1, ShapeAssumption DEF BufferInv, vacant_len
<1>3. NothingLost'
  <2>1. accepted = Cat(Cat(analysed, carried), ring)
    BY DEF BufferInv, NothingLost, Cat
  <2>2. accepted' = Cat(accepted, samples) /\ ring' = Cat(ring, samples)
    BY DEF Push, Cat
  <2>3. Cat(analysed, carried) \in Seq(Pairs) /\ ring \in Seq(Pairs)
    BY CatFacts DEF BufferInv
  <2>4. accepted' = Cat(Cat(analysed, carried), ring')
    BY <2>1, <2>2, <2>3, CatFacts
  <2> QED BY <2>4 DEF NothingLost, Cat
<1> QED BY <1>1, <1>2, <1>3, SameChannels DEF BufferInv

\* The slice is published.
LEMMA PushSliceKeeps ==
  ASSUME RingInv, PushSlice
  PROVE  RingInv'
<1> USE DEF RingInv, PushSlice, analyserVars
<1>1. /\ SubSeq(data, 1, room) \in Seq(Pairs) /\ Len(SubSeq(data, 1, room)) = room
      /\ room <= vacant_len /\ Multiple(room, channels)
  BY Split DEF ProducerInv
<1>2. BufferInv' /\ Len(accepted') = Len(accepted) + room
  BY <1>1, PushKeeps
<1>3. ProducerInv'
  <2>1. Len(accepted) \in Nat /\ Multiple(Len(accepted), channels) /\ room \in Nat
    BY DEF ProducerInv, Begun, BufferInv
  <2>2. Multiple(Len(accepted) + room, channels)
    BY <1>1, <2>1, WholeFacts
  <2>3. Multiple(Len(accepted') - 0, channels')
    BY <1>2, <2>1, <2>2, SameChannels
  <2>4. << >> \in Seq(Pairs)
    OBVIOUS
  <2> QED BY <2>3, <2>4 DEF ProducerInv, Begun
<1>4. ExitInv'
  BY DEF ExitInv, ProducerInv
<1> QED BY <1>2, <1>3, <1>4

\* A selected frame is admitted, dropped, or the delivery is at its end.
LEMMA AdmitFrameKeeps ==
  ASSUME RingInv, AdmitFrame
  PROVE  RingInv'
<1> USE DEF RingInv, AdmitFrame, analyserVars
<1>1. BufferInv'
  BY BuffersKept
<1>2. data' \in Seq(Pairs)
  <2>1. << >> \in Seq(Pairs) /\ data \in Seq(Pairs) /\ Hw \in Nat
    BY ShapeAssumption DEF ProducerInv
  <2>2. Len(data) >= Hw => Drop(data, Hw) \in Seq(Pairs)
    BY <2>1, Split
  <2>3. CASE Len(data) < Hw
    BY <2>1, <2>3
  <2>4. CASE ~(Len(data) < Hw)
    <3>1. Drop(data, Hw) \in Seq(Pairs)
      BY <2>1, <2>2, <2>4
    <3> QED BY <2>1, <2>4, <3>1
  <2> QED BY <2>3, <2>4
<1>3. /\ index' = 1 /\ 1 \in 1..channels
      /\ ppc' = "sample" => vacant_len' >= channels /\ Len(data') >= Hw
  BY ChannelFacts, ShapeAssumption DEF FrameFits, vacant_len, ProducerInv
<1>4. ProducerInv'
  <2>1. Multiple(Len(accepted') - 0, channels')
    BY SameChannels DEF ProducerInv, Begun
  <2>2. Multiple(Len(accepted') - Begun', channels')
    BY <1>3, <2>1 DEF Begun
  <2>3. ppc' = "sample" =>
          index' \in 1..channels' /\ Len(data') >= Hw /\ vacant_len' >= channels' - index' + 1
    BY <1>3, SameChannels, ChannelFacts
  <2> QED BY <1>2, <2>2, <2>3 DEF ProducerInv
<1>5. ExitInv'
  BY DEF ExitInv
<1> QED BY <1>1, <1>4, <1>5

\* The ring has room for the sample of a selected frame, so try_push succeeds.
LEMMA SamplePushed ==
  ASSUME RingInv, PushSample
  PROVE  /\ producer = "selected" /\ index \in 1..channels /\ channels = Len(Selected)
         /\ data[Selected[index]] \in Pairs /\ Len(data) >= Hw /\ Selected[index] \in 1..Hw
         /\ vacant_len \in Nat /\ vacant_len > 0 /\ vacant_len >= channels - index + 1
         /\ Push(<<data[Selected[index]]>>)
<1> USE DEF RingInv, PushSample
<1>1. producer = "selected" /\ index \in 1..channels /\ channels = Len(Selected)
  BY ChannelFacts DEF ProducerInv
<1>2. data[Selected[index]] \in Pairs /\ Len(data) >= Hw /\ Selected[index] \in 1..Hw
  BY <1>1, ShapeAssumption DEF ProducerInv
<1>3. vacant_len \in Nat /\ vacant_len > 0 /\ vacant_len >= channels - index + 1
  BY <1>1, ChannelFacts, ShapeAssumption DEF ProducerInv, BufferInv, vacant_len
<1>4. Push(<<data[Selected[index]]>>)
  BY <1>3
<1> QED BY <1>1, <1>2, <1>3, <1>4

\* One sample of a selected frame is pushed: there is room for it.
LEMMA PushSampleKeeps ==
  ASSUME RingInv, PushSample
  PROVE  RingInv'
<1> USE DEF RingInv, PushSample, analyserVars
<1> DEFINE sample == data[Selected[index]]
<1>1. producer = "selected" /\ index \in 1..channels /\ channels = Len(Selected)
  BY SamplePushed
<1>2. sample \in Pairs /\ Len(data) >= Hw
  BY SamplePushed
<1>3. vacant_len \in Nat /\ vacant_len > 0 /\ vacant_len >= channels - index + 1
  BY SamplePushed
<1>4. Push(<<sample>>)
  BY SamplePushed
<1> HIDE DEF sample
<1>5. <<sample>> \in Seq(Pairs) /\ Len(<<sample>>) = 1
  BY <1>2
<1>6. BufferInv' /\ Len(accepted') = Len(accepted) + 1
  <2>1. Len(<<sample>>) <= vacant_len /\ UNCHANGED <<producer, carried, analysed>>
    BY <1>3, <1>5
  <2> QED BY <1>4, <1>5, <2>1, PushKeeps
<1>7. vacant_len' = vacant_len - 1
  BY <1>4, <1>5, ConcatProperties, ShapeAssumption DEF Push, vacant_len, BufferInv
<1>8. /\ Multiple(Len(accepted) - (index - 1), channels)
      /\ Len(accepted) \in Nat /\ Len(accepted) >= index - 1
  <2>1. Multiple(Len(accepted) - (index - 1), channels) /\ Len(accepted) \in Nat
    BY DEF ProducerInv, Begun, BufferInv
  <2>2. Len(accepted) - (index - 1) \in Nat
    BY <1>1, <2>1, WholeFacts, ChannelFacts
  <2> QED BY <1>1, <2>1, <2>2
<1>9. ProducerInv'
  <2>1. CASE index < channels
    <3>1. Len(accepted') - Begun' = Len(accepted) - (index - 1)
      BY <1>1, <1>6, <1>8, <2>1 DEF Begun
    <3>2. Multiple(Len(accepted') - Begun', channels')
      BY <1>8, <3>1, SameChannels
    <3>3. /\ index' \in 1..channels' /\ Len(data') >= Hw
          /\ vacant_len' >= channels' - index' + 1
      BY <1>1, <1>2, <1>3, <1>7, <2>1, SameChannels, ChannelFacts
    <3> QED BY <1>1, <2>1, <3>2, <3>3 DEF ProducerInv
  <2>2. CASE ~(index < channels)
    <3>1. index = channels
      BY <1>1, <2>2, ChannelFacts
    <3>2. Multiple((Len(accepted) - (index - 1)) + channels, channels)
      BY <1>1, <1>8, WholeFacts, ChannelFacts
    <3>3. Len(accepted') - Begun' = (Len(accepted) - (index - 1)) + channels
      BY <1>1, <1>6, <1>8, <2>2, <3>1, ChannelFacts DEF Begun
    <3>4. Multiple(Len(accepted') - Begun', channels')
      BY <3>2, <3>3, SameChannels
    <3>5. data' \in Seq(Pairs)
      BY <1>2, <2>2, Split, ShapeAssumption DEF ProducerInv
    <3> QED BY <1>1, <2>2, <3>4, <3>5 DEF ProducerInv
  <2> QED BY <2>1, <2>2
<1>10. ExitInv'
  BY DEF ExitInv
<1> QED BY <1>6, <1>9, <1>10

\* The stream is dropped when no callback is running, or the flag is cleared:
\* by shutdown once the stream is gone, by anyone else under a live one.
LEMMA StopKeeps ==
  ASSUME RingInv, DropStream \/ ClearFlag \/ SignalWorkers
  PROVE  RingInv'
<1> USE DEF RingInv, analyserVars, producerVars
<1> USE DEF DropStream, ClearFlag, SignalWorkers
<1>1. BufferInv'
  BY BuffersKept
<1>2. ProducerInv'
  BY SameChannels DEF ProducerInv, Begun, vacant_len
<1>3. ExitInv'
  <2>1. CASE DropStream
    BY <2>1 DEF ExitInv
  <2>2. CASE ClearFlag
    <3>1. keep_running /\ apc \notin {"empty", "done"}
      BY <2>2 DEF ExitInv
    <3> QED BY <2>2, <3>1 DEF ExitInv
  <2>3. CASE SignalWorkers
    <3>1. keep_running /\ apc \notin {"empty", "done"}
      BY <2>3 DEF ExitInv
    <3>2. producer # "generator" => stream' = "dropped"
      BY <2>3 DEF InputReleased
    <3> QED BY <2>3, <3>1, <3>2 DEF ExitInv
  <2> QED BY <2>1, <2>2, <2>3
<1> QED BY <1>1, <1>2, <1>3

\* The analyser looks at the flag, and then at the ring.
LEMMA LoopCheckKeeps ==
  ASSUME RingInv, LoopCheck
  PROVE  RingInv'
<1> USE DEF RingInv, LoopCheck, producerVars
<1>1. BufferInv'
  BY BuffersKept
<1>2. ProducerInv'
  BY SameChannels DEF ProducerInv, Begun, vacant_len
<1>3. ExitInv'
  BY DEF ExitInv, ExitWhenEmpty
<1> QED BY <1>1, <1>2, <1>3

\* Samples move from the ring to the transfer buffer, whole frames are
\* analysed, and the rest is carried.
LEMMA PopAndProcessKeeps ==
  ASSUME RingInv, PopAndProcess
  PROVE  RingInv'
<1> USE DEF RingInv, producerVars
<1> DEFINE popped  == Min({Len(ring), TransferSize - Len(carried)})
           taken   == SubSeq(ring, 1, popped)
           total   == carried \o taken
           aligned == Len(total) - (Len(total) % channels)
<1>1. /\ ring' = Drop(ring, popped)
      /\ analysed' = analysed \o SubSeq(total, 1, aligned)
      /\ carried' = IF popped = 0 THEN carried ELSE Drop(total, aligned)
      /\ apc = "pop" /\ apc' = "check"
      /\ UNCHANGED <<producer, keep_running, cutLive, stream, ppc, data, room, index,
                     captured, accepted>>
  BY DEF PopAndProcess, CarryOver
<1>2. popped \in 0..Len(ring)
  <2>1. Len(ring) \in Nat /\ TransferSize - Len(carried) \in Nat
    BY ChannelFacts DEF BufferInv
  <2>2. Len(ring) \in Int /\ TransferSize - Len(carried) \in Int
    BY <2>1
  <2>3. popped \in {Len(ring), TransferSize - Len(carried)} /\ popped <= Len(ring)
    BY <2>2, MinOfTwo, Zenon
  <2> HIDE DEF popped
  <2> QED BY <2>1, <2>3
<1> HIDE DEF popped
<1>3. /\ taken \in Seq(Pairs) /\ Len(taken) = popped
      /\ Drop(ring, popped) \in Seq(Pairs) /\ Len(Drop(ring, popped)) = Len(ring) - popped
      /\ ring = taken \o Drop(ring, popped)
  BY <1>2, Split DEF BufferInv
<1> HIDE DEF taken
<1>4. total \in Seq(Pairs) /\ Len(total) = Len(carried) + popped
  BY <1>3, ConcatProperties DEF BufferInv
<1> HIDE DEF total
<1>5. aligned \in 0..Len(total) /\ Len(total) - aligned < channels /\ Multiple(aligned, channels)
  <2>1. Len(total) \in Nat
    BY <1>4
  <2>2. /\ Len(total) \div channels \in Nat /\ Len(total) % channels \in 0..(channels - 1)
        /\ Len(total) = (Len(total) \div channels) * channels + (Len(total) % channels)
    BY <2>1, DivMod, ChannelFacts
  <2>3. (Len(total) \div channels) * channels \in Nat
    BY <2>2, Multiples, ChannelFacts
  <2>4. aligned = (Len(total) \div channels) * channels
    BY <2>1, <2>2, <2>3
  <2>5. Len(total) - aligned = Len(total) % channels
    BY <2>1, <2>2
  <2>6. Multiple(aligned, channels)
    BY <2>2, <2>4 DEF Multiple
  <2> HIDE DEF aligned
  <2> QED BY <2>1, <2>2, <2>3, <2>4, <2>5, <2>6, ChannelFacts
<1> HIDE DEF aligned
<1>7. carried' = Drop(total, aligned)
  <2>1. CASE popped = 0
    <3>1. taken = << >>
      BY <1>3, <2>1, EmptySeq
    <3>2. total = carried
      BY <3>1, ConcatEmptySeq DEF total, BufferInv
    <3>3. aligned = 0
      <4>1. aligned < channels
        BY <1>4, <1>5, <2>1, ChannelFacts DEF BufferInv
      <4>2. aligned \in 0..(channels - 1) /\ Multiple(0 + aligned, channels)
        BY <1>4, <1>5, <4>1, ChannelFacts
      <4> QED BY <4>2, WholeFacts
    <3> QED BY <1>1, <2>1, <3>2, <3>3, SubSeqFull DEF Drop, BufferInv
  <2> QED BY <1>1, <2>1
<1> DEFINE frames == SubSeq(total, 1, aligned)
<1>8. /\ frames \in Seq(Pairs) /\ Len(frames) = aligned
      /\ carried' \in Seq(Pairs) /\ Len(carried') = Len(total) - aligned
      /\ total = frames \o carried'
  BY <1>4, <1>5, <1>7, Split
<1> HIDE DEF frames
<1>9. analysed' \in Seq(Pairs) /\ Len(analysed') = Len(analysed) + aligned
  BY <1>1, <1>8, ConcatProperties DEF BufferInv, frames
<1>10. Multiple(Len(analysed'), channels)
  <2>1. Len(analysed) \in Nat /\ Multiple(Len(analysed), channels) /\ aligned \in Nat
    BY <1>4, <1>5 DEF BufferInv
  <2> QED BY <1>5, <1>9, <2>1, WholeFacts
<1>11. NothingLost'
  <2>1. /\ analysed \in Seq(Pairs) /\ carried \in Seq(Pairs) /\ ring' \in Seq(Pairs)
        /\ taken \in Seq(Pairs) /\ frames \in Seq(Pairs) /\ carried' \in Seq(Pairs)
    BY <1>1, <1>3, <1>8 DEF BufferInv
  <2>2. accepted = Cat(Cat(analysed, carried), ring)
    BY DEF BufferInv, NothingLost, Cat
  <2>3. ring = Cat(taken, ring')
    BY <1>1, <1>3 DEF Cat
  <2>4. Cat(carried, taken) = Cat(frames, carried')
    BY <1>8 DEF total, Cat
  <2>5. analysed' = Cat(analysed, frames)
    BY <1>1 DEF frames, Cat
  <2>6. accepted = Cat(Cat(analysed', carried'), ring')
    BY <2>1, <2>2, <2>3, <2>4, <2>5, Regroup
  <2> QED BY <1>1, <2>6 DEF NothingLost, Cat
<1>12. BufferInv'
  <2>1. ring' \in Seq(Pairs) /\ Len(ring') <= Capacity
    BY <1>1, <1>2, <1>3, ShapeAssumption DEF BufferInv
  <2>2. Len(carried') < channels' /\ Multiple(Len(analysed'), channels')
    BY <1>1, <1>5, <1>8, <1>10, SameChannels
  <2>3. accepted' \in Seq(Pairs)
    BY <1>1 DEF BufferInv
  <2> QED BY <1>8, <1>9, <1>11, <2>1, <2>2, <2>3 DEF BufferInv
<1>13. ProducerInv'
  <2>1. vacant_len' >= vacant_len /\ vacant_len \in Int /\ vacant_len' \in Int
    BY <1>1, <1>2, <1>3, ShapeAssumption DEF vacant_len, BufferInv
  <2>2. channels' = channels
    BY <1>1, SameChannels
  <2>3. Begun' = Begun
    BY <1>1 DEF Begun
  <2>4. Multiple(Len(accepted') - Begun', channels')
    BY <1>1, <2>2, <2>3 DEF ProducerInv
  <2>5. ppc' = "push" =>
          room' \in 0..Len(data') /\ room' <= vacant_len' /\ Multiple(room', channels')
    BY <1>1, <2>1, <2>2 DEF ProducerInv
  <2>6. ppc' = "sample" =>
          index' \in 1..channels' /\ Len(data') >= Hw /\ vacant_len' >= channels' - index' + 1
    BY <1>1, <2>1, <2>2, ChannelFacts DEF ProducerInv
  <2> QED BY <1>1, <2>4, <2>5, <2>6 DEF ProducerInv
<1>14. ExitInv'
  BY <1>1 DEF ExitInv
<1> QED BY <1>12, <1>13, <1>14

\* The invariant is inductive.
LEMMA StepRing == RingInv /\ [Next]_vars => RingInv'
<1> SUFFICES ASSUME RingInv, [Next]_vars PROVE RingInv'
  OBVIOUS
<1>1. ASSUME NEW frames \in 0..MaxDelivery, NEW tail \in 0..(Hw - 1), Deliver(frames, tail)
      PROVE  RingInv'
  BY <1>1, DeliverKeeps, ShapeAssumption
<1>2. CASE ProducerStep
  BY <1>2, MeasureSliceKeeps, PushSliceKeeps, AdmitFrameKeeps, PushSampleKeeps DEF ProducerStep
<1>3. CASE DropStream \/ ClearFlag \/ SignalWorkers
  BY <1>3, StopKeeps
<1>4. CASE Analyser
  BY <1>4, LoopCheckKeeps, PopAndProcessKeeps DEF Analyser
<1>5. CASE UNCHANGED vars
  <2>1. BufferInv'
    BY <1>5, BuffersKept DEF vars, producerVars, analyserVars, RingInv
  <2>2. ProducerInv' /\ ExitInv'
    BY <1>5, SameChannels
       DEF vars, producerVars, analyserVars, RingInv, ProducerInv, Begun, ExitInv, vacant_len
  <2> QED BY <2>1, <2>2 DEF RingInv
<1> QED BY <1>1, <1>2, <1>3, <1>4, <1>5 DEF Next

\* RingInv holds throughout.
LEMMA RingInvariant == Spec => []RingInv
BY InitRing, StepRing, PTL DEF Spec

\* Every accepted sample is queued, carried or analysed, in capture order.
THEOREM InOrderOnce == Spec => []NothingLost
<1>1. RingInv => NothingLost
  BY DEF RingInv, BufferInv
<1> QED BY <1>1, RingInvariant, PTL

\* After an orderly shutdown the analyser leaves nothing behind, not even part
\* of a frame.
THEOREM AllAnalysed == Spec => []DrainedAtExit
<1>1. RingInv => DrainedAtExit
  <2> SUFFICES ASSUME RingInv, producer # "generator", apc = "done", ~cutLive
               PROVE  analysed = accepted
    BY DEF DrainedAtExit
  <2> USE DEF RingInv
  <2>1. ring = << >> /\ ppc = "idle"
    BY DEF ExitInv
  <2>2. Multiple(Len(accepted), channels) /\ Len(accepted) \in Nat
    BY <2>1 DEF ProducerInv, Begun, BufferInv
  <2>3. /\ Multiple(Len(analysed), channels) /\ Len(analysed) \in Nat
        /\ Len(carried) \in 0..(channels - 1)
    BY ChannelFacts DEF BufferInv
  <2>4. accepted = analysed \o carried
    BY <2>1, ConcatEmptySeq, ConcatProperties DEF BufferInv, NothingLost
  <2>5. Len(accepted) = Len(analysed) + Len(carried)
    BY <2>4, ConcatProperties DEF BufferInv
  <2>6. Len(carried) = 0
    BY <2>2, <2>3, <2>5, WholeFacts
  <2> QED BY <2>4, <2>6, EmptySeq, ConcatEmptySeq DEF BufferInv
<1> QED BY <1>1, RingInvariant, PTL
-----------------------------------------------------------------------------
\* The quotient and the remainder are the only ones.
LEMMA DivModUnique ==
  ASSUME NEW c \in Nat \ {0}, NEW k \in Nat, NEW r \in 0..(c - 1)
  PROVE  (k * c + r) \div c = k /\ (k * c + r) % c = r
<1>1. (k * c + r) \div c = k
  BY Z3
<1>2. (k * c + r) % c = r
  BY Z3
<1> QED BY <1>1, <1>2

\* Whole frames before a sample do not move its place in its frame.
LEMMA PlaceAfter ==
  ASSUME NEW c \in Nat \ {0}, NEW k \in Nat, NEW x \in Nat
  PROVE  /\ (k * c + x) % c = x % c
         /\ (k * c + x) \div c = k + (x \div c)
<1> DEFINE q == x \div c
           r == x % c
<1>1. q \in Nat /\ r \in 0..(c - 1) /\ x = q * c + r
  BY DivMod
<1> HIDE DEF q, r
<1>2. k * c \in Nat /\ q * c \in Nat /\ k * c + q * c = (k + q) * c /\ k + q \in Nat
  BY <1>1, Multiples
<1>3. k * c + x = (k + q) * c + r
  BY <1>1, <1>2
<1>4. ((k + q) * c + r) \div c = k + q /\ ((k + q) * c + r) % c = r
  BY <1>1, <1>2, DivModUnique
<1> QED BY <1>3, <1>4 DEF q, r

\* The first frame's places, and how far back a frame begins.
LEMMA PlaceFacts ==
  ASSUME NEW c \in Nat \ {0}, NEW x \in Nat
  PROVE  /\ x % c \in 0..(c - 1) /\ x % c <= x /\ x \div c \in Nat
         /\ x < c => x % c = x /\ x \div c = 0
         /\ (x - (x % c)) \div c = x \div c /\ (x - (x % c)) \in Nat
<1> DEFINE q == x \div c
           r == x % c
<1>1. q \in Nat /\ r \in 0..(c - 1) /\ x = q * c + r
  BY DivMod
<1> HIDE DEF q, r
<1>2. q * c \in Nat
  BY <1>1, Multiples
<1>3. r <= x /\ x - r = q * c + 0 /\ 0 \in 0..(c - 1)
  BY <1>1, <1>2
<1>4. (q * c + 0) \div c = q
  BY <1>1, <1>3, DivModUnique
<1>5. x - r \in Nat /\ (x - r) \div c = q
  BY <1>1, <1>3, <1>4
<1>6. ASSUME x < c PROVE r = x /\ q = 0
  <2>1. 0 * c + x = x /\ 0 \in Nat /\ x \in 0..(c - 1)
    BY <1>6
  <2>2. (0 * c + x) \div c = 0 /\ (0 * c + x) % c = x
    BY <2>1, DivModUnique
  <2> QED BY <2>1, <2>2 DEF q, r
<1> QED BY <1>1, <1>3, <1>5, <1>6 DEF q, r

\* Fewer samples than k frames have fewer than k frames before them.
LEMMA FramesBelow ==
  ASSUME NEW c \in Nat \ {0}, NEW k \in Nat, NEW x \in Nat, x < k * c
  PROVE  (x \div c) + 1 <= k
<1> DEFINE q == x \div c
<1>1. q \in Nat /\ x % c \in Nat /\ x = q * c + (x % c)
  BY DivMod
<1> HIDE DEF q
<1>2. CASE q >= k
  <2>1. PICK d \in Nat : q = k + d
    <3>1. q - k \in Nat /\ q = k + (q - k)
      BY <1>1, <1>2
    <3> QED BY <3>1
  <2>2. q * c = k * c + d * c /\ k * c \in Nat /\ d * c \in Nat
    BY <2>1, Multiples
  <2> QED BY <1>1, <2>2
<1>3. CASE q < k
  BY <1>1, <1>3 DEF q
<1> QED BY <1>1, <1>2, <1>3
-----------------------------------------------------------------------------
(***************************************************************************)
(* The channels of what is analysed.                                       *)
(***************************************************************************)

\* Sample i of s has the channel of its place in its frame, the instant of that
\* frame's first sample, and a later one than the frame before.
Sound(s, order, c, i) ==
  LET position == (i - 1) % c
  IN /\ s[i].ch = order[position + 1]
     /\ s[i].frame = s[i - position].frame
     /\ i > c => s[i].frame > s[i - c].frame

\* The delivery is hardware frames, one after the other.
DataInv ==
  \A j \in 1..Len(data) :
    /\ data[j].ch = 1 + ((j - 1) % Hw)
    /\ data[j].frame = data[1].frame + ((j - 1) \div Hw)
    /\ data[j].frame <= captured

\* What was accepted is older than the delivery, but for the samples of the
\* frame that is being pushed: those are of its first frame.
OlderInv ==
  \A i \in 1..Len(accepted) :
    /\ accepted[i].frame <= captured
    /\ data # << >> /\ i <= Len(accepted) - Begun => accepted[i].frame < data[1].frame
    /\ i > Len(accepted) - Begun => accepted[i].frame = data[1].frame

AlignInv ==
  /\ DataInv /\ OlderInv
  /\ \A i \in 1..Len(accepted) : Sound(accepted, Order, channels, i)

\* What follows a sample does not matter to it.
LEMMA SoundPrefix ==
  ASSUME NEW s \in Seq(Pairs), NEW t \in Seq(Pairs), NEW order, NEW c \in Nat \ {0},
         NEW i \in 1..Len(s)
  PROVE  Sound(s, order, c, i) <=> Sound(s \o t, order, c, i)
<1>1. (i - 1) % c \in 0..(c - 1) /\ (i - 1) % c <= i - 1
  <2>1. i - 1 \in Nat
    OBVIOUS
  <2> QED BY <2>1, PlaceFacts
<1>2. \A j \in 1..Len(s) : (s \o t)[j] = s[j]
  BY ConcatProperties
<1>3. i - ((i - 1) % c) \in 1..Len(s) /\ (i > c => i - c \in 1..Len(s))
  BY <1>1
<1> QED BY <1>2, <1>3 DEF Sound

\* A push keeps what was accepted sound when its own samples are.
LEMMA PushSound ==
  ASSUME RingInv, AlignInv, NEW t \in Seq(Pairs), accepted' = accepted \o t,
         producer' = producer,
         \A j \in 1..Len(t) : Sound(accepted', Order, channels, Len(accepted) + j)
  PROVE  \A i \in 1..Len(accepted') : Sound(accepted', Order', channels', i)
<1>1. accepted \in Seq(Pairs) /\ channels \in Nat \ {0}
  BY ChannelFacts DEF RingInv, BufferInv
<1>2. Len(accepted') = Len(accepted) + Len(t) /\ Len(t) \in Nat /\ Len(accepted) \in Nat
  BY <1>1, ConcatProperties
<1>3. \A i \in 1..Len(accepted) : Sound(accepted', Order, channels, i)
  BY <1>1, SoundPrefix DEF AlignInv
<1>4. ASSUME NEW i \in 1..Len(accepted') PROVE Sound(accepted', Order, channels, i)
  <2>1. CASE i <= Len(accepted)
    BY <1>2, <1>3, <2>1
  <2>2. CASE i > Len(accepted)
    <3>1. i - Len(accepted) \in 1..Len(t) /\ i = Len(accepted) + (i - Len(accepted))
      BY <1>2, <2>2
    <3> QED BY <3>1
  <2> QED BY <1>2, <2>1, <2>2
<1>5. Order' = Order /\ channels' = channels
  BY DEF channels, Order
<1> QED BY <1>4, <1>5

\* The samples of the first frame of a delivery.
LEMMA FirstFrame ==
  ASSUME DataInv, NEW h \in 1..Hw, Len(data) >= Hw, data \in Seq(Pairs)
  PROVE  data[h].frame = data[1].frame /\ data[h].ch = h /\ data[1].frame \in Int
<1>1. Hw \in Nat \ {0} /\ h - 1 \in Nat /\ h - 1 < Hw
  BY ShapeAssumption
<1>2. (h - 1) % Hw = h - 1 /\ (h - 1) \div Hw = 0
  BY <1>1, PlaceFacts
<1>3. data[1] \in Pairs /\ h \in 1..Len(data)
  BY <1>1
<1>4. data[1].frame \in Int
  BY <1>3 DEF Pairs
<1>5. data[h].ch = 1 + (h - 1) /\ data[h].frame = data[1].frame + 0
  BY <1>2, <1>3 DEF DataInv
<1> QED BY <1>1, <1>4, <1>5

\* What is left of a delivery behind its first frame is a delivery of later
\* frames.
LEMMA NextFrame ==
  ASSUME DataInv, data \in Seq(Pairs), Len(data) >= Hw,
         data' = Drop(data, Hw), captured' = captured
  PROVE  DataInv' /\ (data' # << >> => data'[1].frame > data[1].frame)
<1>1. Hw \in Nat \ {0} /\ Len(data) \in Nat
  BY ShapeAssumption
<1>2. /\ data' \in Seq(Pairs) /\ Len(data') = Len(data) - Hw
      /\ \A j \in 1..Len(data') : data'[j] = data[j + Hw] /\ j + Hw \in 1..Len(data)
  BY <1>1 DEF Drop
<1>3. \A j \in 1..Len(data') :
        /\ ((j + Hw) - 1) % Hw = (j - 1) % Hw
        /\ ((j + Hw) - 1) \div Hw = 1 + ((j - 1) \div Hw)
  <2> TAKE j \in 1..Len(data')
  <2>1. j - 1 \in Nat /\ 1 * Hw + (j - 1) = (j + Hw) - 1
    BY <1>1
  <2>2. /\ (1 * Hw + (j - 1)) % Hw = (j - 1) % Hw
        /\ (1 * Hw + (j - 1)) \div Hw = 1 + ((j - 1) \div Hw)
    BY <1>1, <2>1, PlaceAfter
  <2> QED BY <2>1, <2>2
<1>4. 1 \in 1..Len(data) /\ data[1].frame \in Int
  <2>1. 1 \in 1..Len(data) /\ data[1] \in Pairs
    BY <1>1
  <2> QED BY <2>1 DEF Pairs
<1>5. \A j \in 1..Len(data') : (j - 1) \div Hw \in Nat
  <2> TAKE j \in 1..Len(data')
  <2>1. j - 1 \in Nat
    OBVIOUS
  <2> QED BY <1>1, <2>1, PlaceFacts
<1>6. \A j \in 1..Len(data') :
        /\ data'[j].ch = 1 + ((j - 1) % Hw)
        /\ data'[j].frame = data[1].frame + (1 + ((j - 1) \div Hw))
        /\ data'[j].frame <= captured
  BY <1>2, <1>3 DEF DataInv
<1>7. CASE data' = << >>
  BY <1>7 DEF DataInv
<1>8. CASE data' # << >>
  <2>1. 1 \in 1..Len(data') /\ data[1].frame \in Int
    BY <1>1, <1>2, <1>4, <1>8
  <2>2. (1 - 1) \div Hw = 0
    BY <1>1, PlaceFacts
  <2>3. data'[1].frame = data[1].frame + 1
    BY <1>6, <2>1, <2>2
  <2>4. ASSUME NEW j \in 1..Len(data')
        PROVE  data'[j].frame = data'[1].frame + ((j - 1) \div Hw)
    <3>1. \A a \in Int, x \in Nat : a + (1 + x) = (a + 1) + x
      OBVIOUS
    <3> QED BY <1>5, <1>6, <2>1, <2>3, <3>1, Zenon
  <2>5. DataInv'
    BY <1>6, <2>4 DEF DataInv
  <2> QED BY <2>1, <2>3, <2>5
<1> QED BY <1>7, <1>8

\* Accepted samples are samples.
LEMMA AcceptedTyped ==
  ASSUME RingInv
  PROVE  Len(accepted) \in Nat /\ \A i \in 1..Len(accepted) : accepted[i].frame \in Int
<1>1. accepted \in Seq(Pairs)
  BY DEF RingInv, BufferInv
<1>2. Len(accepted) \in Nat /\ \A i \in 1..Len(accepted) : accepted[i] \in Pairs
  BY <1>1
<1> QED BY <1>2 DEF Pairs

\* A step that neither delivers nor pushes.
LEMMA AlignKept ==
  ASSUME AlignInv, UNCHANGED <<producer, data, captured, accepted>>, Begun' = Begun
  PROVE  AlignInv'
<1>1. Order' = Order /\ channels' = channels
  BY DEF channels, Order
<1>2. DataInv' /\ OlderInv'
  BY DEF AlignInv, DataInv, OlderInv
<1> QED BY <1>1, <1>2 DEF AlignInv

\* A delivery is newer than everything accepted.
LEMMA DeliverAligned ==
  ASSUME RingInv, AlignInv, NEW frames \in Nat, NEW tail \in 0..(Hw - 1), Deliver(frames, tail)
  PROVE  AlignInv'
<1> DEFINE n == frames * Hw + tail
<1>0. Hw \in Nat \ {0} /\ frames * Hw \in Nat /\ tail \in Nat /\ n \in Nat
  BY ShapeAssumption, Multiples
<1> HIDE DEF n
<1>1. /\ captured \in Nat
      /\ captured' = captured + frames + (IF tail = 0 THEN 0 ELSE 1)
      /\ data' = Interleaved(captured, n)
      /\ ppc = "idle" /\ ppc' # "sample"
      /\ UNCHANGED <<producer, accepted>>
  BY DEF Deliver, RingInv, ProducerInv, n
<1>2. /\ Len(data') = n
      /\ \A j \in 1..n : data'[j] = [frame |-> captured + 1 + ((j - 1) \div Hw),
                                     ch |-> 1 + ((j - 1) % Hw)]
  BY <1>0, <1>1 DEF Interleaved
<1>3. ASSUME NEW j \in 1..n
      PROVE  /\ (j - 1) \div Hw \in Nat
             /\ captured + 1 + ((j - 1) \div Hw) <= captured'
  <2>0. j - 1 \in Nat
    BY <1>0
  <2>1. j - 1 \in Nat /\ (j - 1) \div Hw \in Nat
    BY <1>0, <2>0, PlaceFacts
  <2>2. CASE tail = 0
    <3>1. j - 1 < frames * Hw
      BY <1>0, <1>1, <2>2 DEF n
    <3>2. ((j - 1) \div Hw) + 1 <= frames
      BY <1>0, <1>1, <2>1, <3>1, FramesBelow
    <3> QED BY <1>0, <1>1, <2>1, <2>2, <3>2
  <2>3. CASE tail # 0
    <3>1. (frames + 1) * Hw = frames * Hw + Hw /\ frames + 1 \in Nat
      BY <1>0, <1>1, Multiples
    <3>2. j - 1 < (frames + 1) * Hw
      BY <1>0, <1>1, <3>1 DEF n
    <3>3. ((j - 1) \div Hw) + 1 <= frames + 1
      BY <1>0, <1>1, <2>1, <3>1, <3>2, FramesBelow
    <3> QED BY <1>0, <1>1, <2>1, <2>3, <3>3
  <2> QED BY <2>2, <2>3
<1>4. n > 0 => data'[1].frame = captured + 1
  <2>1. (1 - 1) \div Hw = 0
    BY <1>0, <1>1, PlaceFacts
  <2> QED BY <1>0, <1>1, <1>2, <2>1
<1>5. DataInv'
  <2>1. \A j \in 1..n : /\ data'[j].ch = 1 + ((j - 1) % Hw)
                        /\ data'[j].frame = captured + 1 + ((j - 1) \div Hw)
    BY <1>2
  <2>2. \A j \in 1..n : data'[1].frame = captured + 1
    BY <1>0, <1>1, <1>4
  <2> QED BY <1>2, <1>3, <2>1, <2>2 DEF DataInv
<1>6. OlderInv'
  <2>1. \A i \in 1..Len(accepted) : accepted[i].frame \in Int /\ accepted[i].frame <= captured
    BY AcceptedTyped DEF AlignInv, OlderInv
  <2>2. data' # << >> => data'[1].frame = captured + 1
    BY <1>0, <1>1, <1>2, <1>4 DEF Interleaved
  <2>3. Begun' = 0 /\ captured' \in Int /\ captured' >= captured /\ Len(accepted) \in Nat
    BY <1>0, <1>1 DEF Begun, RingInv, BufferInv
  <2> QED BY <1>0, <1>1, <2>1, <2>2, <2>3 DEF OlderInv
<1>7. Order' = Order /\ channels' = channels
  BY <1>0, <1>1 DEF channels, Order
<1> QED BY <1>0, <1>1, <1>5, <1>6, <1>7 DEF AlignInv

\* The next selected frame is admitted or dropped, or none is left.
LEMMA AdmitFrameAligned ==
  ASSUME RingInv, AlignInv, AdmitFrame
  PROVE  AlignInv'
<1>1. /\ UNCHANGED <<producer, accepted, captured>> /\ Begun = 0 /\ Begun' = 0
      /\ data' \in {data, << >>} \/ (Len(data) >= Hw /\ data' = Drop(data, Hw))
  BY ShapeAssumption DEF AdmitFrame, Begun, RingInv, ProducerInv
<1>2. data \in Seq(Pairs)
  BY DEF RingInv, ProducerInv
<1>3. Order' = Order /\ channels' = channels
  BY <1>1 DEF channels, Order
<1>4. CASE data' = data
  BY <1>1, <1>4, AlignKept
<1>5. CASE data' = << >>
  <2>1. DataInv'
    BY <1>5 DEF DataInv
  <2>2. OlderInv'
    BY <1>1, <1>5, AcceptedTyped DEF AlignInv, OlderInv
  <2> QED BY <1>1, <1>3, <2>1, <2>2 DEF AlignInv
<1>6. CASE data' = Drop(data, Hw) /\ Len(data) >= Hw
  <2>1. DataInv' /\ (data' # << >> => data'[1].frame > data[1].frame)
    BY <1>1, <1>2, <1>6, NextFrame DEF AlignInv
  <2>2. 1 \in 1..Hw
    BY ShapeAssumption
  <2>3. data[1].frame \in Int /\ data # << >>
    BY <1>2, <1>6, <2>2, FirstFrame, ShapeAssumption DEF AlignInv
  <2>4. data' # << >> => data'[1].frame \in Int
    <3>1. data' \in Seq(Pairs)
      BY <1>2, <1>6, Split, ShapeAssumption
    <3>2. data' # << >> => data'[1] \in Pairs
      BY <3>1
    <3> QED BY <3>2 DEF Pairs
  <2>5. \A i \in 1..Len(accepted) :
          accepted[i].frame <= captured /\ accepted[i].frame < data[1].frame
    BY <1>1, <2>3, AcceptedTyped DEF AlignInv, OlderInv
  <2>6. OlderInv'
    BY <1>1, <2>1, <2>3, <2>4, <2>5, AcceptedTyped DEF OlderInv
  <2> QED BY <1>1, <1>3, <2>1, <2>6 DEF AlignInv
<1> QED BY <1>1, <1>4, <1>5, <1>6

\* A published slice is whole hardware frames, newer than what was there.
LEMMA PushSliceAligned ==
  ASSUME RingInv, AlignInv, PushSlice
  PROVE  AlignInv'
<1> DEFINE t == SubSeq(data, 1, room)
           n == Len(accepted)
<1>1. /\ producer # "selected" /\ channels = Hw /\ Hw \in Nat \ {0}
      /\ data \in Seq(Pairs) /\ room \in 0..Len(data) /\ Len(data) \in Nat
      /\ accepted \in Seq(Pairs) /\ n \in Nat /\ Begun = 0 /\ Begun' = 0
  BY ChannelFacts, ShapeAssumption DEF PushSlice, Begun, RingInv, ProducerInv, BufferInv
<1>2. accepted' = accepted \o t /\ data' = << >> /\ UNCHANGED <<producer, captured>>
  BY DEF PushSlice, Push
<1>3. t \in Seq(Pairs) /\ Len(t) = room /\ \A j \in 1..room : t[j] = data[j]
  BY <1>1
<1> HIDE DEF t
<1>4. PICK k \in Nat : n = k * Hw
  BY <1>1 DEF RingInv, ProducerInv, Multiple
<1>5. /\ Len(accepted') = n + room
      /\ \A i \in 1..n : accepted'[i] = accepted[i]
      /\ \A j \in 1..room : accepted'[n + j] = data[j]
  <2>1. /\ Len(accepted') = n + Len(t)
        /\ \A i \in 1..(n + Len(t)) :
             accepted'[i] = IF i <= n THEN accepted[i] ELSE t[i - n]
    BY <1>1, <1>2, <1>3, ConcatProperties
  <2> HIDE DEF n
  <2>2. \A i \in 1..n : accepted'[i] = accepted[i]
    BY <1>1, <1>3, <2>1
  <2>3. ASSUME NEW j \in 1..room PROVE accepted'[n + j] = data[j]
    <3>1. n + j \in 1..(n + Len(t)) /\ ~(n + j <= n) /\ (n + j) - n = j
      BY <1>1, <1>3
    <3> QED BY <1>3, <2>1, <3>1
  <2> QED BY <1>3, <2>1, <2>2, <2>3
<1> HIDE DEF n
<1>6. \A j \in 1..room :
        /\ data[j].ch = 1 + ((j - 1) % Hw)
        /\ data[j].frame = data[1].frame + ((j - 1) \div Hw)
        /\ data[j].frame <= captured
  BY <1>1 DEF AlignInv, DataInv
<1>7. ASSUME NEW j \in 1..room
      PROVE  Sound(accepted', Order, channels, n + j)
  <2> DEFINE x == j - 1
             p == x % Hw
  <2>1. x \in Nat /\ 1 \in 1..room /\ j \in Nat
    BY <1>1
  <2>2. /\ p \in 0..(Hw - 1) /\ p <= x /\ x \div Hw \in Nat
        /\ (x - p) \div Hw = x \div Hw /\ x - p \in Nat
    BY <1>1, <2>1, PlaceFacts
  <2>3. ((n + j) - 1) % channels = p
    <3>1. (k * Hw + x) % Hw = x % Hw
      BY <1>1, <2>1, PlaceAfter
    <3>2. (n + j) - 1 = k * Hw + x
      BY <1>1, <1>4
    <3> QED BY <1>1, <3>1, <3>2
  <2>4. data[1].frame \in Int /\ data # << >>
    <3>1. data[1] \in Pairs /\ data # << >>
      BY <1>1, <2>1
    <3> QED BY <3>1 DEF Pairs
  <2>5. accepted'[n + j].ch = Order[p + 1]
    <3>1. Order[p + 1] = p + 1
      BY <1>1, <2>2 DEF Order
    <3>2. data[j].ch = 1 + p
      BY <1>6
    <3> QED BY <1>5, <2>2, <3>1, <3>2
  <2>6. accepted'[n + j].frame = accepted'[(n + j) - p].frame
    <3>1. j - p \in 1..room /\ (n + j) - p = n + (j - p) /\ (j - p) - 1 = x - p
      BY <1>1, <2>1, <2>2
    <3>2. data[j - p].frame = data[1].frame + ((x - p) \div Hw)
      BY <1>6, <3>1
    <3>3. data[j].frame = data[1].frame + (x \div Hw)
      BY <1>6
    <3>4. data[j - p].frame = data[j].frame
      BY <2>2, <3>2, <3>3
    <3>5. accepted'[(n + j) - p] = data[j - p]
      BY <1>5, <3>1
    <3> QED BY <1>5, <3>4, <3>5
  <2>7. ASSUME n + j > Hw
        PROVE  accepted'[n + j].frame > accepted'[(n + j) - Hw].frame
    <3>1. data[j].frame = data[1].frame + (x \div Hw)
      BY <1>6
    <3>2. CASE j > Hw
      <4>1. j - Hw \in 1..room /\ (n + j) - Hw = n + (j - Hw) /\ (j - Hw) - 1 \in Nat
            /\ x = 1 * Hw + ((j - Hw) - 1)
        BY <1>1, <2>1, <3>2
      <4>2. x \div Hw = 1 + (((j - Hw) - 1) \div Hw)
        <5>1. (1 * Hw + ((j - Hw) - 1)) \div Hw = 1 + (((j - Hw) - 1) \div Hw)
          BY <1>1, <4>1, PlaceAfter
        <5> QED BY <4>1, <5>1
      <4>3. ((j - Hw) - 1) \div Hw \in Nat
        BY <1>1, <4>1, PlaceFacts
      <4>4. data[j - Hw].frame = data[1].frame + (((j - Hw) - 1) \div Hw)
        BY <1>6, <4>1
      <4>5. accepted'[n + j] = data[j] /\ accepted'[(n + j) - Hw] = data[j - Hw]
        BY <1>5, <4>1
      <4>6. \A a \in Int, b \in Nat : a + (1 + b) > a + b
        OBVIOUS
      <4> QED BY <2>4, <3>1, <4>2, <4>3, <4>4, <4>5, <4>6
    <3>3. CASE ~(j > Hw)
      <4>1. (n + j) - Hw \in 1..n
        BY <1>1, <2>1, <2>7, <3>3
      <4>2. accepted[(n + j) - Hw].frame < data[1].frame
        BY <1>1, <2>4, <4>1 DEF AlignInv, OlderInv, n
      <4>3. accepted[(n + j) - Hw].frame \in Int
        BY <4>1, AcceptedTyped DEF n
      <4>4. accepted'[n + j] = data[j] /\ accepted'[(n + j) - Hw] = accepted[(n + j) - Hw]
        BY <1>5, <4>1
      <4>5. \A a, d \in Int, b \in Nat : d < a => a + b > d
        OBVIOUS
      <4> QED BY <2>2, <2>4, <3>1, <4>2, <4>3, <4>4, <4>5
    <3> QED BY <3>2, <3>3
  <2> HIDE DEF p, x
  <2> QED BY <1>1, <2>3, <2>5, <2>6, <2>7 DEF Sound
<1>8. \A i \in 1..Len(accepted') : Sound(accepted', Order', channels', i)
  BY <1>2, <1>3, <1>7, PushSound DEF n
<1>9. DataInv'
  BY <1>2 DEF DataInv
<1>10. OlderInv'
  <2>1. ASSUME NEW i \in 1..Len(accepted') PROVE accepted'[i].frame <= captured
    <3>1. CASE i <= n
      BY <1>1, <1>5, <3>1 DEF AlignInv, OlderInv, n
    <3>2. CASE i > n
      <4>1. i - n \in 1..room /\ i = n + (i - n)
        BY <1>1, <1>5, <3>2
      <4>2. accepted'[i] = data[i - n]
        BY <1>5, <4>1
      <4> QED BY <1>6, <4>1, <4>2
    <3> QED BY <1>1, <1>5, <3>1, <3>2
  <2>2. Len(accepted') \in Nat
    BY <1>1, <1>5
  <2> QED BY <1>1, <1>2, <2>1, <2>2 DEF OlderInv
<1> QED BY <1>8, <1>9, <1>10 DEF AlignInv

\* A sample of a selected frame follows the ones of that frame before it.
LEMMA PushSampleAligned ==
  ASSUME RingInv, AlignInv, PushSample
  PROVE  AlignInv'
<1> DEFINE h == Selected[index]
           n == Len(accepted)
           c == channels
<1>1. /\ producer = "selected" /\ c \in Nat \ {0} /\ c = Len(Selected) /\ index \in 1..c
      /\ data \in Seq(Pairs) /\ Len(data) >= Hw /\ h \in 1..Hw /\ Hw \in Nat \ {0}
      /\ accepted \in Seq(Pairs) /\ n \in Nat /\ Begun = index - 1
  BY SamplePushed, ChannelFacts, ShapeAssumption
     DEF PushSample, Begun, RingInv, ProducerInv, BufferInv
<1>2. /\ accepted' = accepted \o <<data[h]>> /\ UNCHANGED <<producer, captured>>
      /\ IF index < c THEN index' = index + 1 /\ ppc' = "sample" /\ data' = data
                      ELSE ppc' = "frame" /\ data' = Drop(data, Hw)
  BY SamplePushed DEF PushSample, Push
<1>3. PICK k \in Nat : n - (index - 1) = k * c
  BY <1>1 DEF RingInv, ProducerInv, Multiple
<1>4. /\ data[h].frame = data[1].frame /\ data[h].ch = h
      /\ data[1].frame \in Int /\ data[h] \in Pairs /\ data # << >> /\ data[h].frame <= captured
  <2>1. data[h] \in Pairs /\ data # << >> /\ h \in 1..Len(data)
    BY <1>1
  <2> QED BY <1>1, <2>1, FirstFrame DEF AlignInv, DataInv
<1>5. /\ Len(accepted') = n + 1 /\ accepted'[n + 1] = data[h]
      /\ \A i \in 1..n : accepted'[i] = accepted[i]
  BY <1>1, <1>2, <1>4
<1>6. \A i \in 1..n :
        /\ accepted[i].frame \in Int /\ accepted[i].frame <= captured
        /\ i <= n - (index - 1) => accepted[i].frame < data[1].frame
        /\ i > n - (index - 1) => accepted[i].frame = data[1].frame
  BY <1>1, <1>4, AcceptedTyped DEF AlignInv, OlderInv
<1>7. Order[index] = h
  BY <1>1 DEF Order
<1> HIDE DEF h, n, c
<1>8. Sound(accepted', Order, c, n + 1)
  <2>1. k * c \in Nat /\ n = k * c + (index - 1) /\ index - 1 \in 0..(c - 1)
    BY <1>1, <1>3, Multiples
  <2>2. ((n + 1) - 1) % c = index - 1
    <3>1. (k * c + (index - 1)) % c = index - 1
      BY <1>1, <2>1, DivModUnique
    <3>2. (n + 1) - 1 = k * c + (index - 1)
      BY <1>1, <2>1
    <3> QED BY <3>1, <3>2
  <2>3. accepted'[n + 1].ch = Order[(index - 1) + 1]
    BY <1>1, <1>4, <1>5, <1>7
  <2>4. accepted'[n + 1].frame = accepted'[(n + 1) - (index - 1)].frame
    <3>1. CASE index = 1
      BY <1>1, <3>1
    <3>2. CASE index # 1
      <4>1. (n + 1) - (index - 1) \in 1..n /\ (n + 1) - (index - 1) > n - (index - 1)
        BY <1>1, <2>1, <3>2
      <4> QED BY <1>4, <1>5, <1>6, <4>1
    <3> QED BY <3>1, <3>2
  <2>5. ASSUME n + 1 > c PROVE accepted'[n + 1].frame > accepted'[(n + 1) - c].frame
    <3>1. (n + 1) - c \in 1..n /\ (n + 1) - c <= n - (index - 1)
      BY <1>1, <2>5
    <3>2. accepted'[(n + 1) - c] = accepted[(n + 1) - c]
      BY <1>5, <3>1
    <3> QED BY <1>4, <1>5, <1>6, <3>1, <3>2
  <2> QED BY <2>2, <2>3, <2>4, <2>5 DEF Sound
<1>9. \A i \in 1..Len(accepted') : Sound(accepted', Order', channels', i)
  <2>1. <<data[h]>> \in Seq(Pairs) /\ Len(<<data[h]>>) = 1
    BY <1>4
  <2>2. \A j \in 1..1 : Sound(accepted', Order, channels, Len(accepted) + j)
    BY <1>8 DEF n, c
  <2> QED BY <1>2, <2>1, <2>2, PushSound
<1>10. DataInv' /\ OlderInv'
  <2>1. \A i \in 1..(n + 1) :
          /\ accepted'[i].frame \in Int /\ accepted'[i].frame <= captured
          /\ accepted'[i].frame <= data[1].frame
          /\ i <= (n + 1) - index => accepted'[i].frame < data[1].frame
          /\ i > (n + 1) - index => accepted'[i].frame = data[1].frame
    <3> TAKE i \in 1..(n + 1)
    <3>1. CASE i = n + 1
      BY <1>1, <1>4, <1>5, <3>1
    <3>2. CASE i # n + 1
      <4>1. i \in 1..n /\ accepted'[i] = accepted[i]
        BY <1>1, <1>5, <3>2
      <4>2. (n + 1) - index = n - (index - 1)
        BY <1>1
      <4> QED BY <1>1, <1>4, <1>6, <4>1, <4>2
    <3> QED BY <3>1, <3>2
  <2>2. CASE index < c
    <3>1. Begun' = index /\ data' = data
      BY <1>1, <1>2, <2>2 DEF Begun
    <3>2. DataInv'
      BY <1>2, <3>1 DEF AlignInv, DataInv
    <3> QED BY <1>2, <1>5, <2>1, <3>1, <3>2 DEF OlderInv
  <2>3. CASE ~(index < c)
    <3>1. Begun' = 0 /\ data' = Drop(data, Hw)
      BY <1>2, <2>3 DEF Begun
    <3>2. DataInv' /\ (data' # << >> => data'[1].frame > data[1].frame)
      BY <1>1, <1>2, <3>1, NextFrame DEF AlignInv
    <3>3. data' # << >> => data'[1].frame \in Int
      <4>1. data' \in Seq(Pairs)
        BY <1>1, <3>1, Split
      <4>2. data' # << >> => data'[1] \in Pairs
        BY <4>1
      <4> QED BY <4>2 DEF Pairs
    <3> QED BY <1>1, <1>2, <1>4, <1>5, <2>1, <3>1, <3>2, <3>3 DEF OlderInv
  <2> QED BY <2>2, <2>3
<1> QED BY <1>9, <1>10 DEF AlignInv

\* Alignment is inductive, given RingInv.
LEMMA StepAlign == RingInv /\ AlignInv /\ [Next]_vars => AlignInv'
<1> SUFFICES ASSUME RingInv, AlignInv, [Next]_vars PROVE AlignInv'
  OBVIOUS
<1>1. ASSUME NEW frames \in 0..MaxDelivery, NEW tail \in 0..(Hw - 1), Deliver(frames, tail)
      PROVE  AlignInv'
  BY <1>1, DeliverAligned, ShapeAssumption
<1>2. CASE PushSlice \/ AdmitFrame \/ PushSample
  BY <1>2, PushSliceAligned, AdmitFrameAligned, PushSampleAligned
<1>3. CASE MeasureSlice
  BY <1>3, AlignKept DEF MeasureSlice, Begun
<1>4. CASE DropStream \/ ClearFlag \/ SignalWorkers \/ LoopCheck \/ PopAndProcess \/ UNCHANGED vars
  <2>1. UNCHANGED <<producer, ppc, index, data, captured, accepted>>
    BY <1>4 DEF DropStream, ClearFlag, SignalWorkers, LoopCheck, PopAndProcess, vars,
                producerVars
  <2> QED BY <2>1, AlignKept DEF Begun
<1> QED BY <1>1, <1>2, <1>3, <1>4 DEF Next, ProducerStep, Analyser

\* The analyser is handed whole frames: their channels in order and from one
\* instant, later frames after earlier ones, for any capacity of the ring and
\* any selection of channels.
THEOREM FramesAligned == Spec => []ChannelAligned
<1>1. Init => AlignInv
  BY DEF Init, AlignInv, DataInv, OlderInv
<1>2. RingInv /\ AlignInv => ChannelAligned
  <2> SUFFICES ASSUME RingInv, AlignInv PROVE ChannelAligned
    OBVIOUS
  <2> DEFINE rest == carried \o ring
  <2>1. /\ analysed \in Seq(Pairs) /\ rest \in Seq(Pairs) /\ Len(analysed) \in Nat
        /\ channels \in Nat \ {0}
    BY ConcatProperties, ChannelFacts DEF RingInv, BufferInv
  <2>2. accepted = analysed \o rest
    <3>1. carried \in Seq(Pairs) /\ ring \in Seq(Pairs)
      BY DEF RingInv, BufferInv
    <3>2. accepted = Cat(Cat(analysed, carried), ring)
      BY DEF RingInv, BufferInv, NothingLost, Cat
    <3>3. accepted = Cat(analysed, Cat(carried, ring))
      BY <2>1, <3>1, <3>2, CatFacts
    <3> QED BY <3>3 DEF Cat
  <2> HIDE DEF rest
  <2>3. Len(accepted) = Len(analysed) + Len(rest) /\ Len(rest) \in Nat
    BY <2>1, <2>2, ConcatProperties
  <2>4. ASSUME NEW i \in 1..Len(analysed) PROVE Sound(analysed, Order, channels, i)
    <3>1. i \in 1..Len(accepted)
      BY <2>1, <2>3
    <3>2. Sound(analysed \o rest, Order, channels, i)
      BY <2>2, <3>1 DEF AlignInv
    <3> QED BY <2>1, <3>2, SoundPrefix
  <2>5. Len(analysed) % channels = 0
    <3>1. PICK k \in Nat : Len(analysed) = k * channels
      BY DEF RingInv, BufferInv, Multiple
    <3>2. 0 \in 0..(channels - 1) /\ k * channels \in Nat
      BY <2>1, Multiples
    <3>3. (k * channels + 0) % channels = 0
      BY <2>1, <3>2, DivModUnique
    <3> QED BY <3>1, <3>2, <3>3
  <2> QED BY <2>4, <2>5 DEF ChannelAligned, Sound
<1> QED BY <1>1, <1>2, RingInvariant, StepAlign, PTL DEF Spec
-----------------------------------------------------------------------------
\* The types: a delivery starts after what was captured before it, and whatever
\* is in a buffer was delivered.
TypesInv ==
  /\ data \in Seq(Samples) /\ accepted \in Seq(Samples)
  /\ captured \in 0..MaxFrames /\ room \in Nat /\ index \in 1..channels
  /\ apc \in {"check", "empty", "pop", "done"} /\ cutLive \in BOOLEAN

\* A delivery of the hardware channels, none of it before frame 1.
LEMMA DeliverTyped ==
  ASSUME RingInv, AlignInv, TypesInv, RingInv', AlignInv',
         NEW frames \in Nat, NEW tail \in 0..(Hw - 1), Deliver(frames, tail)
  PROVE  TypesInv'
<1> DEFINE n == frames * Hw + tail
<1>1. Hw \in Nat \ {0} /\ n \in Nat /\ captured \in Nat /\ MaxFrames \in Nat
  BY ShapeAssumption, Multiples DEF TypesInv
<1>2. /\ captured' \in 0..MaxFrames /\ data' = Interleaved(captured, n)
      /\ UNCHANGED <<producer, accepted, room, index, apc, cutLive>>
  BY <1>1 DEF Deliver, analyserVars, RingInv, ProducerInv
<1> HIDE DEF n
<1>3. Len(data') = n /\ DOMAIN data' = 1..n
  BY <1>1, <1>2 DEF Interleaved
<1>4. ASSUME NEW j \in 1..n PROVE data'[j] \in Samples
  <2>1. j - 1 \in Nat /\ (j - 1) \div Hw \in Nat /\ (j - 1) % Hw \in 0..(Hw - 1)
    <3>1. j - 1 \in Nat
      BY <1>1
    <3> QED BY <1>1, <3>1, PlaceFacts
  <2>2. data'[j] = [frame |-> captured + 1 + ((j - 1) \div Hw), ch |-> 1 + ((j - 1) % Hw)]
    BY <1>1, <1>2 DEF Interleaved
  <2>3. data'[j].frame <= captured'
    BY <1>3 DEF AlignInv, DataInv
  <2> QED BY <1>1, <1>2, <2>1, <2>2, <2>3 DEF Samples
<1>5. data' \in Seq(Samples)
  <2>1. data' = [j \in 1..n |-> data'[j]]
    BY <1>1, <1>2 DEF Interleaved
  <2>2. [j \in 1..n |-> data'[j]] \in Seq(Samples)
    BY <1>1, <1>4
  <2> QED BY <2>1, <2>2, Zenon
<1> QED BY <1>2, <1>5, SameChannels DEF TypesInv

LEMMA StepTypes ==
  RingInv /\ AlignInv /\ TypesInv /\ RingInv' /\ AlignInv' /\ [Next]_vars => TypesInv'
<1> SUFFICES ASSUME RingInv, AlignInv, TypesInv, RingInv', AlignInv', [Next]_vars
             PROVE  TypesInv'
  OBVIOUS
<1> USE DEF producerVars, analyserVars
<1>1. CASE \E frames \in 0..MaxDelivery, tail \in 0..(Hw - 1) : Deliver(frames, tail)
  <2>1. 0..MaxDelivery \subseteq Nat
    BY ShapeAssumption
  <2> QED BY <1>1, <2>1, DeliverTyped
<1>2. CASE MeasureSlice
  <2>1. room' \in Nat
    BY <1>2 DEF RingInv, ProducerInv, MeasureSlice
  <2> QED BY <1>2, <2>1, SameChannels DEF TypesInv, MeasureSlice
<1>3. CASE PushSlice
  <2>1. room \in 0..Len(data)
    BY <1>3 DEF RingInv, ProducerInv, PushSlice
  <2>2. SubSeq(data, 1, room) \in Seq(Samples)
    BY <2>1, Split DEF TypesInv
  <2>3. accepted' \in Seq(Samples) /\ << >> \in Seq(Samples)
    BY <1>3, <2>2, ConcatProperties DEF TypesInv, PushSlice, Push
  <2> QED BY <1>3, <2>3, SameChannels DEF TypesInv, PushSlice
<1>4. CASE AdmitFrame
  <2>1. Hw \in 0..Len(data) => Drop(data, Hw) \in Seq(Samples)
    BY Split DEF TypesInv
  <2>2. data' \in Seq(Samples)
    <3>1. << >> \in Seq(Samples) /\ Hw \in Nat /\ Len(data) \in Nat
      BY ShapeAssumption DEF TypesInv
    <3>2. Len(data) >= Hw => Drop(data, Hw) \in Seq(Samples)
      BY <2>1, <3>1
    <3>3. data' = << >> \/ data' = data \/ (Len(data) >= Hw /\ data' = Drop(data, Hw))
      BY <1>4, <3>1 DEF AdmitFrame
    <3> QED BY <3>1, <3>2, <3>3 DEF TypesInv
  <2>3. 1 \in 1..channels /\ channels' = channels
    BY <1>4, ChannelFacts, SameChannels DEF AdmitFrame
  <2> QED BY <1>4, <2>2, <2>3 DEF TypesInv, AdmitFrame
<1>5. CASE PushSample
  <2>1. index \in 1..Len(Selected) /\ Len(data) >= Hw /\ channels = Len(Selected)
    BY <1>5, ChannelFacts DEF RingInv, ProducerInv, PushSample
  <2>2. Hw \in 0..Len(data) /\ Selected[index] \in 1..Len(data)
    BY <2>1, ShapeAssumption DEF TypesInv
  <2>3. data[Selected[index]] \in Samples
    BY <2>2 DEF TypesInv
  <2>4. <<data[Selected[index]]>> \in Seq(Samples)
    BY <2>3
  <2>5. accepted' \in Seq(Samples)
    BY <1>5, <2>4, ConcatProperties DEF TypesInv, PushSample, Push
  <2>6. data' \in Seq(Samples)
    BY <1>5, <2>2, Split DEF TypesInv, PushSample
  <2>7. index' \in 1..channels /\ channels' = channels
    BY <1>5, ChannelFacts, SameChannels DEF TypesInv, PushSample
  <2> QED BY <1>5, <2>5, <2>6, <2>7 DEF TypesInv, PushSample
<1>6. CASE DropStream \/ ClearFlag \/ SignalWorkers
  BY <1>6, SameChannels DEF TypesInv, DropStream, ClearFlag, SignalWorkers
<1>7. CASE Analyser
  BY <1>7, SameChannels DEF TypesInv, Analyser, LoopCheck, ExitWhenEmpty, PopAndProcess
<1>8. CASE UNCHANGED vars
  BY <1>8, SameChannels DEF TypesInv, vars
<1> QED BY <1>1, <1>2, <1>3, <1>4, <1>5, <1>6, <1>7, <1>8 DEF Next, ProducerStep

\* The parts of a sequence of samples are sequences of samples.
LEMMA PartsTyped ==
  ASSUME NEW a \in Seq(Pairs), NEW b \in Seq(Pairs), a \o b \in Seq(Samples)
  PROVE  a \in Seq(Samples) /\ b \in Seq(Samples)
<1>1. /\ Len(a \o b) = Len(a) + Len(b) /\ Len(a) \in Nat /\ Len(b) \in Nat
      /\ \A i \in 1..Len(a \o b) : (a \o b)[i] \in Samples
      /\ \A i \in 1..Len(a) : (a \o b)[i] = a[i]
      /\ \A i \in 1..Len(b) : (a \o b)[Len(a) + i] = b[i]
  BY ConcatProperties
<1>2. \A i \in 1..Len(a) : a[i] \in Samples
  BY <1>1
<1>3. ASSUME NEW i \in 1..Len(b) PROVE b[i] \in Samples
  <2>1. Len(a) + i \in 1..Len(a \o b)
    BY <1>1
  <2> QED BY <1>1, <2>1
<1> QED BY <1>2, <1>3

\* The ring never holds more than its capacity nor the analyser a whole frame
\* between two pops, and what is in any buffer is a sample of a frame and a
\* channel that the hardware delivered.
THEOREM TypeCorrect == Spec => []TypeOK
<1>1. Init => TypesInv
  <2> SUFFICES ASSUME Init PROVE TypesInv
    OBVIOUS
  <2>1. << >> \in Seq(Samples) /\ 0 \in 0..MaxFrames
    BY ShapeAssumption
  <2>2. 1 \in 1..channels
    BY ChannelFacts
  <2> QED BY <2>1, <2>2 DEF Init, TypesInv
<1>2. Init => AlignInv
  BY DEF Init, AlignInv, DataInv, OlderInv
<1>3. RingInv /\ TypesInv => TypeOK
  <2> SUFFICES ASSUME RingInv, TypesInv PROVE TypeOK
    OBVIOUS
  <2>1. ring \in Seq(Pairs) /\ carried \in Seq(Pairs) /\ analysed \in Seq(Pairs)
    BY DEF RingInv, BufferInv
  <2>2. analysed \o carried \in Seq(Pairs) /\ accepted = (analysed \o carried) \o ring
    BY <2>1, ConcatProperties DEF RingInv, BufferInv, NothingLost
  <2>3. analysed \o carried \in Seq(Samples) /\ ring \in Seq(Samples)
    BY <2>1, <2>2, PartsTyped DEF TypesInv
  <2>4. analysed \in Seq(Samples) /\ carried \in Seq(Samples)
    BY <2>1, <2>3, PartsTyped
  <2> QED BY <2>3, <2>4 DEF RingInv, BufferInv, ProducerInv, ExitInv, TypesInv, TypeOK
<1>4. Spec => [](RingInv /\ AlignInv)
  BY <1>2, RingInvariant, StepAlign, PTL DEF Spec
<1>5. RingInv /\ AlignInv /\ TypesInv /\ (RingInv /\ AlignInv)' /\ [Next]_vars => TypesInv'
  BY StepTypes
<1> QED BY <1>1, <1>3, <1>4, <1>5, PTL DEF Spec
=============================================================================
