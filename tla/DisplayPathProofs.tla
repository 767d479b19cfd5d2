-------------------------- MODULE DisplayPathProofs --------------------------
(***************************************************************************)
(* For any number of channels, bands, analyses and MIDI events, and        *)
(* whatever the samples: a datagram is one analysis, a band recovers, a    *)
(* transport event is banged once and in order, and the receiver gets the  *)
(* analyses as LatestValue says, none older than the one before.           *)
(*                                                                         *)
(* The buffers travel: two are exchanged with each watch channel.  So that *)
(* the one the sender reads holds one analysis, all of them must, old ones *)
(* too (WholeInv); and none holds an analysis that a place further on has  *)
(* not been through (OrderInv).  An event travels with them, and every     *)
(* place it can be in and still be read holds a later one than the places  *)
(* it goes to next (EventInv).                                             *)
(***************************************************************************)
EXTENDS DisplayPath, TLAPS

\* A payload has a level for each channel, all of one analysis, and the bins of
\* a level followed its last finite sample or are silent.
Whole(p) ==
  /\ DOMAIN p = Channels
  /\ \A c \in Channels :
       /\ p[c].frame = p[1].frame
       /\ \A b \in Bands : p[c].bins[b] \in {p[c].sample, Cleared}

WholeInv ==
  /\ Whole(frame_data) /\ Whole(raw) /\ Whole(bin_bundle)
  /\ Whole(display.channels) /\ Whole(display_data.channels)

\* No filter is left overflowed; a silent band has a soft one; the others have
\* followed the last finite sample of their channel.
BandInv ==
  /\ DOMAIN analysers = Channels /\ DOMAIN heard = Channels
  /\ \A c \in Channels : \A b \in Bands :
       /\ analysers[c][b].filter \in {"soft", "loud"}
       /\ analysers[c][b].bin = Cleared => analysers[c][b].filter = "soft"
       /\ analysers[c][b].bin \in {heard[c], Cleared}

\* From one place to the next: waiting in AppState, in the mapper's hands, in
\* the channel, in the sender's hands, sent.
EventInv ==
  /\ osc \in {"bins", "steps", "transport"} => midi_snapshot = 0 \/ midi_snapshot > bang
  /\ display_changed => display.midi = 0 \/ (display.midi > bang /\ display.midi > midi_snapshot)
  /\ mapper = "send" =>
       \/ display_data.midi = 0
       \/ /\ display_data.midi > bang /\ display_data.midi > midi_snapshot
          /\ display_data.midi > display.midi
  /\ \/ midi_last_transport = 0
     \/ /\ midi_last_transport > bang /\ midi_last_transport > midi_snapshot
        /\ midi_last_transport > display.midi /\ midi_last_transport > display_data.midi

Shapes ==
  /\ display = [channels |-> display.channels, midi |-> display.midi]
  /\ display_data = [channels |-> display_data.channels, midi |-> display_data.midi]
  /\ frames \in Nat /\ events \in Nat
  /\ {bang, midi_snapshot, display.midi, display_data.midi, midi_last_transport} \subseteq 0..events
  /\ osc = "transport" => midi_snapshot # 0

PathInv == Shapes /\ WholeInv /\ BandInv /\ EventInv
-----------------------------------------------------------------------------
\* What one sample does to the bands of a channel.
LEMMA ProcessSampleFacts ==
  ASSUME NEW bands, NEW sample, NEW n \in Nat \ {0}, NEW last,
         \A b \in Bands : /\ bands[b].filter \in {"soft", "loud"}
                          /\ bands[b].bin = Cleared => bands[b].filter = "soft"
                          /\ bands[b].bin \in {last, Cleared},
         NEW after \in ProcessSample(bands, sample, n)
  PROVE  \A b \in Bands :
           /\ after[b].filter \in {"soft", "loud"}
           /\ after[b].bin = Cleared => after[b].filter = "soft"
           /\ after[b].bin \in {IF sample \in FiniteSamples THEN n ELSE last, Cleared}
           /\ sample = "soft" /\ bands[b].filter = "soft" => after[b].bin = n
<1>1. CASE sample \notin FiniteSamples
  BY <1>1 DEF ProcessSample, FiniteSamples
<1>2. CASE sample \in FiniteSamples
  <2>1. PICK filtered \in [Bands -> States] :
          /\ \A b \in Bands : filtered[b] \in FilterRun(sample, bands[b].filter)
          /\ after = EachBand(bands, filtered, n)
    BY <1>2 DEF ProcessSample
  <2> SUFFICES ASSUME NEW b \in Bands
               PROVE  /\ after[b].filter \in {"soft", "loud"}
                      /\ after[b].bin = Cleared => after[b].filter = "soft"
                      /\ after[b].bin \in {n, Cleared}
                      /\ sample = "soft" /\ bands[b].filter = "soft" => after[b].bin = n
    BY <1>2
  <2>2. after[b] = BandAfter(bands[b], filtered[b], n)
    BY <2>1 DEF EachBand
  <2>3. filtered[b] \in {"soft", "loud", "bad"} /\ n # Cleared
    BY <2>1, BandAssumption DEF States
  <2>4. sample = "soft" /\ bands[b].filter = "soft" => filtered[b] = "soft"
    BY <2>1 DEF FilterRun
  <2> QED BY <2>2, <2>3, <2>4 DEF BandAfter, ResetBand, Silent
<1> QED BY <1>1, <1>2

\* The channels, with the first among them.
LEMMA ChannelOne == 1 \in Channels
BY PathAssumption DEF Channels

\* The initial buffers hold the analysis with number 0.
LEMMA InitPath == Init => PathInv
<1> SUFFICES ASSUME Init PROVE PathInv
  OBVIOUS
<1> USE ChannelOne DEF Init
<1>1. Whole(NewPayload)
  BY DEF Whole, NewPayload, ZeroLevel
<1>2. WholeInv
  BY <1>1 DEF WholeInv
<1>3. BandInv
  BY DEF BandInv, NewAnalyser, Silent
<1>4. EventInv /\ Shapes
  BY DEF EventInv, Shapes
<1> QED BY <1>2, <1>3, <1>4 DEF PathInv

\* An analysis fills a buffer and exchanges it.
LEMMA AnalyseKeeps ==
  ASSUME PathInv, Analyse
  PROVE  PathInv'
<1> USE DEF PathInv
<1>1. PICK chunk \in Chunks :
        /\ analysers' \in Choices([c \in Channels |->
                                    ProcessSample(analysers[c], chunk[c], frames')])
        /\ heard' = [c \in Channels |-> IF chunk[c] \in FiniteSamples THEN frames' ELSE heard[c]]
  BY DEF Analyse
<1>2. frames' = frames + 1 /\ frames' \in Nat \ {0}
  BY DEF Analyse, Shapes
<1>3. /\ UNCHANGED <<mapper_vars, midi_vars, osc_vars, display_vars>>
      /\ DOMAIN analysers' = Channels
      /\ \A c \in Channels : analysers'[c] \in ProcessSample(analysers[c], chunk[c], frames')
  BY <1>1 DEF Analyse, Choices
<1>4. BandInv'
  <2>1. DOMAIN heard' = Channels /\ DOMAIN analysers' = Channels
    BY <1>1, <1>3
  <2>2. ASSUME NEW c \in Channels, NEW b \in Bands
        PROVE  /\ analysers'[c][b].filter \in {"soft", "loud"}
               /\ analysers'[c][b].bin = Cleared => analysers'[c][b].filter = "soft"
               /\ analysers'[c][b].bin \in {heard'[c], Cleared}
    <3>1. \A k \in Bands : /\ analysers[c][k].filter \in {"soft", "loud"}
                           /\ analysers[c][k].bin = Cleared => analysers[c][k].filter = "soft"
                           /\ analysers[c][k].bin \in {heard[c], Cleared}
      BY DEF BandInv
    <3>2. heard'[c] = IF chunk[c] \in FiniteSamples THEN frames' ELSE heard[c]
      BY <1>1
    <3>3. analysers'[c] \in ProcessSample(analysers[c], chunk[c], frames')
      BY <1>3
    <3> QED BY <1>2, <3>1, <3>2, <3>3, ProcessSampleFacts
  <2> QED BY <2>1, <2>2 DEF BandInv
<1>5. WholeInv'
  <2> DEFINE written == [c \in Channels |-> [frame |-> frames', sample |-> heard'[c],
                                             bins |-> current_bins(analysers'[c])]]
  <2>1. Whole(written)
    BY <1>4, ChannelOne DEF Whole, BandInv, current_bins
  <2>2. \/ frame_data' = written /\ raw' = raw
        \/ raw' = written /\ frame_data' = raw
    BY DEF Analyse
  <2>3. Whole(frame_data)' /\ Whole(raw)'
    BY <2>1, <2>2 DEF WholeInv, Whole
  <2>4. bin_bundle' = bin_bundle /\ display' = display /\ display_data' = display_data
    BY <1>3 DEF mapper_vars, osc_vars, display_vars
  <2> QED BY <2>3, <2>4 DEF WholeInv, Whole
<1>6. EventInv' /\ Shapes'
  BY <1>2, <1>3 DEF EventInv, Shapes, mapper_vars, midi_vars, osc_vars, display_vars
<1> QED BY <1>4, <1>5, <1>6

\* The analyser leaves.
LEMMA AnalyserExitsKeeps ==
  ASSUME PathInv, AnalyserExits
  PROVE  PathInv'
<1> USE DEF PathInv, AnalyserExits,
    analyser_vars, raw_vars, mapper_vars, midi_vars, osc_vars, display_vars
<1>1. Shapes'
  BY DEF Shapes
<1>2. WholeInv'
  BY DEF Shapes, WholeInv, Whole
<1>3. BandInv'
  BY DEF BandInv
<1>4. EventInv'
  BY DEF Shapes, EventInv
<1> QED BY <1>1, <1>2, <1>3, <1>4

\* The mapper copies, takes the event and exchanges its buffer.
LEMMA MapperKeeps ==
  ASSUME PathInv, Mapper
  PROVE  PathInv'
<1> USE DEF PathInv, Mapper, MapperStops, MapperClosed, MapperEnters, MapperFirst, MapperChanged, MapperTick,
    read_midi_snapshot, MapperSends, MapperExit, SwapTransport,
    analyser_vars, raw_vars, mapper_vars, midi_vars, osc_vars, display_vars
<1>1. Shapes'
  BY DEF Shapes
<1>2. WholeInv'
  BY DEF Shapes, WholeInv, Whole
<1>3. BandInv'
  BY DEF BandInv
<1>4. EventInv'
  BY DEF Shapes, EventInv
<1> QED BY <1>1, <1>2, <1>3, <1>4

\* The sender fills its template and sends.
LEMMA OscKeeps ==
  ASSUME PathInv, Osc
  PROVE  PathInv'
<1> USE DEF PathInv, Osc, OscEnters, OscClosed, OscUpdates, SendBins, SendSteps, SendTransport,
    analyser_vars, raw_vars, mapper_vars, midi_vars, osc_vars, display_vars
<1>1. Shapes'
  BY DEF Shapes
<1>2. WholeInv'
  <2>1. /\ frame_data' = frame_data /\ raw' = raw
        /\ display' = display /\ display_data' = display_data
    OBVIOUS
  <2>2. Whole(bin_bundle)'
    <3>1. CASE OscUpdates
      <4>1. bin_bundle' = [c \in Channels |-> display.channels[c]]
        BY <3>1 DEF WholeInv, Whole
      <4> QED BY <4>1, ChannelOne DEF WholeInv, Whole
    <3>2. CASE ~OscUpdates
      <4>1. bin_bundle' = bin_bundle
        BY <3>2
      <4> QED BY <4>1 DEF WholeInv, Whole
    <3> QED BY <3>1, <3>2
  <2> QED BY <2>1, <2>2 DEF WholeInv, Whole
<1>3. BandInv'
  BY DEF BandInv
<1>4. EventInv'
  BY DEF Shapes, EventInv
<1> QED BY <1>1, <1>2, <1>3, <1>4

\* A new event has a number of its own.
LEMMA RecordTransportKeeps ==
  ASSUME PathInv, RecordTransport
  PROVE  PathInv'
<1> USE DEF PathInv, RecordTransport,
    analyser_vars, raw_vars, mapper_vars, midi_vars, osc_vars, display_vars
<1>1. Shapes'
  BY DEF Shapes
<1>2. WholeInv'
  BY DEF Shapes, WholeInv, Whole
<1>3. BandInv'
  BY DEF BandInv
<1>4. EventInv'
  BY DEF Shapes, EventInv
<1> QED BY <1>1, <1>2, <1>3, <1>4

\* The flag is no part of the invariant.
LEMMA ClearFlagKeeps ==
  ASSUME PathInv, ClearFlag
  PROVE  PathInv'
<1> USE DEF PathInv, ClearFlag,
    analyser_vars, raw_vars, mapper_vars, midi_vars, osc_vars, display_vars
<1>1. Shapes'
  BY DEF Shapes
<1>2. WholeInv'
  BY DEF Shapes, WholeInv, Whole
<1>3. BandInv'
  BY DEF BandInv
<1>4. EventInv'
  BY DEF Shapes, EventInv
<1> QED BY <1>1, <1>2, <1>3, <1>4

\* The invariant is inductive.
LEMMA StepPath == PathInv /\ [Next]_vars => PathInv'
<1> SUFFICES ASSUME PathInv, [Next]_vars PROVE PathInv'
  OBVIOUS
<1>1. CASE Next
  <2>1. CASE Ended
    BY <2>1 DEF Ended, vars, analyser_vars, raw_vars, mapper_vars, midi_vars, osc_vars,
       display_vars, PathInv, Shapes, WholeInv, Whole, BandInv, EventInv
  <2> QED BY <1>1, <2>1, AnalyseKeeps, AnalyserExitsKeeps, MapperKeeps, OscKeeps,
             RecordTransportKeeps, ClearFlagKeeps DEF Next
<1>2. CASE UNCHANGED vars
  BY <1>2 DEF vars, analyser_vars, raw_vars, mapper_vars, midi_vars, osc_vars, display_vars,
     PathInv, Shapes, WholeInv, Whole, BandInv, EventInv
<1> QED BY <1>1, <1>2
-----------------------------------------------------------------------------
\* PathInv holds throughout.
LEMMA PathInvariant == Spec => []PathInv
BY InitPath, StepPath, PTL DEF Spec

\* Every bundle handed to the socket is one analysis, through both exchanges
\* of buffers and whichever bands overflowed.
THEOREM DatagramsWhole == Spec => []DatagramIsOneFrame
<1>1. PathInv => DatagramIsOneFrame
  BY DEF PathInv, WholeInv, Whole, DatagramIsOneFrame
<1> QED BY <1>1, PathInvariant, PTL

\* A band that an overflow cleared follows the next soft sample.
THEOREM BandsRecover == Spec => []BandRecovers
<1>1. PathInv => BandRecovers
  <2> SUFFICES ASSUME PathInv, NEW c \in Channels, NEW b \in Bands,
                      analysers[c][b].bin = Cleared,
                      NEW after \in ProcessSample(analysers[c], "soft", frames + 1)
               PROVE  after[b].bin = frames + 1
    BY DEF BandRecovers
  <2>1. analysers[c][b].filter = "soft"
    BY DEF PathInv, BandInv
  <2>2. \A k \in Bands : /\ analysers[c][k].filter \in {"soft", "loud"}
                         /\ analysers[c][k].bin = Cleared => analysers[c][k].filter = "soft"
                         /\ analysers[c][k].bin \in {heard[c], Cleared}
    BY DEF PathInv, BandInv
  <2>3. PICK n \in Nat \ {0} : n = frames + 1
    BY DEF PathInv, Shapes
  <2>4. after \in ProcessSample(analysers[c], "soft", n)
    BY <2>3
  <2>5. after[b].bin = n
    BY <2>1, <2>2, <2>4, ProcessSampleFacts
  <2> QED BY <2>3, <2>5
<1> QED BY <1>1, PathInvariant, PTL

\* A transport event is banged at most once and never after a later one.
THEOREM BangsInOrder == Spec => []BangsNotRepeated
<1>1. PathInv => BangsNotRepeated
  BY DEF PathInv, EventInv, Shapes, BangsNotRepeated
<1> QED BY <1>1, PathInvariant, PTL
-----------------------------------------------------------------------------
(***************************************************************************)
(* The receiver is given the latest analysis.                              *)
(***************************************************************************)

\* The analysis a buffer has the levels of.
Number(p) == p[1].frame

\* From one place to the next, an analysis is no older than in the place after.
OrderInv ==
  /\ {Number(bin_bundle), Number(display.channels), Number(display_data.channels),
      Number(raw)} \subseteq Nat
  /\ Number(bin_bundle) <= Number(display.channels)
  /\ Number(display.channels) <= Number(raw) /\ Number(raw) <= frames
  /\ mapper \in {"midi", "send"} =>
       /\ Number(display.channels) <= Number(display_data.channels)
       /\ Number(display_data.channels) <= Number(raw)

\* The datagrams as a feed of analyses for one receiver: each number is
\* published by the analysis and given, without an offer, when the sender's
\* template takes it.
Receiver == "socket"
Always(n) == TRUE
Feed == INSTANCE LatestValue WITH
  First <- 0, Receivers <- {Receiver}, Sendable <- Always, published <- frames,
  held <- [r \in {Receiver} |-> Number(bin_bundle)], offered <- [r \in {Receiver} |-> 0]

\* What a step of the sender does to its template.
LEMMA TemplateFacts ==
  ASSUME PathInv, Osc
  PROVE  /\ UNCHANGED <<frames, raw, mapper, display, display_data>>
         /\ bin_bundle' = bin_bundle \/ Number(bin_bundle)' = Number(display.channels)
<1> USE DEF Osc, OscEnters, OscClosed, OscUpdates, SendBins, SendSteps, SendTransport,
    analyser_vars, raw_vars, mapper_vars, display_vars
<1>1. UNCHANGED <<frames, raw, mapper, display, display_data>>
  OBVIOUS
<1>2. CASE OscUpdates
  BY <1>2, ChannelOne DEF PathInv, WholeInv, Whole, Number
<1>3. CASE ~OscUpdates
  BY <1>3
<1> QED BY <1>1, <1>2, <1>3

\* An analysis is numbered one more than the last and goes to the channel, if
\* there is still a mapper at its other end.
LEMMA AnalysisFacts ==
  ASSUME Analyse
  PROVE  /\ frames' = frames + 1
         /\ UNCHANGED <<mapper, display, display_data, bin_bundle>>
         /\ raw' = raw \/ Number(raw)' = frames'
BY ChannelOne DEF Analyse, Number, mapper_vars, osc_vars, display_vars

\* No stage goes back to an older analysis, though two buffers take turns at
\* each exchange.
LEMMA StepOrder == PathInv /\ OrderInv /\ [Next]_vars => OrderInv'
<1> SUFFICES ASSUME PathInv, OrderInv, [Next]_vars PROVE OrderInv'
  OBVIOUS
<1>0. frames \in Nat
  BY DEF PathInv, Shapes
<1>1. CASE Analyse
  BY <1>0, <1>1, AnalysisFacts DEF OrderInv, Number
<1>2. CASE Osc
  BY <1>2, TemplateFacts DEF OrderInv, Number
<1>3. CASE Mapper
  <2> USE DEF OrderInv, Number, analyser_vars, raw_vars, osc_vars, display_vars, MapperExit
  <2>1. CASE MapperTick
    BY <2>1, <1>0 DEF MapperTick, PathInv, Shapes
  <2>2. CASE read_midi_snapshot
    BY <2>2, <1>0 DEF read_midi_snapshot, PathInv, Shapes
  <2>3. CASE MapperSends
    BY <2>3, <1>0 DEF MapperSends
  <2>4. CASE MapperStops \/ MapperClosed \/ MapperEnters \/ MapperFirst \/ MapperChanged
    BY <2>4, <1>0 DEF MapperStops, MapperClosed, MapperEnters, MapperFirst, MapperChanged
  <2> QED BY <1>3, <2>1, <2>2, <2>3, <2>4 DEF Mapper
<1>4. CASE AnalyserExits \/ RecordTransport \/ ClearFlag \/ Ended \/ UNCHANGED vars
  BY <1>4 DEF AnalyserExits, RecordTransport, ClearFlag, Ended, vars, analyser_vars, raw_vars,
     mapper_vars, osc_vars, display_vars, OrderInv, Number
<1> QED BY <1>1, <1>2, <1>3, <1>4 DEF Next

\* An analysis publishes, the sender's template is given, the rest stutters.
LEMMA RefineStep == PathInv /\ OrderInv /\ [Next]_vars => [Feed!Next]_(Feed!vars)
<1> SUFFICES ASSUME PathInv, OrderInv, [Next]_vars
             PROVE  Feed!Next \/ UNCHANGED Feed!vars
  OBVIOUS
<1>1. CASE Analyse
  BY <1>1, AnalysisFacts DEF Feed!Next, Feed!Publish, Number
<1>2. CASE Osc
  <2>1. CASE Number(bin_bundle)' = Number(bin_bundle)
    BY <1>2, <2>1, TemplateFacts DEF Feed!vars
  <2>2. CASE Number(bin_bundle)' # Number(bin_bundle)
    <3> DEFINE v == Number(display.channels)
    <3>1. Number(bin_bundle)' = v /\ frames' = frames
      BY <1>2, <2>2, TemplateFacts DEF Number
    <3>2. v \in (Number(bin_bundle) + 1)..frames
      BY <2>2, <3>1 DEF OrderInv, PathInv, Shapes
    <3>3. Feed!Give(Receiver)
      BY <3>1, <3>2 DEF Feed!Give, Feed!Newer, Always
    <3> QED BY <3>3 DEF Feed!Next
  <2> QED BY <2>1, <2>2
<1>3. CASE Mapper \/ AnalyserExits \/ RecordTransport \/ ClearFlag \/ Ended \/ UNCHANGED vars
  BY <1>3 DEF Mapper, MapperStops, MapperClosed, MapperEnters, MapperFirst, MapperChanged,
     MapperTick, read_midi_snapshot, MapperSends, AnalyserExits, RecordTransport, ClearFlag,
     Ended, vars, analyser_vars, osc_vars, Feed!vars, Number
<1> QED BY <1>1, <1>2, <1>3 DEF Next

\* The receiver of the datagrams sees the analyses in their order: the levels
\* of a bundle are never older than those of the bundle before, though the
\* mapper publishes one analysis many times and each exchange hands back a
\* buffer with an older one.
THEOREM ReceiverGetsLatest == Spec => Feed!Spec
<1>1. Init => Feed!Init /\ OrderInv
  BY ChannelOne DEF Init, Feed!Init, OrderInv, Number, NewPayload, ZeroLevel
<1>2. PathInv /\ OrderInv /\ [Next]_vars => OrderInv'
  BY StepOrder
<1>3. PathInv /\ OrderInv /\ [Next]_vars => [Feed!Next]_(Feed!vars)
  BY RefineStep
<1> QED BY <1>1, <1>2, <1>3, PathInvariant, PTL DEF Spec, Feed!Spec
=============================================================================
