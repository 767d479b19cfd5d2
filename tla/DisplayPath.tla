------------------------------ MODULE DisplayPath ------------------------------
(***************************************************************************)
(* One analysis on its way to a datagram: the vocoder of each channel, the *)
(* analyser's payload buffer, the watch channel to the mapper, the mapper's *)
(* 60 Hz copy with its MIDI snapshot, the watch channel to the OSC sender, *)
(* and the sender's packets.  Three threads and the MIDI writer, one step  *)
(* between two accesses to what they share.                                *)
(*                                                                         *)
(* A payload is a sequence with one level per channel, or empty once it    *)
(* has been taken.  The level of a channel has the bins, the number of the *)
(* analysis that wrote it and, to state the properties, the number of the  *)
(* last finite sample before it.  Analyses and transport events are        *)
(* numbered from 1.  A step count goes with every MIDI snapshot; which     *)
(* count is in MidiState.                                                  *)
(***************************************************************************)
EXTENDS Vocoder, Integers, Sequences

CONSTANTS
  channels,    \* analysed channels
  Chunks,      \* what an analysis may be given: one sample for each channel
  MaxFrames,   \* bound: analyses
  MaxEvents    \* bound: MIDI transport events; 0 without MIDI

ASSUME PathAssumption == channels \in Nat \ {0} /\ MaxFrames \in Nat /\ MaxEvents \in Nat

VARIABLES
  keep_running,
  analysers, frame_data, frames, heard,     \* the analyser; its analyses and last finite samples
  raw, raw_changed, raw_open,               \* the watch channel, its receiver's mark, its sender
  mapper, display_data, latest_frame_available,
  midi_last_transport, events,              \* the event not yet taken, and how many there were
  display, display_changed, display_open,
  osc, bin_bundle, midi_snapshot,
  bang                                      \* the last transport event handed to the socket

analyser_vars == <<analysers, frame_data, frames, heard>>
mapper_vars == <<mapper, display_data, latest_frame_available>>
midi_vars == <<midi_last_transport, events>>
osc_vars == <<osc, bin_bundle, midi_snapshot, bang>>
raw_vars == <<raw, raw_changed, raw_open>>
display_vars == <<display, display_changed, display_open>>
vars == <<keep_running, analyser_vars, mapper_vars, midi_vars, osc_vars, raw_vars, display_vars>>

midi_enabled == MaxEvents > 0
Channels == 1..channels

\* RawPayload::new and DisplayPayload::new
ZeroLevel == [frame |-> 0, sample |-> 0, bins |-> [b \in Bands |-> Cleared]]
NewPayload == [c \in Channels |-> ZeroLevel]

Init ==
  /\ keep_running = TRUE
  /\ analysers = [c \in Channels |-> NewAnalyser]
  /\ frame_data = NewPayload /\ frames = 0 /\ heard = [c \in Channels |-> 0]
  /\ raw = NewPayload /\ raw_changed = FALSE /\ raw_open = TRUE
  /\ mapper = "first"
  /\ display_data = [channels |-> NewPayload, midi |-> 0]
  /\ latest_frame_available = TRUE
  /\ midi_last_transport = 0 /\ events = 0
  /\ display = [channels |-> NewPayload, midi |-> 0]
  /\ display_changed = FALSE /\ display_open = TRUE
  /\ osc = "loop" /\ bin_bundle = NewPayload /\ midi_snapshot = 0
  /\ bang = 0
-----------------------------------------------------------------------------
(***************************************************************************)
(* The analyser: State::analyse                                            *)
(***************************************************************************)
\* One element of each set.
Choices(sets) ==
  {f \in [DOMAIN sets -> UNION {sets[c] : c \in DOMAIN sets}] :
     \A c \in DOMAIN sets : f[c] \in sets[c]}

\* A chunk of one frame.  Without a mapper the payload stays with the
\* analyser; otherwise it is exchanged for the one in the channel.
Analyse ==
  /\ raw_open /\ frames < MaxFrames
  /\ frames' = frames + 1
  /\ \E chunk \in Chunks :
       /\ analysers' \in Choices([c \in Channels |->
                                   ProcessSample(analysers[c], chunk[c], frames')])
       /\ heard' = [c \in Channels |-> IF chunk[c] \in FiniteSamples THEN frames' ELSE heard[c]]
  /\ LET written == [c \in Channels |-> [frame |-> frames', sample |-> heard'[c],
                                         bins |-> current_bins(analysers'[c])]]
     IN IF mapper = "exited"
          THEN frame_data' = written /\ UNCHANGED <<raw, raw_changed>>
          ELSE raw' = written /\ frame_data' = raw /\ raw_changed' = TRUE
  /\ UNCHANGED <<keep_running, raw_open, mapper_vars, midi_vars, osc_vars, display_vars>>

\* The thread ends, and drops raw_tx.
AnalyserExits ==
  /\ raw_open /\ ~keep_running
  /\ raw_open' = FALSE
  /\ UNCHANGED <<keep_running, analyser_vars, raw, raw_changed, mapper_vars, midi_vars, osc_vars,
                 display_vars>>
-----------------------------------------------------------------------------
(***************************************************************************)
(* The mapper: Mapper::run                                                 *)
(***************************************************************************)
MapperExit == mapper' = "exited" /\ display_open' = FALSE

\* Both loops start with keep_running.
MapperStops ==
  /\ mapper \in {"first", "loop"} /\ ~keep_running
  /\ MapperExit
  /\ UNCHANGED <<keep_running, analyser_vars, raw_vars, midi_vars, osc_vars, display_data,
                 latest_frame_available, display, display_changed>>

\* changed() fails: nothing new, and the sender is gone.
MapperClosed ==
  /\ mapper \in {"await_first", "select"} /\ ~raw_changed /\ ~raw_open
  /\ MapperExit
  /\ UNCHANGED <<keep_running, analyser_vars, raw_vars, midi_vars, osc_vars, display_data,
                 latest_frame_available, display, display_changed>>

MapperEnters ==
  /\ keep_running
  /\ \/ mapper = "first" /\ mapper' = "await_first"
     \/ mapper = "loop" /\ mapper' = "select"
  /\ UNCHANGED <<keep_running, analyser_vars, raw_vars, midi_vars, osc_vars, display_data,
                 latest_frame_available, display_vars>>

\* Mutant: the frame that ends the wait is not there to publish.
OnlyLaterFrames == FALSE

\* latest_frame_available as the second loop begins.
FirstFrameAvailable == TRUE

MapperFirst ==
  /\ mapper = "await_first" /\ raw_changed
  /\ raw_changed' = FALSE
  /\ mapper' = IF raw # <<>> THEN "loop" ELSE "first"
  /\ latest_frame_available' = FirstFrameAvailable
  /\ UNCHANGED <<keep_running, analyser_vars, raw, raw_open, midi_vars, osc_vars, display_data,
                 display_vars>>

\* The first branch of the select.
MapperChanged ==
  /\ mapper = "select" /\ raw_changed
  /\ raw_changed' = FALSE
  /\ latest_frame_available' = (raw # <<>>)
  /\ mapper' = "loop"
  /\ UNCHANGED <<keep_running, analyser_vars, raw, raw_open, midi_vars, osc_vars, display_data,
                 display_vars>>

\* The second: a tick copies the latest analysis under the read guard.
\* copy_from_slice panics unless the lengths agree.
MapperTick ==
  /\ mapper = "select"
  /\ IF latest_frame_available
       THEN /\ raw_changed' = FALSE
            /\ mapper' = IF Len(raw) = Len(display_data.channels) THEN "midi" ELSE "panicked"
            /\ display_data' = [display_data EXCEPT !.channels = raw]
       ELSE mapper' = "loop" /\ UNCHANGED <<raw_changed, display_data>>
  /\ UNCHANGED <<keep_running, analyser_vars, raw, raw_open, midi_vars, osc_vars,
                 latest_frame_available, display_vars>>

\* Mutant: the event is read and left in place.
LoadTransport == midi_last_transport

\* midi_last_transport.swap(MIDI_TRANSPORT_NONE): what it leaves.
SwapTransport == 0

read_midi_snapshot ==
  /\ mapper = "midi"
  /\ display_data' = [display_data EXCEPT !.midi = midi_last_transport]
  /\ midi_last_transport' = SwapTransport
  /\ mapper' = "send"
  /\ UNCHANGED <<keep_running, analyser_vars, raw_vars, events, osc_vars,
                 latest_frame_available, display_vars>>

\* send_replace: the payload that comes back is the next buffer.
MapperSends ==
  /\ mapper = "send"
  /\ display' = display_data /\ display_data' = display
  /\ display_changed' = TRUE
  /\ mapper' = "loop"
  /\ UNCHANGED <<keep_running, analyser_vars, raw_vars, midi_vars, osc_vars,
                 latest_frame_available, display_open>>

Mapper ==
  \/ MapperStops \/ MapperClosed \/ MapperEnters \/ MapperFirst \/ MapperChanged
  \/ MapperTick \/ read_midi_snapshot \/ MapperSends
-----------------------------------------------------------------------------
(***************************************************************************)
(* The OSC sender: OscRuntime::run                                         *)
(***************************************************************************)
OscEnters ==
  /\ osc = "loop"
  /\ osc' = IF keep_running THEN "await" ELSE "exited"
  /\ UNCHANGED <<keep_running, analyser_vars, raw_vars, mapper_vars, midi_vars, display_vars,
                 bin_bundle, midi_snapshot, bang>>

OscClosed ==
  /\ osc = "await" /\ ~display_changed /\ ~display_open
  /\ osc' = "exited"
  /\ UNCHANGED <<keep_running, analyser_vars, raw_vars, mapper_vars, midi_vars, display_vars,
                 bin_bundle, midi_snapshot, bang>>

\* The prepared packets take the levels, as far as both have channels.
OscUpdates ==
  /\ osc = "await" /\ display_changed
  /\ display_changed' = FALSE
  /\ bin_bundle' = [c \in Channels |-> IF c \in DOMAIN display.channels
                                         THEN display.channels[c] ELSE bin_bundle[c]]
  /\ midi_snapshot' = display.midi
  /\ osc' = "bins"
  /\ UNCHANGED <<keep_running, analyser_vars, raw_vars, mapper_vars, midi_vars, display,
                 display_open, bang>>

\* encode_and_send.  Whether the datagram arrives is not known here.
SendBins ==
  /\ osc = "bins"
  /\ osc' = IF midi_enabled THEN "steps" ELSE "loop"
  /\ UNCHANGED <<keep_running, analyser_vars, raw_vars, mapper_vars, midi_vars, display_vars,
                 bin_bundle, midi_snapshot, bang>>

SendSteps ==
  /\ osc = "steps"
  /\ osc' = IF midi_snapshot # 0 THEN "transport" ELSE "loop"
  /\ UNCHANGED <<keep_running, analyser_vars, raw_vars, mapper_vars, midi_vars, display_vars,
                 bin_bundle, midi_snapshot, bang>>

SendTransport ==
  /\ osc = "transport"
  /\ bang' = midi_snapshot
  /\ osc' = "loop"
  /\ UNCHANGED <<keep_running, analyser_vars, raw_vars, mapper_vars, midi_vars, display_vars,
                 bin_bundle, midi_snapshot>>

Osc == OscEnters \/ OscClosed \/ OscUpdates \/ SendBins \/ SendSteps \/ SendTransport
-----------------------------------------------------------------------------
(***************************************************************************)
(* The rest of the engine                                                  *)
(***************************************************************************)
\* record_transport, by the MIDI thread.
RecordTransport ==
  /\ events < MaxEvents
  /\ events' = events + 1
  /\ midi_last_transport' = events'
  /\ UNCHANGED <<keep_running, analyser_vars, raw_vars, mapper_vars, osc_vars, display_vars>>

ClearFlag ==
  /\ keep_running
  /\ keep_running' = FALSE
  /\ UNCHANGED <<analyser_vars, raw_vars, mapper_vars, midi_vars, osc_vars, display_vars>>

Ended ==
  /\ ~raw_open /\ mapper = "exited" /\ osc = "exited"
  /\ UNCHANGED vars
-----------------------------------------------------------------------------
Next ==
  \/ Analyse \/ AnalyserExits
  \/ Mapper
  \/ Osc
  \/ RecordTransport \/ ClearFlag \/ Ended

Fairness == WF_vars(Mapper) /\ WF_vars(Osc) /\ WF_vars(AnalyserExits)

Spec == Init /\ [][Next]_vars /\ Fairness
-----------------------------------------------------------------------------
(***************************************************************************)
(* Properties                                                              *)
(***************************************************************************)
\* Every bundle handed to the socket is one analysis: its channels come from
\* the same one, and the bins of a channel have all followed its last finite
\* sample or are silent, whichever of its bands overflowed on the way
\* (vocoder.rs process_interleaved, the two buffer exchanges, osc.rs run).
DatagramIsOneFrame ==
  osc = "bins" =>
    \A c \in Channels :
      /\ bin_bundle[c].frame = bin_bundle[1].frame
      /\ \A b \in Bands : bin_bundle[c].bins[b] \in {bin_bundle[c].sample, Cleared}

\* A band that an overflow cleared follows the next finite sample that cannot
\* itself overflow (vocoder.rs process_interleaved: the filter is reset too).
\* Said of the bins, which is what the payloads show.
BandRecovers ==
  \A c \in Channels, b \in Bands :
    analysers[c][b].bin = Cleared =>
      \A after \in ProcessSample(analysers[c], "soft", frames + 1) : after[b].bin = frames + 1

\* A transport event is banged at most once, and never after a later one,
\* though the mapper publishes the same analysis again and again and both its
\* buffers still hold the snapshots of earlier frames (mapper.rs, osc.rs).
BangsNotRepeated == osc = "transport" => midi_snapshot > bang

\* While the engine runs, every analysis or a later one reaches the socket,
\* also the last one before the input falls silent.
LatestReachesReceiver ==
  \A f \in 1..MaxFrames :
    frames = f ~> \/ osc = "bins" /\ \A c \in Channels : bin_bundle[c].frame >= f
                  \/ ~keep_running
===============================================================================
