-------------------------------- MODULE Config --------------------------------
(***************************************************************************)
(* How a configuration is made: the command line over the file over the    *)
(* defaults, with the rules that both the resolution and App::new apply.   *)
(* Everything here is a function of its arguments.                         *)
(*                                                                         *)
(* An Option is a sequence of at most one element.  A check is the         *)
(* sequence of the error codes it raises, in the order of the code, so the *)
(* first element of a concatenation is the error that is returned.  An f32 *)
(* is an integer: Infinite and above are the values that are not finite    *)
(* (every check asks for finiteness before it compares, so NaN needs no    *)
(* value of its own), and Tiny is a positive number whose inverse          *)
(* overflows.                                                              *)
(***************************************************************************)
EXTENDS Integers, FiniteSets, Sequences, SequencesExt

CONSTANT BlankNames   \* device names that are empty after trim()

None == <<>>
Some(x) == <<x>>
Option(S) == {None} \cup {Some(x) : x \in S}
IsOption(x) == x = None \/ x = Some(x[1])

\* a.or(b)
Or(a, b) == IF a # None THEN a ELSE b

\* Mutant: a blank name is a name.
KeepBlank(a) == a

\* a.filter(|name| !name.trim().is_empty())
NonBlank(a) == IF a # None /\ a[1] \in BlankNames THEN None ELSE a

Ok(value) == [ok |-> TRUE, value |-> value]
Err(code) == [ok |-> FALSE, error |-> code]
Result(errors, value) == IF errors = <<>> THEN Ok(value) ELSE Err(errors[1])
Check(holds, code) == IF holds THEN <<>> ELSE <<code>>
-----------------------------------------------------------------------------
(***************************************************************************)
(* Numbers                                                                 *)
(***************************************************************************)
Tiny == 2
Huge == 900000        \* finite, and too fast for a clock with a tick
Infinite == 1000000

CALIBRATION_SAMPLE_RATE_HZ == 44100
CALIBRATION_MAX_FREQUENCY_HZ == 19845
DEFAULT_MAX_CLIENTS == 8
MAX_PERMITS == 500    \* tokio's semaphore: a limit far above the default

is_strictly_positive(x) == x < Infinite /\ x > 0
-----------------------------------------------------------------------------
(***************************************************************************)
(* Validation: validate.rs                                                 *)
(***************************************************************************)
VocoderFields == {"attack_ms", "release_ms", "freq_low", "freq_high", "filter_q"}

VocoderDefaults ==
  [attack_ms |-> 24, release_ms |-> 96, freq_low |-> 60, freq_high |-> 6000,
   filter_q |-> 8]

\* The interval of one of 24 ticks is neither zero nor out of range.
midi_tick_interval(bpm) ==
  Check(is_strictly_positive(bpm) /\ bpm > Tiny /\ bpm < Huge, "InvalidMidiTempo")

validate_test_signal(signal) ==
  Check(is_strictly_positive(signal.hz) /\ signal.hz <= CALIBRATION_MAX_FREQUENCY_HZ,
        IF signal.kind = "tone" THEN "InvalidTestFrequency" ELSE "InvalidTestSweepRate")

validate_max_clients(n) == Check(n > 0 /\ n <= MAX_PERMITS, "InvalidMaxClients")

\* Only an address of the machine itself may be bound.
validate_bind_addr(addr) == Check(addr = "loopback", "NonLoopbackBindAddress")

validate_vocoder_fields(v) ==
  Check(is_strictly_positive(v.attack_ms), "InvalidAttackTime")
  \o Check(is_strictly_positive(v.release_ms), "InvalidReleaseTime")
  \o Check(is_strictly_positive(v.freq_low), "InvalidFreqLow")
  \o Check(is_strictly_positive(v.freq_high), "InvalidFreqHigh")
  \o Check(v.freq_low < v.freq_high, "InvalidFreqRange")
  \o Check(is_strictly_positive(v.filter_q) /\ v.filter_q > Tiny, "InvalidFilterQ")

\* Below Nyquist, and no higher than 0.45 of the rate.
validate_vocoder_sample_rate(freq_high, sample_rate) ==
  Check(2 * freq_high < sample_rate, "InvalidFreqAboveNyquist")
  \o Check(20 * freq_high <= 9 * sample_rate, "InvalidFreqAboveSafetyCeiling")

validate_input(input) ==
  IF input.kind = "device"
    THEN Check(input.name \notin BlankNames, "MissingDevice")
         \o Check(input.channels # Some(<<>>), "EmptyChannelSelection")
    ELSE validate_test_signal(input)

validate_midi_input(midi) ==
  CASE midi = None -> <<>>
    [] midi # None /\ midi[1].kind = "clock" -> midi_tick_interval(midi[1].bpm)
    [] midi # None /\ midi[1].kind = "device" ->
         Check(midi[1].name \notin BlankNames, "InvalidMidiDeviceName")

\* The settings of a WebSocket output; the others have none to validate.
validate_output(output) ==
  IF output.transport = "websocket"
    THEN validate_bind_addr(output.addr) \o validate_max_clients(output.max_clients)
    ELSE <<>>

\* The errors of the first output that has any.
validate_outputs(outputs) ==
  LET failing == {i \in DOMAIN outputs : validate_output(outputs[i]) # <<>>}
  IN IF failing = {} THEN <<>> ELSE validate_output(outputs[Min(failing)])

\* What App::new asks of any configuration, wherever it comes from.
validate_app_config(config) ==
  validate_input(config.input)
  \o validate_midi_input(config.midi_input)
  \o validate_outputs(config.outputs)
  \o validate_vocoder_fields(config.vocoder_config)
-----------------------------------------------------------------------------
(***************************************************************************)
(* Resolution: resolve.rs                                                  *)
(***************************************************************************)
\* Settings that both the command line and the file have.  The command line
\* alone has test_hz, test_sweep, test_midi_clock and no_browser_origin.
Settings ==
  {"ws_addr", "max_clients", "osc_addr", "device", "channels", "midi_device"}
  \cup VocoderFields

NoSettings == [s \in Settings |-> None]

\* What clap and serde give out: options, of numbers where the settings are
\* compared.
IsLayer(layer) ==
  /\ \A s \in Settings : IsOption(layer[s])
  /\ \A f \in VocoderFields : layer[f] # None => layer[f][1] \in Int
  /\ layer["channels"] # None => layer["channels"][1] \in Seq(Nat)

NoArgs ==
  [layer |-> NoSettings, test_hz |-> None, test_sweep |-> None,
   test_midi_clock |-> None, no_browser_origin |-> FALSE]

\* clap's conflicts_with.
ArgsAccepted(args) ==
  /\ args.test_sweep = None \/ args.test_hz = None
  /\ args.test_midi_clock = None \/ args.layer["midi_device"] = None

\* At most one output of each transport, and at least one output.
ConfigOutputs_new(outputs) ==
  Check(outputs # <<>>, "NoOutputConfigured")
  \o Check(\A i, j \in DOMAIN outputs :
             outputs[i].transport = outputs[j].transport => i = j,
           "DuplicateOutputTransport")

\* A finite set of numbers in order: the k-th has k - 1 of the others below it.
Ascending(S) ==
  [k \in 1..Cardinality(S) |-> CHOOSE x \in S : Cardinality({y \in S : y < x}) = k - 1]

\* Sorted, without repetition.
normalise_channel_selection(raw) ==
  IF raw = None THEN None ELSE Some(Ascending(ToSet(raw[1])))

\* A calibration signal comes before a device, and drops the selection.
resolve_input(args, raw_device, raw_channels) ==
  LET signal == IF args.test_sweep # None
                  THEN [kind |-> "sweep", hz |-> args.test_sweep[1]]
                  ELSE [kind |-> "tone", hz |-> args.test_hz[1]]
      selection == Check(raw_channels # Some(<<>>), "EmptyChannelSelection")
  IN CASE args.test_sweep # None \/ args.test_hz # None ->
            Result(selection \o validate_test_signal(signal), signal)
       [] args.test_sweep = None /\ args.test_hz = None /\ raw_device = None ->
            Result(selection \o <<"MissingDevice">>, None)
       [] OTHER ->
            Result(selection, [kind |-> "device", name |-> raw_device[1],
                               channels |-> normalise_channel_selection(raw_channels)])

resolve_midi_input(args, raw_device) ==
  CASE args.test_midi_clock # None ->
         Result(midi_tick_interval(args.test_midi_clock[1]),
                Some([kind |-> "clock", bpm |-> args.test_midi_clock[1]]))
    [] args.test_midi_clock = None /\ raw_device # None ->
         Ok(Some([kind |-> "device", name |-> raw_device[1]]))
    [] OTHER -> Ok(None)

\* Mutant: the file wins.
FileFirst(args, file, s) == Or(file[s], args.layer[s])

\* A setting of the command line, or else of the file.
layered(args, file, s) == Or(args.layer[s], file[s])

ErrorsOf(result) == IF result.ok THEN <<>> ELSE <<result.error>>

\* The layers merged and validated, with the outputs of a caller of its own.
\* An output's settings are looked at only when the output is configured.
resolve_with_outputs(args, file, extra_outputs) ==
  LET raw(s) == layered(args, file, s)
      input == resolve_input(args, NonBlank(raw("device")), raw("channels"))
      midi == resolve_midi_input(args, NonBlank(raw("midi_device")))
      vocoder == [f \in VocoderFields |-> Or(raw(f), Some(VocoderDefaults[f]))[1]]
      ws == [a \in DOMAIN raw("ws_addr") |->
               [transport |-> "websocket", addr |-> raw("ws_addr")[1],
                max_clients |-> Or(raw("max_clients"), Some(DEFAULT_MAX_CLIENTS))[1],
                no_browser_origin |-> args.no_browser_origin]]
      osc == [a \in DOMAIN raw("osc_addr") |->
                [transport |-> "osc", addr |-> raw("osc_addr")[1]]]
      outputs == ws \o osc \o extra_outputs
      errors == ErrorsOf(input) \o ErrorsOf(midi) \o validate_vocoder_fields(vocoder)
                \o validate_outputs(ws)
                \o ConfigOutputs_new(outputs)
  IN IF errors # <<>> THEN Err(errors[1])
     ELSE Ok([outputs |-> outputs, input |-> input.value, midi_input |-> midi.value,
              vocoder_config |-> vocoder])

\* A file is missing, or its text is refused (a mistake or an unknown key), or
\* it has the settings it gives.
NoFile == [state |-> "missing"]
BadFile == [state |-> "malformed"]
FileWith(settings) == [state |-> "read", settings |-> settings]

IsText(file) ==
  \/ file.state = "malformed"
  \/ file.state = "read" /\ IsLayer(file.settings)

parse_file_config(file) ==
  IF file.state = "malformed" THEN Err("ConfigFileParseError") ELSE Ok(file.settings)

\* An explicit path must exist; config.yaml is optional.
load_file_config(explicit, file) ==
  CASE file.state = "missing" /\ explicit -> Err("ConfigFileNotFound")
    [] file.state = "missing" /\ ~explicit -> Ok(NoSettings)
    [] OTHER -> parse_file_config(file)

\* AppConfig::try_from(&Args)
AppConfig_try_from(args, explicit, file) ==
  LET loaded == load_file_config(explicit, file)
  IN IF ~loaded.ok THEN loaded ELSE resolve_with_outputs(args, loaded.value, <<>>)
===============================================================================
