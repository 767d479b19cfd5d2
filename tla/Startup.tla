-------------------------------- MODULE Startup --------------------------------
(***************************************************************************)
(* From a command line or a start request to a running engine: the checks  *)
(* of Config, XpcProtocol and Devices in the order in which main, the XPC  *)
(* service and bootstrap make them, while devices come and go between one  *)
(* check and the next.                                                     *)
(*                                                                         *)
(* A process is launched for each run.  The service answers the messages   *)
(* of its client one by one and keeps a run between them.  The threads of  *)
(* a run, and who may stop it, are in Lifecycle and XpcService.            *)
(***************************************************************************)
EXTENDS Devices, XpcProtocol

CONSTANTS
  Hosts,      \* how the engine is used: "terminal", "headless", "service"
  Launches,   \* [args, explicit, file, tty] of a process
  Messages,   \* the dictionaries a client sends
  Hardware    \* the [audio, midi] lists that may be plugged in

\* A layer has its settings, and a file that is there is a text.
ASSUME LaunchesAssumption ==
  \A l \in Launches :
    IsLayer(l.args.layer) /\ (l.file.state # "missing" => IsText(l.file))

\* An array is a sequence, and a string of settings is a text.
ASSUME MessagesAssumption ==
  \A m \in Messages :
    /\ \A text \in ToSet(get_string(m, "config_yaml")) : IsText(text)
    /\ \A source \in ToSet(get_dictionary(m, "source")) :
         \A a \in ToSet(get_array(source, "channels")) :
           Len(a) \in Nat /\ DOMAIN a = 1..Len(a)

\* There is a channel, and half a second of its samples fits a ring.
Fits(rate, channels) ==
  /\ rate \in Nat /\ channels \in Nat \ {0}
  /\ samples_for_ms(rate, channels, ANALYSE_BUFFER_MS) <= 2^RingBits

\* So do the calibration signal and every device that has a format.  A list of
\* devices is a sequence.
ASSUME HardwareAssumption ==
  /\ RingBits \in Nat
  /\ Fits(CALIBRATION_SAMPLE_RATE_HZ, 2)
  /\ \A h \in Hardware :
       /\ Len(h.audio) \in Nat /\ DOMAIN h.audio = 1..Len(h.audio)
       /\ \A i \in DOMAIN h.audio :
            h.audio[i].config # None =>
              Fits(h.audio[i].config[1].rate, h.audio[i].config[1].channels)

VARIABLES
  hardware,   \* what is plugged in now
  host,
  stage,      \* the step of the start that comes next, "idle", "running" or "failed"
  asked,      \* the launch or the parsed start request behind the current run
  config,     \* the AppConfig, or None
  input,      \* what resolve_audio_hardware found, or None
  ready,      \* the report of a run that is up, or None
  error,      \* why the last start failed: [at, code, os]
  listed,     \* the last device list given out, None once the hardware changes
  known,      \* the list of devices that was out when the run was asked for
  reply       \* the service's last reply, None for a message without one

startVars == <<hardware, host, stage, asked, config, input, ready, error, listed, known, reply>>

run == <<asked, config, input, ready, error, known>>
NoError == [at |-> "none", code |-> "none", os |-> FALSE]

StartInit ==
  /\ hardware \in Hardware
  /\ host \in Hosts
  /\ stage = "idle"
  /\ asked = None /\ config = None /\ input = None /\ ready = None
  /\ error = NoError /\ listed = None /\ known = None /\ reply = None
-----------------------------------------------------------------------------
(***************************************************************************)
(* The environment                                                         *)
(***************************************************************************)
\* A device is plugged in, pulled out or set to another format.
Replug ==
  /\ hardware' \in Hardware \ {hardware}
  /\ listed' = None /\ known' = None
  /\ UNCHANGED <<host, stage, asked, config, input, ready, error, reply>>

\* A start that ends with an error.  For the service it is also the reply.
Fail(code, os) ==
  /\ stage' = "failed"
  /\ error' = [at |-> stage, code |-> code, os |-> os]
  /\ reply' = IF host = "service" THEN Some(Err(code)) ELSE reply

\* A call into the operating system fails: the devices cannot be enumerated,
\* the MIDI backend is unavailable or the port busy, the stream cannot be
\* built or played, a socket cannot be bound, the region cannot be mapped.
OsRefuses ==
  /\ \/ stage = "audio" /\ config[1].input.kind = "device" /\ Fail("Unknown", TRUE)
     \/ /\ stage = "midi" /\ config[1].midi_input # None
        /\ config[1].midi_input[1].kind = "device"
        /\ \E code \in {"MidiUnavailable", "MidiConnectFailed"} : Fail(code, TRUE)
     \/ stage = "stream" /\ input[1].device # None /\ Fail("Unknown", TRUE)
     \/ stage = "outputs" /\ Fail("Unknown", TRUE)
  /\ UNCHANGED <<hardware, host, asked, config, input, ready, listed, known>>
-----------------------------------------------------------------------------
(***************************************************************************)
(* A process: main.rs                                                      *)
(***************************************************************************)
Process == host \in {"terminal", "headless"}

Forget == asked' = None /\ known' = None /\ config' = None /\ input' = None /\ ready' = None

\* --audio-list
PrintDevices ==
  /\ Process /\ stage = "idle"
  /\ listed' = Some(audio_enumerate_devices(hardware.audio))
  /\ UNCHANGED <<hardware, host, stage, run, reply>>

\* A terminal run needs a terminal; it is asked for before the configuration.
Launch ==
  /\ Process /\ stage = "idle"
  /\ \E l \in {l \in Launches : ArgsAccepted(l.args)} :
       /\ asked' = Some(l) /\ known' = listed
       /\ stage' = IF host = "terminal" /\ ~l.tty THEN "failed" ELSE "load"
       /\ error' = IF host = "terminal" /\ ~l.tty
                     THEN [at |-> "launch", code |-> "Unknown", os |-> FALSE] ELSE error
  /\ UNCHANGED <<hardware, host, config, input, ready, listed, reply>>

\* The process ends, and a new one may be launched.
ProcessEnds ==
  /\ Process /\ stage \in {"running", "failed"}
  /\ stage' = "idle" /\ Forget /\ error' = NoError
  /\ UNCHANGED <<hardware, host, listed, reply>>
-----------------------------------------------------------------------------
(***************************************************************************)
(* The service's requests: service.rs                                      *)
(***************************************************************************)
Answers == host = "service" /\ stage \in {"idle", "failed", "running"}

Reply(value) == reply' = Some(value)

IgnoreMessage ==
  /\ Answers
  /\ reply' = None
  /\ UNCHANGED <<hardware, host, stage, run, listed>>

RefuseMessage(m) ==
  /\ Answers /\ ~parse_request(m).ok
  /\ Reply(parse_request(m))
  /\ UNCHANGED <<hardware, host, stage, run, listed>>

Hello(m) ==
  /\ Answers /\ parse_request(m) = Ok([type |-> "hello"])
  /\ Reply(Ok([contract_version |-> CONTRACT_VERSION, band_count |-> BAND_COUNT]))
  /\ UNCHANGED <<hardware, host, stage, run, listed>>

\* The operating system does not let the devices be enumerated.
ListRefused == Err("Unknown")

list_audio_devices(m) ==
  /\ Answers /\ parse_request(m) = Ok([type |-> "list_audio_devices"])
  /\ \/ /\ listed' = Some(audio_enumerate_devices(hardware.audio))
        /\ Reply(Ok([devices |-> listed'[1]]))
     \/ UNCHANGED listed /\ Reply(ListRefused)
  /\ UNCHANGED <<hardware, host, stage, run>>

list_midi_devices(m) ==
  /\ Answers /\ parse_request(m) = Ok([type |-> "list_midi_devices"])
  /\ \/ Reply(Ok([devices |-> midi_enumerate_devices(hardware.midi)]))
     \/ Reply(ListRefused)
  /\ UNCHANGED <<hardware, host, stage, run, listed>>

IsStart(m) == parse_request(m).ok /\ parse_request(m).value.type = "start"

start_refused(m) ==
  /\ Answers /\ IsStart(m) /\ stage = "running"
  /\ Reply(Err("AlreadyRunning"))
  /\ UNCHANGED <<hardware, host, stage, run, listed>>

start(m) ==
  /\ Answers /\ IsStart(m) /\ stage # "running"
  /\ asked' = Some(parse_request(m).value) /\ known' = listed
  /\ stage' = "load"
  /\ config' = None /\ input' = None /\ ready' = None /\ error' = NoError
  /\ UNCHANGED <<hardware, host, listed, reply>>

\* The reply is the same whether a run was active or not.
stop(m) ==
  /\ Answers /\ parse_request(m) = Ok([type |-> "stop"])
  /\ Reply(Ok([type |-> "stop"]))
  /\ stage' = "idle" /\ Forget /\ error' = NoError
  /\ UNCHANGED <<hardware, host, listed>>

Request ==
  \/ IgnoreMessage
  \/ \E m \in Messages :
       RefuseMessage(m) \/ Hello(m) \/ list_audio_devices(m) \/ list_midi_devices(m)
       \/ start_refused(m) \/ start(m) \/ stop(m)
-----------------------------------------------------------------------------
(***************************************************************************)
(* The start: App::build and bootstrap                                     *)
(***************************************************************************)
\* A stage goes on to the next one unless its checks raise an error.
Stage(here, next, errors) ==
  /\ stage = here
  /\ IF errors = <<>>
       THEN stage' = next /\ UNCHANGED <<error, reply>>
       ELSE Fail(errors[1], FALSE)
  /\ UNCHANGED <<hardware, host, asked, ready, listed, known>>

Resolved ==
  IF host = "service" THEN to_app_config(asked[1])
  ELSE AppConfig_try_from(asked[1].args, asked[1].explicit, asked[1].file)

LoadConfig ==
  /\ stage = "load"
  /\ LET r == Resolved
     IN /\ Stage("load", "validate", ErrorsOf(r))
        /\ config' = IF r.ok THEN Some(r.value) ELSE None
  /\ UNCHANGED input

ValidateConfig ==
  /\ stage = "validate"
  /\ Stage("validate", "audio", validate_app_config(config[1]))
  /\ UNCHANGED <<config, input>>

\* A calibration run has a fixed format and no selection.
resolve_audio_hardware(source) ==
  IF source.kind # "device"
    THEN Ok([device |-> None, rate |-> CALIBRATION_SAMPLE_RATE_HZ, channels |-> 2,
             selection |-> None, f32 |-> TRUE])
    ELSE LET found == get_device(hardware.audio, source.name)
         IN IF ~found.ok THEN found
            ELSE Ok([device |-> Some([id |-> found.value.id, name |-> found.value.name]),
                     rate |-> found.value.config[1].rate,
                     channels |-> found.value.config[1].channels,
                     selection |-> source.channels,
                     f32 |-> found.value.config[1].f32])

ResolveAudio ==
  /\ stage = "audio"
  /\ LET r == resolve_audio_hardware(config[1].input)
     IN /\ Stage("audio", "midi", ErrorsOf(r))
        /\ input' = IF r.ok THEN Some(r.value) ELSE None
  /\ UNCHANGED config

resolve_midi_hardware(source) ==
  IF source = None THEN <<>>
  ELSE IF source[1].kind = "clock" THEN midi_tick_interval(source[1].bpm)
  ELSE Check(find_matching_midi_device(hardware.midi, source[1].name) # None, "MidiNoMatch")

ResolveMidi ==
  /\ stage = "midi"
  /\ Stage("midi", "checks", resolve_midi_hardware(config[1].midi_input))
  /\ UNCHANGED <<config, input>>

validate_channel_selection(selection, channels) ==
  Check(selection = None \/ Max(ToSet(selection[1])) < channels, "ChannelIndexOutOfRange")

\* The coefficients are floating point: they may be refused or not.
CheckAgainstHardware ==
  /\ stage = "checks"
  /\ \E coefficients \in {<<>>, <<"InvalidVocoderBandCoefficients">>} :
       Stage("checks", "stream",
             validate_vocoder_sample_rate(config[1].vocoder_config.freq_high, input[1].rate)
             \o coefficients
             \o validate_channel_selection(input[1].selection, input[1].channels))
  /\ UNCHANGED <<config, input>>

\* Input::start_stream
OpenStream ==
  /\ stage = "stream"
  /\ Stage("stream", "outputs", Check(input[1].f32, "UnsupportedFormat"))
  /\ UNCHANGED <<config, input>>

\* Indices from 0, in a sequence.
AllChannels(n) == [i \in 1..n |-> i - 1]

ReadyAudio ==
  [device |-> IF input[1].device = None THEN None ELSE input[1].device[1].name,
   sample_rate |-> input[1].rate,
   channels |-> Or(input[1].selection, Some(AllChannels(input[1].channels)))[1]]

\* ChannelMode::resolve: the channels that reach the analyser.
display_channels ==
  IF input[1].selection = None THEN input[1].channels ELSE Len(input[1].selection[1])

\* Only the OSC output is refused for what the hardware turned out to be.
spawn_outputs ==
  IF \E i \in DOMAIN config[1].outputs : config[1].outputs[i].transport = "osc"
    THEN ErrorsOf(prepare_bin_bundle(display_channels)) ELSE <<>>

\* The MIDI device of the report is the configured one.
StartOutputs ==
  /\ stage = "outputs"
  /\ LET errors == spawn_outputs
         midi == config[1].midi_input
     IN IF errors # <<>> THEN Fail(errors[1], FALSE) /\ UNCHANGED ready
        ELSE /\ stage' = "running"
             /\ ready' = Some([audio |-> ReadyAudio,
                  midi_device |-> IF midi # None /\ midi[1].kind = "device"
                                    THEN Some(midi[1].name) ELSE None])
             /\ reply' = IF host = "service" THEN Some(Ok(ready'[1])) ELSE reply
             /\ UNCHANGED error
  /\ UNCHANGED <<hardware, host, asked, config, input, listed, known>>

bootstrap ==
  \/ LoadConfig \/ ValidateConfig \/ ResolveAudio \/ ResolveMidi
  \/ CheckAgainstHardware \/ OpenStream \/ StartOutputs
-----------------------------------------------------------------------------
StartNext ==
  \/ Replug \/ OsRefuses
  \/ PrintDevices \/ Launch \/ ProcessEnds
  \/ Request
  \/ bootstrap

StartSpec == StartInit /\ [][StartNext]_startVars
-----------------------------------------------------------------------------
(***************************************************************************)
(* Properties                                                              *)
(***************************************************************************)
\* The resolution in resolve.rs and App::new check a configuration
\* separately.  Whatever the first accepts the second accepts too, so a host
\* that resolved its configuration never sees a configuration error after it.
ResolvedIsValid == ~(stage = "failed" /\ error.at = "validate")

\* The settings of a file, none when it is missing.
SettingsOf(file) == IF file.state = "read" THEN file.settings ELSE NoSettings

\* Each setting of one layer, or else of the one below it.
Over(top, below) == [s \in Settings |-> IF top[s] # None THEN top[s] ELSE below[s]]

\* The vocoder has the settings it was given, and the defaults for the rest.
VocoderFrom(given, vocoder) ==
  \A f \in VocoderFields :
    vocoder[f] = IF given[f] = None THEN VocoderDefaults[f] ELSE given[f][1]

\* The chosen channels are those that were wanted; without a wish, no choice.
SelectionFrom(wanted, selection) ==
  /\ selection = None <=> wanted = None
  /\ wanted # None => ToSet(selection[1]) = ToSet(wanted[1])

\* A blank MIDI name asks for no MIDI.
MidiFrom(device) ==
  IF device = None \/ device[1] \in BlankNames THEN None
  ELSE Some([kind |-> "device", name |-> device[1]])

\* The outputs that were given an address, each with its settings.
OutputsFrom(given, no_browser_origin) ==
  {[transport |-> "websocket", addr |-> addr,
    max_clients |-> IF given["max_clients"] = None THEN DEFAULT_MAX_CLIENTS
                    ELSE given["max_clients"][1],
    no_browser_origin |-> no_browser_origin] : addr \in ToSet(given["ws_addr"])}
  \cup {[transport |-> "osc", addr |-> addr] : addr \in ToSet(given["osc_addr"])}

\* A process.  Every setting that both layers have is the command line's, or
\* else the file's, or else the default; the test signals, the test clock and
\* the origin rule are the command line's, and a test takes the device's place.
LaunchHonoured(l, c) ==
  LET args == l.args
      given == Over(args.layer, SettingsOf(l.file))
  IN /\ VocoderFrom(given, c.vocoder_config)
     /\ ToSet(c.outputs) = OutputsFrom(given, args.no_browser_origin)
     /\ CASE args.test_sweep # None ->
               c.input = [kind |-> "sweep", hz |-> args.test_sweep[1]]
          [] args.test_sweep = None /\ args.test_hz # None ->
               c.input = [kind |-> "tone", hz |-> args.test_hz[1]]
          [] OTHER ->
               /\ c.input.kind = "device" /\ c.input.name = given["device"][1]
               /\ SelectionFrom(given["channels"], c.input.channels)
     /\ c.midi_input =
          IF args.test_midi_clock # None
            THEN Some([kind |-> "clock", bpm |-> args.test_midi_clock[1]])
            ELSE MidiFrom(given["midi_device"])

\* The MIDI input of a request; a blank name asks for none, and does not bring
\* back the one of the configuration text.
RequestedMidi(midi) ==
  IF midi.kind = "test_clock" THEN Some([kind |-> "clock", bpm |-> midi.bpm])
  ELSE MidiFrom(Some(midi.name))

\* The service.  The source is the request's, and so are its channels and its
\* MIDI input when it names any; what it leaves open is the text's, but never a
\* port: the one output is the frame region.
RequestHonoured(q, c) ==
  LET text == IF q.config_yaml = None THEN NoSettings ELSE SettingsOf(q.config_yaml[1])
  IN /\ VocoderFrom(text, c.vocoder_config)
     /\ c.outputs = <<FrameRegionOutput>>
     /\ CASE q.source.kind = "test_sweep" -> c.input = [kind |-> "sweep", hz |-> q.source.hz]
          [] q.source.kind = "test_tone" -> c.input = [kind |-> "tone", hz |-> q.source.hz]
          [] q.source.kind = "device" ->
               /\ c.input.kind = "device" /\ c.input.name = q.source.name
               /\ SelectionFrom(Or(q.source.channels, text["channels"]), c.input.channels)
     /\ c.midi_input = IF q.midi # None THEN RequestedMidi(q.midi[1])
                       ELSE MidiFrom(text["midi_device"])

\* Every setting of a run comes from the layer it should: of a process, the
\* command line over the file over the default; of the service, the request
\* over its configuration text over the default (resolve.rs
\* resolve_with_outputs, which layers each setting by an expression of its own,
\* and protocol.rs to_app_config).
SettingsLayered ==
  config # None =>
    IF host = "service" THEN RequestHonoured(asked[1], config[1])
    ELSE LaunchHonoured(asked[1], config[1])

\* What a list called supported, under a name that is its own, opens under
\* that name as long as nothing is plugged: never a device error, and never
\* another device that merely has a longer name (audio.rs enumerate_devices,
\* get_device and start_stream).
AcceptsWhatItLists ==
  /\ known # None /\ config # None /\ config[1].input.kind = "device"
  => \A i \in DOMAIN known[1] :
       /\ known[1][i].supported
       /\ known[1][i].name = config[1].input.name
       /\ \A j \in DOMAIN known[1] : known[1][j].name = known[1][i].name => j = i
       => /\ error.at \in {"audio", "stream"} => error.os
          /\ input # None => input[1].device[1].id = hardware.audio[i].id

\* A run that came up is one the pipeline can carry, though its settings, its
\* device and its channels were checked in different places: bands below the
\* safety ceiling and in order, a selection that is sorted and in range, a
\* report with one index for each analysed channel, a ring that takes a whole
\* transfer buffer, at most one output of a kind, and an OSC bundle that fits
\* a datagram (bootstrap.rs, osc.rs prepare_bin_bundle).
RunningIsSound ==
  stage = "running" =>
    LET c == config[1]
        channels == ready[1].audio.channels
    IN /\ 0 < c.vocoder_config.freq_low
       /\ c.vocoder_config.freq_low < c.vocoder_config.freq_high
       /\ 20 * c.vocoder_config.freq_high <= 9 * input[1].rate
       /\ channels # <<>> /\ Len(channels) = display_channels
       /\ \A i \in DOMAIN channels :
            channels[i] < input[1].channels /\ (i > 1 => channels[i - 1] < channels[i])
       /\ frame_aligned_samples_for_ms(input[1].rate, display_channels, CHUNK_SIZE_MS)
            <= RingCapacity(input[1].rate, display_channels)
       /\ c.outputs # <<>>
       /\ \A i, j \in DOMAIN c.outputs :
            c.outputs[i].transport = c.outputs[j].transport => i = j
       /\ (\E i \in DOMAIN c.outputs : c.outputs[i].transport = "osc") =>
            BundleBytes(display_channels) <= OSC_UDP_PAYLOAD_LIMIT_BYTES
===============================================================================
