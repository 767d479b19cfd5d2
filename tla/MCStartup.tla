------------------------------- MODULE MCStartup -------------------------------
(***************************************************************************)
(* Startup with launches and messages that vary one group of settings at a *)
(* time, each over its boundaries and over both layers.                    *)
(***************************************************************************)
EXTENDS Startup

MCBlankNames == {"", " "}
MCContaining ==
  {<<"Mic", "Mic">>, <<"Mic", "mic">>, <<"Mic Pro", "Mic">>, <<"Mic Pro", "mic">>,
   <<"Mic Pro", "Mic Pro">>, <<"Rig", "Rig">>, <<"Keys", "Keys">>, <<"Keys", "keys">>,
   <<"Keys 2", "Keys">>, <<"Keys 2", "keys">>, <<"Unknown Device", "Unknown Device">>}
MCSameLetters ==
  {<<"Keys", "Keys">>, <<"Keys", "keys">>, <<"Keys 2", "Keys 2">>}

Format(rate, channels, f32) == Some([rate |-> rate, channels |-> channels, f32 |-> f32])
Device(id, name, format) == [id |-> id, name |-> name, config |-> format]
Port(id, name) == [id |-> id, name |-> name]

\* Names that contain one another; formats at and past each limit; names and
\* configurations that cannot be read; two devices with one name.
MCHardware ==
  {[audio |-> <<Device(1, Some("Mic Pro"), Format(48000, 2, TRUE)),
                Device(2, Some("Mic"), Format(44100, 3, TRUE))>>,
    midi |-> <<Port(1, Some("Keys 2")), Port(2, Some("Keys"))>>],
   [audio |-> <<Device(3, Some("Rig"), Format(48000, 74, TRUE)),
                Device(4, None, Format(48000, 2, TRUE)),
                Device(5, Some("Mic"), Format(48000, 2, FALSE))>>,
    midi |-> <<Port(3, None)>>],
   [audio |-> <<Device(6, Some("Rig"), Format(48000, 73, TRUE)),
                Device(7, Some("Mic"), None), Device(8, Some("Mic"), Format(48000, 1, TRUE)),
                Device(9, Some("Mic Pro"), Format(8000, 1, TRUE))>>,
    midi |-> <<>>]}
-----------------------------------------------------------------------------
\* Some settings of a layer, the others left out.
Layer(given) == [s \in Settings |-> IF s \in DOMAIN given THEN given[s] ELSE None]

Args(given) == [NoArgs EXCEPT !.layer = Layer(given)]

Started(args, file) == [args |-> args, explicit |-> TRUE, file |-> FileWith(file), tty |-> TRUE]

\* A run that is sound but for the settings that are varied.
Base == [device |-> Some("Mic"), osc_addr |-> Some("udp")]

NetworkLaunches ==
  {Started([Args([device |-> Some("Mic"), ws_addr |-> ws, max_clients |-> n, osc_addr |-> osc])
              EXCEPT !.no_browser_origin = no_origin],
           Layer([ws_addr |-> file_ws, max_clients |-> file_n, osc_addr |-> file_osc])) :
     ws \in Option({"loopback", "public"}), file_ws \in Option({"loopback", "public"}),
     n \in Option({0, 2, MAX_PERMITS + 1}), file_n \in Option({0, 1}),
     osc \in Option({"udp"}), file_osc \in Option({"udp 2"}), no_origin \in BOOLEAN}

InputLaunches ==
  {Started([Args([Base EXCEPT !.device = name] @@ [channels |-> selection])
              EXCEPT !.test_hz = hz, !.test_sweep = sweep],
           Layer([device |-> file_name, channels |-> file_selection])) :
     name \in Option({"Mic", "mic", "Mic Pro", "Rig", " ", "Unknown Device"}),
     file_name \in Option({"Rig", ""}),
     selection \in Option({<<>>, <<2, 0, 2>>, <<3>>}), file_selection \in Option({<<0>>}),
     hz \in Option({440, CALIBRATION_MAX_FREQUENCY_HZ + 1}), sweep \in Option({0})}

MidiLaunches ==
  {Started([Args(Base @@ [midi_device |-> name]) EXCEPT !.test_midi_clock = bpm],
           Layer([midi_device |-> file_name])) :
     name \in Option({"keys", " "}), file_name \in Option({"Keys 2", ""}),
     bpm \in Option({120, 0, Tiny, Infinite})}

VocoderLaunches ==
  UNION {{Started(Args(Base @@ [s \in {f} |-> arg]), Layer([s \in {f} |-> file])) :
            arg \in Option({0, Tiny, 59, 19845, 24001, Infinite}),
            file \in Option({0, 7000})} : f \in VocoderFields}

FileLaunches ==
  {[args |-> Args(Base), explicit |-> explicit, file |-> file, tty |-> tty] :
     explicit \in BOOLEAN, tty \in BOOLEAN, file \in {NoFile, BadFile}}

MCLaunches ==
  NetworkLaunches \cup InputLaunches \cup MidiLaunches \cup VocoderLaunches \cup FileLaunches
-----------------------------------------------------------------------------
Plain(type) == [v |-> Int64(CONTRACT_VERSION), type |-> String(type)]

FromDevice(name) == [kind |-> String("device"), device_name |-> String(name)]

StartFrom(source, rest) == Plain("start") @@ [source |-> Dictionary(source)] @@ rest

\* A text that would open ports, another device and another selection, and that
\* sets the vocoder.
Text == FileWith(Layer([ws_addr |-> Some("loopback"), osc_addr |-> Some("udp"),
                        device |-> Some("Rig"), channels |-> Some(<<1, 0>>),
                        midi_device |-> Some("Keys"), attack_ms |-> Some(12)]))

Sources ==
  {FromDevice(name) : name \in {"Mic", "mic", "Rig", "", "Unknown Device"}}
  \cup {FromDevice("Mic") @@ [channels |-> Array(c)] :
          c \in {<<>>, <<Int64(1), Int64(0), Int64(1)>>, <<Int64(U16_MAX + 1)>>,
                 <<Int64(-1)>>, <<Double(1)>>}}
  \cup {[kind |-> String("device")],
        [kind |-> String("device"), device_name |-> NotUtf8],
        FromDevice("Mic") @@ [channels |-> Int64(0)]}
  \cup {[kind |-> String("test_tone"), hz |-> hz] :
          hz \in {Double(440), Double(DoubleOverflow), Double(DoubleUnderflow), Int64(440)}}
  \cup {[kind |-> String("test_sweep"), rate_hz |-> Double(x)] : x \in {0, 5}}

Parts ==
  {NoKeys, [config_yaml |-> String(BadFile)], [config_yaml |-> String(Text)],
   [config_yaml |-> String(Text),
    midi |-> Dictionary([kind |-> String("device"), device_name |-> String(" ")])],
   [config_yaml |-> Int64(0)], [midi |-> String("Keys")]}
  \cup {[midi |-> Dictionary(m)] :
          m \in {[kind |-> String("device"), device_name |-> String("Keys")],
                 [kind |-> String("device"), device_name |-> String("")],
                 [kind |-> String("test_clock"), bpm |-> Double(120)],
                 [kind |-> String("test_clock"), bpm |-> Double(0)],
                 [kind |-> String("test_clock")]}}

MCMessages ==
  {Plain(t) : t \in {"hello", "list_audio_devices", "list_midi_devices", "stop", "pause"}}
  \cup {[type |-> String("hello")], [Plain("stop") EXCEPT !.v = Int64(2)], Plain("start")}
  \cup {StartFrom(source, NoKeys) : source \in Sources}
  \cup {StartFrom(FromDevice("Mic"), part) : part \in Parts}
===============================================================================
