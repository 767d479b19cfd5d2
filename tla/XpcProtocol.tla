------------------------------ MODULE XpcProtocol ------------------------------
(***************************************************************************)
(* The messages of the XPC link: what the service reads out of one, and    *)
(* the configuration that a start request becomes.                         *)
(*                                                                         *)
(* A dictionary is a function from the keys it has to typed values, an     *)
(* array a sequence of them.  A string that is not UTF-8 has the type of a *)
(* string and no text.  A double is an integer on the scale of Config with *)
(* more at both ends than an f32 holds.                                    *)
(***************************************************************************)
EXTENDS Config

CONTRACT_VERSION == 1
U16_MAX == 65535

Int64(n) == [type |-> "int64", v |-> n]
Double(x) == [type |-> "double", v |-> x]
String(s) == [type |-> "string", utf8 |-> TRUE, v |-> s]
NotUtf8 == [type |-> "string", utf8 |-> FALSE]
Dictionary(d) == [type |-> "dictionary", v |-> d]
Array(a) == [type |-> "array", v |-> a]

NoKeys == [k \in {} |-> 0]
-----------------------------------------------------------------------------
(***************************************************************************)
(* Typed reads: ffi.rs.  A key that is missing or of another type is None. *)
(***************************************************************************)
contains(d, key) == key \in DOMAIN d

Typed(d, key, type) ==
  IF contains(d, key) /\ d[key].type = type THEN Some(d[key]) ELSE None

get_i64(d, key) == [i \in DOMAIN Typed(d, key, "int64") |-> d[key].v]
get_f64(d, key) == [i \in DOMAIN Typed(d, key, "double") |-> d[key].v]
get_dictionary(d, key) == [i \in DOMAIN Typed(d, key, "dictionary") |-> d[key].v]
get_array(d, key) == [i \in DOMAIN Typed(d, key, "array") |-> d[key].v]

\* None also when the string is not valid UTF-8.
get_string(d, key) ==
  IF Typed(d, key, "string") # None /\ d[key].utf8 THEN Some(d[key].v) ELSE None
-----------------------------------------------------------------------------
(***************************************************************************)
(* Requests: protocol.rs                                                   *)
(***************************************************************************)
\* Above every f32, and positive below the smallest.
DoubleOverflow == Infinite + 1
DoubleUnderflow == 1

\* x as f32: out of range becomes an infinity, too small becomes zero.
as_f32(x) == CASE x >= Infinite -> Infinite
               [] x = DoubleUnderflow -> 0
               [] OTHER -> x

InvalidRequest == Err("InvalidRequest")

\* Absent, or an array of numbers that each fit u16.
parse_channels(source) ==
  LET channels == get_array(source, "channels")
  IN CASE ~contains(source, "channels") -> Ok(None)
       [] /\ channels # None
          /\ \A i \in DOMAIN channels[1] :
               channels[1][i].type = "int64" /\ channels[1][i].v \in 0..U16_MAX ->
            Ok(Some([i \in DOMAIN channels[1] |-> channels[1][i].v]))
       [] OTHER -> InvalidRequest

parse_source(source) ==
  LET kind == get_string(source, "kind")
      name == get_string(source, "device_name")
      channels == parse_channels(source)
      hz == get_f64(source, "hz")
      rate_hz == get_f64(source, "rate_hz")
  IN CASE kind = Some("device") /\ name # None /\ channels.ok ->
            Ok([kind |-> "device", name |-> name[1], channels |-> channels.value])
       [] kind = Some("test_tone") /\ hz # None ->
            Ok([kind |-> "test_tone", hz |-> as_f32(hz[1])])
       [] kind = Some("test_sweep") /\ rate_hz # None ->
            Ok([kind |-> "test_sweep", hz |-> as_f32(rate_hz[1])])
       [] OTHER -> InvalidRequest

parse_midi(midi) ==
  LET kind == get_string(midi, "kind")
      name == get_string(midi, "device_name")
      bpm == get_f64(midi, "bpm")
  IN CASE kind = Some("device") /\ name # None ->
            Ok([kind |-> "device", name |-> name[1]])
       [] kind = Some("test_clock") /\ bpm # None ->
            Ok([kind |-> "test_clock", bpm |-> as_f32(bpm[1])])
       [] OTHER -> InvalidRequest

\* An optional part that is there has to be well formed.
Optional(message, key, value, parsed) ==
  CASE ~contains(message, key) -> Ok(None)
    [] contains(message, key) /\ value # None /\ parsed.ok -> Ok(Some(parsed.value))
    [] OTHER -> InvalidRequest

parse_start(message) ==
  LET dictionary == get_dictionary(message, "source")
      source == IF dictionary = None THEN InvalidRequest ELSE parse_source(dictionary[1])
      part == get_dictionary(message, "midi")
      midi == Optional(message, "midi", part,
                       IF part = None THEN InvalidRequest ELSE parse_midi(part[1]))
      text == get_string(message, "config_yaml")
      yaml == Optional(message, "config_yaml", text,
                       IF text = None THEN InvalidRequest ELSE Ok(text[1]))
  IN IF source.ok /\ midi.ok /\ yaml.ok
       THEN Ok([type |-> "start", source |-> source.value, midi |-> midi.value,
                config_yaml |-> yaml.value])
       ELSE InvalidRequest

\* The version is looked at before anything else.
parse_request(message) ==
  LET version == get_i64(message, "v")
      type == get_string(message, "type")
  IN CASE version = None -> InvalidRequest
       [] version # None /\ version # Some(CONTRACT_VERSION) -> Err("ContractMismatch")
       [] version = Some(CONTRACT_VERSION) /\ type = Some("start") -> parse_start(message)
       [] /\ version = Some(CONTRACT_VERSION) /\ type # None
          /\ type[1] \in {"hello", "list_audio_devices", "list_midi_devices", "stop"} ->
            Ok([type |-> type[1]])
       [] OTHER -> InvalidRequest
-----------------------------------------------------------------------------
FrameRegionOutput == [transport |-> "frames"]
NetworkSettings == {"ws_addr", "max_clients", "osc_addr"}

\* file.network = FileNetworkConfig::default()
WithoutNetwork(settings) ==
  [s \in Settings |-> IF s \in NetworkSettings THEN None ELSE settings[s]]

\* The request as a command line over the text of its configuration.
ArgsOf(start) ==
  [NoArgs EXCEPT
     !.layer = [s \in Settings |->
       CASE s = "device" /\ start.source.kind = "device" -> Some(start.source.name)
         [] s = "channels" /\ start.source.kind = "device" -> start.source.channels
         [] s = "midi_device" /\ start.midi # None /\ start.midi[1].kind = "device" ->
              Some(start.midi[1].name)
         [] OTHER -> None],
     !.test_hz = IF start.source.kind = "test_tone" THEN Some(start.source.hz) ELSE None,
     !.test_sweep = IF start.source.kind = "test_sweep" THEN Some(start.source.hz) ELSE None,
     !.test_midi_clock = IF start.midi # None /\ start.midi[1].kind = "test_clock"
                           THEN Some(start.midi[1].bpm) ELSE None]

to_app_config(start) ==
  LET file == IF start.config_yaml = None THEN Ok(NoSettings)
              ELSE parse_file_config(start.config_yaml[1])
  IN IF ~file.ok THEN file
     ELSE resolve_with_outputs(ArgsOf(start), WithoutNetwork(file.value),
                               <<FrameRegionOutput>>)
===============================================================================
