-------------------------------- MODULE Devices --------------------------------
(***************************************************************************)
(* Audio inputs and MIDI ports: how they are listed, how a name finds one, *)
(* and the sizes that follow from the hardware that was found.             *)
(*                                                                         *)
(* An audio device is [id, name, config]: name is None when its            *)
(* description cannot be read, config is None when its default input       *)
(* configuration cannot be queried, and otherwise has a rate, a number of  *)
(* channels and f32, whether its samples are 32 bit floats.  A MIDI port   *)
(* is [id, name].  The order of a list is the order of enumeration.        *)
(***************************************************************************)
EXTENDS Config, FiniteSetsExt

CONSTANTS
  Containing,   \* <<n, q>>: n in lower case contains q in lower case
  SameLetters,  \* <<n, q>>: n and q are equal but for ASCII case
  RingBits      \* a ring of the model has at most 2^RingBits samples

UnknownDevice == "Unknown Device"

\* map_or_else(|_| "Unknown Device", ...)
ShownName(device) == Or(device.name, Some(UnknownDevice))[1]
-----------------------------------------------------------------------------
(***************************************************************************)
(* Listing                                                                 *)
(***************************************************************************)
\* A device whose configuration is not available is listed as unsupported.
audio_enumerate_devices(devices) ==
  [i \in DOMAIN devices |->
     [name |-> ShownName(devices[i]),
      sample_rate |-> [c \in DOMAIN devices[i].config |-> devices[i].config[c].rate],
      channels |-> [c \in DOMAIN devices[i].config |-> devices[i].config[c].channels],
      supported |-> devices[i].config # None /\ devices[i].config[1].f32]]

midi_enumerate_devices(ports) == [i \in DOMAIN ports |-> ShownName(ports[i])]
-----------------------------------------------------------------------------
(***************************************************************************)
(* Lookup: one pass that returns at an equal name and remembers the first  *)
(* name that contains the query.                                           *)
(***************************************************************************)
\* The device the pass ends with, by the places of the equal names and of those
\* that contain the query.
FirstMatch(devices, equal, containing) ==
  CASE equal # {} -> Some(devices[Min(equal)])
    [] equal = {} /\ containing # {} -> Some(devices[Min(containing)])
    [] OTHER -> None

\* The devices whose name contains the query.
Alike(devices, query) ==
  {i \in DOMAIN devices : <<ShownName(devices[i]), query>> \in Containing}

\* Mutant: the first device that contains the query ends the search.
FirstContaining(devices, query) == FirstMatch(devices, {}, Alike(devices, query))

MatchAudio(devices, query) ==
  FirstMatch(devices, {i \in DOMAIN devices : ShownName(devices[i]) = query},
             Alike(devices, query))

\* Input::get_device and build_device_specs
get_device(devices, query) ==
  LET match == MatchAudio(devices, query)
  IN CASE query \in BlankNames -> Err("EmptyQuery")
       [] query \notin BlankNames /\ match = None -> Err("NoMatch")
       [] query \notin BlankNames /\ match # None /\ match[1].config = None -> Err("Unknown")
       [] OTHER -> Ok(match[1])

\* A port whose name cannot be read is passed over.
find_matching_midi_device(ports, query) ==
  LET readable == {i \in DOMAIN ports : ports[i].name # None}
  IN FirstMatch(ports, {i \in readable : <<ports[i].name[1], query>> \in SameLetters},
                {i \in readable : <<ports[i].name[1], query>> \in Containing})
-----------------------------------------------------------------------------
(***************************************************************************)
(* Sizes                                                                   *)
(***************************************************************************)
BAND_COUNT == 32
ANALYSE_BUFFER_MS == 500
CHUNK_SIZE_MS == 10
OSC_UDP_PAYLOAD_LIMIT_BYTES == 65507

samples_for_ms(rate, channels, ms) == (rate * channels * ms) \div 1000

frame_aligned_samples_for_ms(rate, channels, ms) ==
  LET n == samples_for_ms(rate, channels, ms)
  IN ((n + channels - 1) \div channels) * channels

\* Input::create_audio_buffer_pair: the next power of two.
RingCapacity(rate, channels) ==
  2^Min({k \in 0..RingBits : 2^k >= samples_for_ms(rate, channels, ANALYSE_BUFFER_MS)})

\* Of a u16.
Digits(n) == Min({d \in 1..5 : n < 10^d})

\* An OSC string ends with a zero byte and fills whole words.
OscString(length) == 4 * (length \div 4 + 1)

\* One message of the bundle, behind its length: /ch/<ch>/bin/<bin> ,f and a
\* float.
BinMessageBytes(ch, bin) ==
  4 + OscString(9 + Digits(ch) + Digits(bin)) + OscString(2) + 4

\* #bundle and the time tag, then the messages.
BundleBytes(channels) ==
  LET ChannelBytes(ch) ==
        MapThenSumSet(LAMBDA bin : BinMessageBytes(ch, bin), 0..(BAND_COUNT - 1))
  IN 16 + MapThenSumSet(ChannelBytes, 0..(channels - 1))

\* Mutant: the size is not looked at.
AnyBundle(channels) == Ok(BundleBytes(channels))

\* OscSender::prepare_bin_bundle
prepare_bin_bundle(channels) ==
  Result(Check(BundleBytes(channels) <= OSC_UDP_PAYLOAD_LIMIT_BYTES, "Unknown"),
         BundleBytes(channels))
===============================================================================
