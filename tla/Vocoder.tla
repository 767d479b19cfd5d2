-------------------------------- MODULE Vocoder --------------------------------
(***************************************************************************)
(* The bands of one channel, as far as an overflow can be told from their  *)
(* numbers: how a band leaves the finite numbers and how it comes back.    *)
(*                                                                         *)
(* A sample is soft, loud or not finite.  A band has the state of its      *)
(* filter (soft, loud or bad) and a bin: the number of the last sample its *)
(* envelope followed, or Cleared after a reset.  A loud sample or a loud   *)
(* state may overflow the filter; the stable coefficients take a soft      *)
(* state and a soft sample to a soft state.  The envelope moves to a value *)
(* between two finite ones, so it has no state of its own here and the     *)
(* code's second check, of the envelope, never fires.                      *)
(***************************************************************************)
EXTENDS Naturals

CONSTANTS
  LastBand,   \* the bands are 0..LastBand
  Cleared     \* the bin of a band at silence

ASSUME BandAssumption == LastBand \in Nat /\ Cleared \notin Nat \ {0}

Bands == 0..LastBand
States == {"soft", "loud", "bad"}
FiniteSamples == {"soft", "loud"}

Silent == [filter |-> "soft", bin |-> Cleared]

\* VocoderAnalyser::new
NewAnalyser == [b \in Bands |-> Silent]

\* filter.run(sample): the states it may leave the filter in.  DirectForm1
\* keeps its last inputs and outputs, so a loud sample leaves it loud; a loud
\* state may ring on, die down or overflow.
FilterRun(sample, filter) ==
  CASE filter = "bad" -> {"bad"}
    [] filter # "bad" /\ sample = "loud" -> {"loud", "bad"}
    [] filter = "loud" /\ sample = "soft" -> States
    [] OTHER -> {"soft"}

\* Mutant: the filter keeps the state that overflowed.
KeepFilter(band) == [filter |-> "bad", bin |-> Cleared]

\* filter.reset_state(), envelope.reset() and a bin of zero.
ResetBand(band) == Silent

\* One band after its filter has put out a value for sample number n.
BandAfter(band, filtered, n) ==
  IF filtered = "bad" THEN ResetBand(band) ELSE [filter |-> filtered, bin |-> n]

\* Mutant: an overflow ends the loop over the bands.
StopAtOverflow(bands, filtered, n) ==
  [b \in Bands |-> IF \E a \in 0..(b - 1) : filtered[a] = "bad"
                     THEN bands[b] ELSE BandAfter(bands[b], filtered[b], n)]

\* A band that overflows goes on with the next band.
EachBand(bands, filtered, n) ==
  [b \in Bands |-> BandAfter(bands[b], filtered[b], n)]

\* process_interleaved, one sample: what the bands may be after it.  A sample
\* that is not finite leaves them alone.
ProcessSample(bands, sample, n) ==
  IF sample \notin FiniteSamples THEN {bands}
  ELSE {EachBand(bands, filtered, n) :
          filtered \in {out \in [Bands -> States] :
                          \A b \in Bands : out[b] \in FilterRun(sample, bands[b].filter)}}

\* current_bins
current_bins(bands) == [b \in Bands |-> bands[b].bin]
===============================================================================
