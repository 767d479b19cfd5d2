----------------------------- MODULE MCMidiState -----------------------------
(***************************************************************************)
(* Instances of MidiState: two ticks to a step and one-bit counters, so    *)
(* that steps complete and both counters wrap within a few bytes.          *)
(***************************************************************************)
EXTENDS MidiState
=============================================================================
