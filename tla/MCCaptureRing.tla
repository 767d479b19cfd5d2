----------------------------- MODULE MCCaptureRing -----------------------------
(***************************************************************************)
(* Instances of CaptureRing: frames of five and of three samples over a    *)
(* ring of eight, so that no number of frames fills the ring.              *)
(***************************************************************************)
EXTENDS CaptureRing

\* Three of five hardware channels.
MCSelected == <<1, 2, 4>>
=============================================================================
