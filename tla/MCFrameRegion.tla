--------------------------- MODULE MCFrameRegion ---------------------------
(***************************************************************************)
(* Two words, one of them a level, with three bit patterns of which one is *)
(* NaN; enough frames for a reader to fall two behind.                     *)
(***************************************************************************)
EXTENDS FrameRegion
=============================================================================
