----------------------------- MODULE MCDisplayPath -----------------------------
(***************************************************************************)
(* DisplayPath on two channels of two bands.  One channel overflows while  *)
(* the other gets a sample that is not finite: the channels share nothing  *)
(* before their payload.                                                   *)
(***************************************************************************)
EXTENDS DisplayPath

MCChunks == {<<"soft", "soft">>, <<"loud", "nan">>}
===============================================================================
