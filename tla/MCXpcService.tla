---------------------------- MODULE MCXpcService ----------------------------
(***************************************************************************)
(* Two connections are enough for one to follow, or to be refused beside,  *)
(* the other; two runs for one to overlap the drain of the one before it.  *)
(***************************************************************************)
EXTENDS XpcService
=============================================================================
