------------------------------ MODULE MCHeadless ------------------------------
(***************************************************************************)
(* Headless has no parameters: its state is finite as it stands.           *)
(***************************************************************************)
EXTENDS Headless
===============================================================================
