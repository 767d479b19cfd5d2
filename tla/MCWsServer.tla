------------------------------ MODULE MCWsServer ------------------------------
(***************************************************************************)
(* Three connections for two slots: one more than the server admits.       *)
(***************************************************************************)
EXTENDS WsServer
===============================================================================
