------------------------------ MODULE MCServerRaced ------------------------------
(* ServerRaced for TLC.                                                          *)
EXTENDS ServerRaced, MCServer
==================================================================================
