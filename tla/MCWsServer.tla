----------------------------- MODULE MCWsServer ------------------------------
(* Small instances of WsServer for TLC. *)
EXTENDS WsServer

CONSTANTS k1, k2
MCConns1 == {k1}
MCConns2 == {k1, k2}
==============================================================================
