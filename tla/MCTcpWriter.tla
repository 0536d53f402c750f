---------------------------- MODULE MCTcpWriter ----------------------------
(***************************************************************************)
(* Values for TcpWriter: two tasks.                                        *)
(***************************************************************************)
EXTENDS TcpWriter

CONSTANTS docs, music

TwoNames == {docs, music}
=============================================================================
