--------------------------- MODULE MCConnection ---------------------------
(***************************************************************************)
(* Instance of Connection: the call made at startup and a click.           *)
(***************************************************************************)
EXTENDS Connection

CONSTANTS c0, c1

TwoCalls == {c0, c1}
=============================================================================
