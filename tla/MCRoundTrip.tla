---------------------------- MODULE MCRoundTrip ----------------------------
(***************************************************************************)
(* Instance of RoundTrip: the name of a row of SyncTable.qml, and one that *)
(* differs from it in case alone.                                          *)
(***************************************************************************)
EXTENDS RoundTrip

MCNames == {"Module7", "module7"}

MCFolded == [n \in MCNames |-> 1]

MCPlaceholders == {"Module7"}
=============================================================================
