---------------------------- MODULE MCTcpReader ----------------------------
(***************************************************************************)
(* Instances of TcpReader: a body alphabet of two bytes besides CR and LF, *)
(* and a body that ends in CR, so that the delimiter is found one byte     *)
(* late if the search starts over at the wrong place.                      *)
(***************************************************************************)
EXTENDS TcpReader

CONSTANTS a, b     \* ordinary bytes of a JSON text

MCByte == {a, b, CR, LF}

\* With the delimiter 3, 4 and 6 bytes: a buf of 6 bytes is filled by the last
\* two, and holds two of the first.
MixedCommands == {<<a>>, <<b, CR>>, <<a, b, a, b>>, <<b, b, b, b>>}

\* A command without its name, say.
MixedMalformed == {<<b, b, b, b>>}

\* A buf of 8 bytes holds two of each.
ShortCommands == {<<a>>, <<a, b>>, <<b, CR>>}
=============================================================================
