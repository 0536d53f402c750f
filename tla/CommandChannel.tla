--------------------------- MODULE CommandChannel ---------------------------
(***************************************************************************)
(* What the inbound half of TcpClient promises the rest of the UI: the     *)
(* commands the service writes on one connection reach command_handler one *)
(* at a time, in the order written, none lost in the middle, none twice,   *)
(* none altered.  How bytes are cut into reads is TcpReader's business.    *)
(***************************************************************************)
EXTENDS Integers, Sequences

CONSTANT Commands    \* the commands the service may write

VARIABLES
    written,         \* the commands the service has written, oldest first
    handled          \* the commands command_handler has been called with

channelVars == <<written, handled>>

Init ==
    /\ written = <<>>
    /\ handled = <<>>

Write ==
    /\ \E c \in Commands : written' = Append(written, c)
    /\ UNCHANGED handled

Handle ==
    /\ Len(handled) < Len(written)
    /\ handled' = Append(handled, written[Len(handled) + 1])
    /\ UNCHANGED written

Next == Write \/ Handle

Spec == Init /\ [][Next]_channelVars
=============================================================================
