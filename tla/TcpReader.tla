------------------------------ MODULE TcpReader ------------------------------
(***************************************************************************)
(* TcpClient::start_reading (src/src/tcp_client.cpp:40-74): one reader     *)
(* thread cuts the byte stream of one connection into commands.            *)
(*                                                                         *)
(* Each turn of the loop reads at most BufSize bytes, appends them to the  *)
(* thread's own msg, looks for the FIRST "\r\n" in msg and, when there is  *)
(* one, erases that command from msg and hands it to the JSON parser and   *)
(* command_handler.  A second complete command already in msg waits for    *)
(* the next read.  The service is the environment: it writes whole         *)
(* commands, each followed by the delimiter, and may close or reset the    *)
(* connection between any two steps; TCP may cut the stream anywhere.  A   *)
(* command may be one that command_handler cannot digest, a name missing   *)
(* or a type unknown (:76, :82, :92-96, :101, :105, :119): its exception   *)
(* leaves the thread, as that of a failed read does.                       *)
(***************************************************************************)
EXTENDS Integers, Sequences

CONSTANTS
    Byte,          \* the bytes of the stream
    CR, LF,        \* the two bytes of delimitter
    Commands,      \* bodies of the commands the service writes: JSON texts
    Malformed,     \* those command_handler throws on
    BufSize,       \* size of buf, 128 in the code
    MaxCommands    \* bound: how many commands the service writes

\* The body of a command holds no delimiter: a JSON text escapes control bytes.
ASSUME StreamAssumption ==
    /\ CR \in Byte
    /\ LF \in Byte
    /\ CR # LF
    /\ Commands \subseteq Seq(Byte)
    /\ Malformed \subseteq Commands
    /\ \A c \in Commands : \A i \in 1 .. Len(c) - 1 : ~(c[i] = CR /\ c[i + 1] = LF)
    /\ BufSize \in Nat \ {0}
    /\ MaxCommands \in Nat

VARIABLES
    written,       \* history: the commands the service wrote, oldest first
    wire,          \* history: every byte the service wrote
    ends,          \* history: ends[k] is the number of bytes of written[1..k]
    peer,          \* the service's end: "open", "closed" or "reset"
    received,      \* how many bytes of wire read_some has returned
    msg,           \* std::string msg
    handled,       \* history: the texts command_handler was called with
    reader         \* "reading"; "returned" after EOF; "terminated" by an exception

serviceVars == <<written, wire, ends, peer>>
readerVars  == <<received, msg, handled, reader>>
vars == <<serviceVars, readerVars>>

-----------------------------------------------------------------------------
delimitter == <<CR, LF>>

DelimiterAt(s, i) ==
    /\ i \in 1 .. Len(s) - 1
    /\ s[i] = CR
    /\ s[i + 1] = LF

\* pos != std::string::npos
HasDelimiter(s) == \E i \in 1 .. Len(s) : DelimiterAt(s, i)

\* msg.find(delimitter), counting from 1.
Find(s) ==
    CHOOSE i \in 1 .. Len(s) :
        /\ DelimiterAt(s, i)
        /\ \A j \in 1 .. i - 1 : ~DelimiterAt(s, j)

\* obj_sent: the text before the first delimiter.
ObjSent(s) == SubSeq(s, 1, Find(s) - 1)

\* Faulty variant: no erase at all.
Erase_Forgotten(s) == s

\* msg.erase(0, pos + delimitter.length())
Erase(s) == SubSeq(s, Find(s) + Len(delimitter), Len(s))

\* Faulty variant: msg is declared inside the loop, a partial command is lost.
Buffer_MsgInsideLoop(len) == SubSeq(wire, received + 1, received + len)

\* msg after msg.append(buf.data(), len).
Buffer(len) == msg \o SubSeq(wire, received + 1, received + len)

\* The JSON parser skips a CR or LF that is part of no token, at either end too.
Tokens(text) == SelectSeq(text, LAMBDA byte : byte \notin {CR, LF})

\* What nlohmann::json::parse makes of a text: a command the service may write; of
\* the rest nothing, no proper part of a JSON object is one.
Meanings(text) == {c \in Commands : Tokens(c) = Tokens(text)}

\* json::parse returns, and then command_handler.
Parses(text) == Meanings(text) # {}
Digests(text) == Meanings(text) \ Malformed # {}

Init ==
    /\ written = <<>>
    /\ wire = <<>>
    /\ ends = <<>>
    /\ peer = "open"
    /\ received = 0
    /\ msg = <<>>
    /\ handled = <<>>
    /\ reader = "reading"

-----------------------------------------------------------------------------
\* The service writes one command and its delimiter.
WriteCommand ==
    /\ peer = "open"
    /\ Len(written) < MaxCommands
    /\ \E c \in Commands :
          /\ written' = Append(written, c)
          /\ wire' = wire \o c \o delimitter
          /\ ends' = Append(ends, Len(wire) + Len(c) + 2)
    /\ UNCHANGED <<peer, readerVars>>

\* The service shuts the connection down, or dies and resets it.
Disconnect ==
    /\ peer = "open"
    /\ peer' \in {"closed", "reset"}
    /\ UNCHANGED <<written, wire, ends, readerVars>>

\* Faulty variant: len is taken for the size of buf.
ReadSome_WholeBuf(len) ==
    /\ reader = "reading"
    /\ received + len <= Len(wire)
    /\ received' = received + BufSize
    /\ msg' = Buffer(len)
    /\ UNCHANGED <<handled, reader, serviceVars>>

\* One turn of the loop in which read_some returns len bytes.
ReadSome(len) ==
    /\ reader = "reading"
    /\ received + len <= Len(wire)
    /\ received' = received + len
    /\ IF HasDelimiter(Buffer(len))
       THEN LET obj == ObjSent(Buffer(len))
            IN  /\ msg' = Erase(Buffer(len))
                /\ handled' = IF Parses(obj) THEN Append(handled, obj) ELSE handled
                /\ reader' = IF Digests(obj) THEN reader ELSE "terminated"
       ELSE /\ msg' = Buffer(len)
            /\ UNCHANGED <<handled, reader>>
    /\ UNCHANGED serviceVars

\* error == asio::error::eof: every byte was delivered before it.
ReadEof ==
    /\ reader = "reading"
    /\ peer = "closed"
    /\ received = Len(wire)
    /\ reader' = "returned"
    /\ UNCHANGED <<received, msg, handled, serviceVars>>

\* Any other error: std::system_error leaves the thread function.
ReadError ==
    /\ reader = "reading"
    /\ peer = "reset"
    /\ reader' = "terminated"
    /\ UNCHANGED <<received, msg, handled, serviceVars>>

\* Faulty variant: buf holds two commands.
StartReading_LargerBuf == \E len \in 1 .. 2 * BufSize : ReadSome(len)

StartReading ==
    \/ \E len \in 1 .. BufSize : ReadSome(len)
    \/ ReadEof
    \/ ReadError

Next ==
    \/ WriteCommand
    \/ Disconnect
    \/ StartReading

Spec == Init /\ [][Next]_vars

\* A reader thread with something to read is scheduled sooner or later.
FairSpec == Spec /\ WF_vars(StartReading)

-----------------------------------------------------------------------------
\* Every variable has its type, and the reader has not read past the stream.
TypeOK ==
    /\ written \in Seq(Commands)
    /\ wire \in Seq(Byte)
    /\ ends \in Seq(Nat)
    /\ peer \in {"open", "closed", "reset"}
    /\ received \in 0 .. Len(wire)
    /\ msg \in Seq(Byte)
    /\ handled \in Seq(Commands)
    /\ reader \in {"reading", "returned", "terminated"}

\* The commands handed to command_handler are the first ones the service wrote,
\* unaltered and in order, however TCP cut the stream (the append to msg and the
\* erase of pos + delimitter.length(), tcp_client.cpp:59-71).
InOrderExactlyOnce ==
    /\ Len(handled) <= Len(written)
    /\ \A k \in 1 .. Len(handled) : handled[k] = written[k]

\* An exception leaves this thread, and ends the process, only after a reset
\* (tcp_client.cpp:57) or out of command_handler called with a malformed command
\* that the service did write: json::parse (:69) gets no other text, and no part of
\* one, however TCP cut the stream.
TerminationExplained ==
    reader = "terminated" =>
        \/ peer = "reset"
        \/ \E n \in 1 .. Len(written) :
              n = Len(handled) /\ handled[n] = written[n] /\ written[n] \in Malformed

\* Every command written, with its delimiter, is at least as long as buf.
CommandsFillBuf == \A k \in 1 .. Len(written) : Len(written[k]) + Len(delimitter) >= BufSize

\* When commands fill buf no read can complete two of them, so none is left
\* behind in msg (tcp_client.cpp:63 takes one command per read).
NoBacklogOfLongCommands == CommandsFillBuf => ~HasDelimiter(msg)

\* The reader ended, or is going to, before it came to the k-th command.
CutShort(k) == peer = "reset" \/ \E j \in 1 .. Len(written) : j < k /\ written[j] \in Malformed

\* As long as commands fill buf, each one the service writes is handled, unless it
\* resets the connection or one before is malformed: one command per read is then
\* enough (tcp_client.cpp:63), whatever the sizes of the reads.
LongCommandsHandled ==
    \A k \in 1 .. MaxCommands :
        Len(written) >= k ~> Len(handled) >= k \/ CutShort(k) \/ ~CommandsFillBuf

\* README.md:18 says the UI "gets all the sync tasks and displays them": every
\* command the service writes, of any length, is handled unless it resets the
\* connection or one before is malformed.
EveryCommandHandled ==
    \A k \in 1 .. MaxCommands : Len(written) >= k ~> Len(handled) >= k \/ CutShort(k)

\* Whatever the cuts, the reader implements the FIFO of CommandChannel: a read
\* hands over at most one command, the next one in the order written.
Channel == INSTANCE CommandChannel
ImplementsChannel == Channel!Spec
=============================================================================
