----------------------------- MODULE Connection -----------------------------
(***************************************************************************)
(* How the UI connects to the service: MainWindow::onConnectToService and  *)
(* onServiceConnected (QObjects/MainWindow.h:60-79), the connector and     *)
(* reader threads they detach, and the one socket_ those threads share     *)
(* (TcpClient::start_connection and start_reading, tcp_client.cpp:28-74).  *)
(*                                                                         *)
(* A call is one invocation of onConnectToService: Startup is the one of   *)
(* startup_routine, every other one is a click on "Connect To Service".    *)
(* asio::connect closes socket_, opens it and connects it; each is a step. *)
(* A handle is what open() returns; it is named after the call that opened *)
(* it.  The service greets every connection with "init", which is larger   *)
(* than buf and therefore reaches the reader as two fragments; it is       *)
(* well-formed (TcpReader says what a malformed command does).             *)
(***************************************************************************)
EXTENDS Integers, Sequences

CONSTANTS
    Calls,       \* bound: the invocations of onConnectToService
    Startup,     \* the one startup_routine makes
    NoSocket     \* invalid_socket

ASSUME CallsAssumption ==
    /\ Startup \in Calls
    /\ NoSocket \notin Calls

VARIABLES
    service,     \* the service: "up" or "down"
    process,     \* the UI: "running", or "terminated" by an exception
    call,        \* how far the connector thread of each call is
    target,      \* the handle each connector thread is connecting, while it does
    started,     \* TcpClient::started, uninitialised at first
    socket,      \* the handle inside socket_
    link,        \* the state of each handle
    sent,        \* fragments of init the service sent on each handle
    taken,       \* fragments of init read from each handle
    events,      \* events posted to the GUI thread by emit serviceConnected()
    button,      \* whether "Connect To Service" is visible
    reader,      \* the reader thread onServiceConnected detached for each call
    source,      \* the handle each reader thread is reading, while it does
    msg,         \* each reader thread's msg: the fragments in it
    greeted,     \* history: the connections whose init was handled
    overlapped   \* history: a call was made before the one in hand had failed

socketVars == <<socket, link, sent, taken>>
callVars   == <<call, target, started>>
guiVars    == <<events, button>>
readerVars == <<reader, source, msg, greeted>>
vars == <<service, process, callVars, socketVars, guiVars, readerVars, overlapped>>

Handles == Calls \cup {NoSocket}
Init1 == 1       \* the fragments of init: only the second ends in the delimiter
Init2 == 2

Init ==
    /\ service \in {"up", "down"}
    /\ process = "running"
    /\ call = [c \in Calls |-> IF c = Startup THEN "close" ELSE "idle"]
    /\ target = [c \in Calls |-> NoSocket]
    /\ started \in BOOLEAN
    /\ socket = NoSocket
    /\ link = [h \in Calls |-> "unused"]
    /\ sent = [h \in Calls |-> 0]
    /\ taken = [h \in Calls |-> 0]
    /\ events = <<>>
    /\ button = TRUE
    /\ reader = [c \in Calls |-> "none"]
    /\ source = [c \in Calls |-> NoSocket]
    /\ msg = [c \in Calls |-> <<>>]
    /\ greeted = {}
    /\ overlapped = FALSE

-----------------------------------------------------------------------------
\* The service, as long as there is a UI to see it.

StartService ==
    /\ process = "running"
    /\ service = "down"
    /\ service' = "up"
    /\ UNCHANGED <<process, callVars, socketVars, guiVars, readerVars, overlapped>>

\* Every connection ends, in an orderly way or by a reset, perhaps before all
\* of init was sent.
StopService ==
    /\ process = "running"
    /\ service = "up"
    /\ service' = "down"
    /\ \E how \in {"eof", "reset"} :
          link' = [h \in Calls |-> IF link[h] = "connected" THEN how ELSE link[h]]
    /\ \E n \in 0 .. 2 :
          sent' = [h \in Calls |->
                      IF link[h] = "connected" /\ n >= taken[h] THEN n ELSE sent[h]]
    /\ UNCHANGED <<process, callVars, socket, taken, guiVars, readerVars, overlapped>>

-----------------------------------------------------------------------------
\* The connector thread of call c.

\* A call is in hand from its click until its connect has failed.
InHand(c) == call[c] \notin {"idle", "failed"}

\* onConnectToService detaches a thread; the button stays until "show".
Click(c) ==
    /\ process = "running"
    /\ button
    /\ call[c] = "idle"
    /\ call' = [call EXCEPT ![c] = "close"]
    /\ overlapped' = (overlapped \/ \E d \in Calls : InHand(d))
    /\ UNCHANGED <<service, process, target, started, socketVars, guiVars, readerVars>>

\* asio::connect: s.close(ec).
CloseSocket(c) ==
    /\ process = "running"
    /\ call[c] = "close"
    /\ call' = [call EXCEPT ![c] = "open"]
    /\ socket' = NoSocket
    /\ link' = [h \in Calls |-> IF h = socket THEN "closed" ELSE link[h]]
    /\ UNCHANGED <<service, process, target, started, sent, taken, guiVars, readerVars, overlapped>>

\* basic_socket::connect: if (!is_open()) open.
OpenSocket(c) ==
    /\ process = "running"
    /\ call[c] = "open"
    /\ call' = [call EXCEPT ![c] = "connect"]
    /\ IF socket = NoSocket
       THEN /\ socket' = c
            /\ link' = [link EXCEPT ![c] = "open"]
       ELSE UNCHANGED <<socket, link>>
    /\ UNCHANGED <<service, process, target, started, sent, taken, guiVars, readerVars, overlapped>>

\* The blocking connect starts on the handle then in socket_.
BeginConnect(c) ==
    /\ process = "running"
    /\ call[c] = "connect"
    /\ call' = [call EXCEPT ![c] = "connecting"]
    /\ target' = [target EXCEPT ![c] = socket]
    /\ UNCHANGED <<service, process, started, socketVars, guiVars, readerVars, overlapped>>

CanConnect(h) == h # NoSocket /\ service = "up" /\ link[h] = "open"

ConnectOk(c) ==
    /\ process = "running"
    /\ call[c] = "connecting"
    /\ CanConnect(target[c])
    /\ call' = [call EXCEPT ![c] = "linked"]
    /\ link' = [link EXCEPT ![target[c]] = "connected"]
    /\ sent' = [sent EXCEPT ![target[c]] = 2]
    /\ target' = [target EXCEPT ![c] = NoSocket]
    /\ UNCHANGED <<service, process, started, socket, taken, guiVars, readerVars, overlapped>>

\* start_connection catches the exception and returns 0: nothing is emitted.
\* Of two connects on one handle either may be refused by the socket layer.
ConnectFails(c) ==
    /\ process = "running"
    /\ call[c] = "connecting"
    /\ \/ ~CanConnect(target[c])
       \/ \E d \in Calls \ {c} : call[d] = "connecting" /\ target[d] = target[c]
    /\ call' = [call EXCEPT ![c] = "failed"]
    /\ target' = [target EXCEPT ![c] = NoSocket]
    /\ UNCHANGED <<service, process, started, socketVars, guiVars, readerVars, overlapped>>

\* this->started = true; return 1.
SetStarted(c) ==
    /\ process = "running"
    /\ call[c] = "linked"
    /\ call' = [call EXCEPT ![c] = "started"]
    /\ started' = TRUE
    /\ UNCHANGED <<service, process, target, socketVars, guiVars, readerVars, overlapped>>

Posted(c) == <<[what |-> "show", of |-> c], [what |-> "read", of |-> c]>>

\* Faulty variants: the reader is started before the result of the connect is
\* known; only the call made at startup is heard; events name the socket.
Emit_BeforeConnect(c) ==
    /\ process = "running"
    /\ call[c] = "connecting"
    /\ call' = [call EXCEPT ![c] = "connected"]
    /\ events' = events \o Posted(c)
    /\ UNCHANGED <<service, process, target, started, socketVars, button, readerVars, overlapped>>

Emit_OnlyAtStartup(c) ==
    /\ process = "running"
    /\ call[c] = "started"
    /\ call' = [call EXCEPT ![c] = "connected"]
    /\ events' = IF c = Startup THEN events \o Posted(c) ELSE events
    /\ UNCHANGED <<service, process, target, started, socketVars, button, readerVars, overlapped>>

Emit_NamingSocket(c) ==
    /\ process = "running"
    /\ call[c] = "started"
    /\ call' = [call EXCEPT ![c] = "connected"]
    /\ events' = events \o Posted(socket)
    /\ UNCHANGED <<service, process, target, started, socketVars, button, readerVars, overlapped>>

\* emit serviceConnected(): the receivers live in the GUI thread, so one event
\* per connection is posted: first the window's, last onServiceConnected.
Emit(c) ==
    /\ process = "running"
    /\ call[c] = "started"
    /\ call' = [call EXCEPT ![c] = "connected"]
    /\ events' = events \o Posted(c)
    /\ UNCHANGED <<service, process, target, started, socketVars, button, readerVars, overlapped>>

Connector(c) ==
    \/ CloseSocket(c)
    \/ OpenSocket(c)
    \/ BeginConnect(c)
    \/ ConnectOk(c)
    \/ ConnectFails(c)
    \/ SetStarted(c)
    \/ Emit(c)

-----------------------------------------------------------------------------
\* The GUI thread takes the oldest event.

\* Faulty variant: the later receivers are forgotten.
ShowTable_DropsRest ==
    /\ process = "running"
    /\ events # <<>>
    /\ Head(events).what = "show"
    /\ events' = <<>>
    /\ button' = FALSE
    /\ UNCHANGED <<service, process, callVars, socketVars, readerVars, overlapped>>

\* The window's onServiceConnected: the table replaces the button, for good.
ShowTable ==
    /\ process = "running"
    /\ events # <<>>
    /\ Head(events).what = "show"
    /\ events' = Tail(events)
    /\ button' = FALSE
    /\ UNCHANGED <<service, process, callVars, socketVars, readerVars, overlapped>>

\* MainWindow::onServiceConnected detaches a reader thread.
StartReader ==
    /\ process = "running"
    /\ events # <<>>
    /\ Head(events).what = "read"
    /\ events' = Tail(events)
    /\ reader' = [reader EXCEPT ![Head(events).of] = "ready"]
    /\ UNCHANGED <<service, process, callVars, socketVars, button, source, msg, greeted, overlapped>>

Gui == ShowTable \/ StartReader

-----------------------------------------------------------------------------
\* The reader thread detached for call r.

\* socket_.read_some loads the handle and blocks in recv.
BeginRead(r) ==
    /\ process = "running"
    /\ reader[r] = "ready"
    /\ reader' = [reader EXCEPT ![r] = "reading"]
    /\ source' = [source EXCEPT ![r] = socket]
    /\ UNCHANGED <<service, process, callVars, socketVars, guiVars, msg, greeted, overlapped>>

\* recv delivers while the handle is ours, also what came before an EOF.
Readable(h) == h # NoSocket /\ link[h] \in {"connected", "eof", "reset"} /\ taken[h] < sent[h]

\* Faulty variant: msg is declared inside the loop.
ReadInit1_MsgInsideLoop(r) ==
    /\ process = "running"
    /\ reader[r] = "reading"
    /\ Readable(source[r])
    /\ taken[source[r]] + 1 = Init1
    /\ taken' = [taken EXCEPT ![source[r]] = Init1]
    /\ reader' = [reader EXCEPT ![r] = "ready"]
    /\ source' = [source EXCEPT ![r] = NoSocket]
    /\ UNCHANGED <<service, process, callVars, socket, link, sent, guiVars, msg, greeted, overlapped>>

\* The first fragment holds no delimiter and waits in msg.
ReadInit1(r) ==
    /\ process = "running"
    /\ reader[r] = "reading"
    /\ Readable(source[r])
    /\ taken[source[r]] + 1 = Init1
    /\ taken' = [taken EXCEPT ![source[r]] = Init1]
    /\ msg' = [msg EXCEPT ![r] = Append(@, Init1)]
    /\ reader' = [reader EXCEPT ![r] = "ready"]
    /\ source' = [source EXCEPT ![r] = NoSocket]
    /\ UNCHANGED <<service, process, callVars, socket, link, sent, guiVars, greeted, overlapped>>

\* The second completes a command: init if this thread has the first and no
\* more, else a text on which json::parse throws out of the thread.
ReadInit2(r) ==
    /\ process = "running"
    /\ reader[r] = "reading"
    /\ Readable(source[r])
    /\ taken[source[r]] + 1 = Init2
    /\ taken' = [taken EXCEPT ![source[r]] = Init2]
    /\ IF msg[r] = <<Init1>>
       THEN /\ greeted' = greeted \cup {source[r]}
            /\ reader' = [reader EXCEPT ![r] = "ready"]
            /\ UNCHANGED process
       ELSE /\ process' = "terminated"
            /\ UNCHANGED <<greeted, reader>>
    /\ msg' = [msg EXCEPT ![r] = <<>>]
    /\ source' = [source EXCEPT ![r] = NoSocket]
    /\ UNCHANGED <<service, callVars, socket, link, sent, guiVars, overlapped>>

\* The thread function returns; no one is told.
ReadEof(r) ==
    /\ process = "running"
    /\ reader[r] = "reading"
    /\ source[r] # NoSocket
    /\ link[source[r]] = "eof"
    /\ taken[source[r]] = sent[source[r]]
    /\ reader' = [reader EXCEPT ![r] = "returned"]
    /\ source' = [source EXCEPT ![r] = NoSocket]
    /\ UNCHANGED <<service, process, callVars, socketVars, guiVars, msg, greeted, overlapped>>

\* Faulty variant: EOF is taken for an error.
RecvFails_AtEof(h) == h # NoSocket => link[h] \in {"reset", "closed", "open", "eof"}

\* recv fails on a reset connection, a closed handle, or one not connected.
RecvFails(h) == h # NoSocket => link[h] \in {"reset", "closed", "open"}

\* Any other error than EOF: std::system_error leaves the thread function.
ReadError(r) ==
    /\ process = "running"
    /\ reader[r] = "reading"
    /\ RecvFails(source[r])
    /\ process' = "terminated"
    /\ UNCHANGED <<service, callVars, socketVars, guiVars, readerVars, overlapped>>

Reader(r) ==
    \/ BeginRead(r)
    \/ ReadInit1(r)
    \/ ReadInit2(r)
    \/ ReadEof(r)
    \/ ReadError(r)

-----------------------------------------------------------------------------
Next ==
    \/ StartService
    \/ StopService
    \/ \E c \in Calls : Click(c) \/ Connector(c) \/ Reader(c)
    \/ Gui

Spec == Init /\ [][Next]_vars

\* The threads the program starts run: the operating system schedules them.
ThreadFairness ==
    /\ \A c \in Calls : WF_vars(Connector(c)) /\ WF_vars(Reader(c))
    /\ WF_vars(Gui)

FairSpec == Spec /\ ThreadFairness

-----------------------------------------------------------------------------
Event == [what : {"show", "read"}, of : Calls]

CallStates ==
    {"idle", "close", "open", "connect", "connecting", "linked", "started",
     "connected", "failed"}

\* Every variable has its type.
TypeOK ==
    /\ service \in {"up", "down"}
    /\ process \in {"running", "terminated"}
    /\ call \in [Calls -> CallStates]
    /\ target \in [Calls -> Handles]
    /\ started \in BOOLEAN
    /\ socket \in Handles
    /\ link \in [Calls -> {"unused", "open", "connected", "eof", "reset", "closed"}]
    /\ sent \in [Calls -> 0 .. 2]
    /\ taken \in [Calls -> 0 .. 2]
    /\ events \in Seq(Event)
    /\ button \in BOOLEAN
    /\ reader \in [Calls -> {"none", "ready", "reading", "returned"}]
    /\ source \in [Calls -> Handles]
    /\ msg \in [Calls -> Seq({Init1, Init2})]
    /\ greeted \subseteq Calls
    /\ overlapped \in BOOLEAN

\* The two exceptions that may leave a reader thread (tcp_client.cpp:57 and :69)
\* do so only after a reset by the service, unless two calls overlapped.
TerminationExplained ==
    process = "terminated" => overlapped \/ \E h \in Calls : link[h] = "reset"

\* Unless two calls overlapped, there is one reader thread at most, it reads the
\* handle that is in socket_, which was connected, and start_reading's "start
\* connection first before reading" (tcp_client.cpp:41-44) is never logged.
ReaderOwnsSocket ==
    ~overlapped =>
        \A r \in Calls : reader[r] \in {"ready", "reading"} =>
            /\ started
            /\ socket = r
            /\ link[r] \in {"connected", "eof", "reset"}
            /\ reader[r] = "reading" => source[r] = r

\* Unless two calls overlapped, an init whose last byte was read was handled:
\* no second thread took a part of it (read_some on one shared socket_,
\* tcp_client.cpp:50, and each thread's own msg, :45).
InitNotLost ==
    ~overlapped => \A h \in Calls : taken[h] = 2 => h \in greeted

\* Once a call succeeded the GUI thread shows the table and starts its reader
\* (MainWindow.h:40-42), unless the process dies first.
ConnectedIsServed ==
    \A c \in Calls :
        call[c] = "connected" ~> process = "terminated" \/ (~button /\ reader[c] # "none")

\* A connection the service keeps gets its init handled, unless calls overlapped.
InitDelivered ==
    \A h \in Calls :
        link[h] = "connected" ~> h \in greeted \/ link[h] # "connected" \/ overlapped

\* A user who clicks "Connect To Service" as long as it is there and no earlier
\* click is being worked on.
PatientClick(c) == Click(c) /\ \A d \in Calls : ~InHand(d)

PatientUser == \A c \in Calls : WF_vars(PatientClick(c))

\* While the button is there it works for such a user: with a service that stays
\* up, and clicks left to make, the table is shown, whatever the interleaving of
\* the connector threads on socket_ - or the process dies.
ButtonConnects ==
    PatientUser =>
        (service = "up" /\ (\E c \in Calls : call[c] = "idle")
            ~> service = "down" \/ process = "terminated" \/ ~button)

\* README.md:18: "Connects to the service automatically".  With a service that stays
\* up and a user who clicks whenever he can, there is a connection sooner or later -
\* also after the service was gone for a while.
ReconnectsToService ==
    PatientUser =>
        (service = "up" /\ (\E c \in Calls : call[c] = "idle")
            ~> \/ service = "down"
               \/ process = "terminated"
               \/ \E h \in Calls : link[h] = "connected")

\* asio's rule for a socket shared by threads (basic_stream_socket.hpp:45-54):
\* while one thread is between the close and the end of the connect, no other one
\* uses socket_.
SocketNotShared ==
    \A c \in Calls :
        call[c] \in {"open", "connect", "connecting"} =>
            /\ \A d \in Calls \ {c} : call[d] \notin {"open", "connect", "connecting"}
            /\ \A r \in Calls : reader[r] # "reading"
=============================================================================
