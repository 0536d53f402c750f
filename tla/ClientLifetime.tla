--------------------------- MODULE ClientLifetime ---------------------------
(***************************************************************************)
(* The life of the process and of the one TcpClient, from main to exit     *)
(* (main.cpp, TcpClient::get_instance), around the sends of TcpWriter.     *)
(*                                                                         *)
(* TcpClient lives in the static shared_ptr instance, and so long as a     *)
(* handler of a send refers to it: each async_write binds                  *)
(* shared_from_this(), and the io_context that keeps the handlers is a     *)
(* member of the client.  When main has returned, exit destroys instance   *)
(* while the detached threads still run: if that was the last reference,   *)
(* socket_ is closed under the reader, whose read_some then fails and      *)
(* whose exception ends the process in std::terminate.                     *)
(*                                                                         *)
(* link is the service's view of the connection, as in TcpWriter.          *)
(***************************************************************************)
EXTENDS TcpWriter

VARIABLES
    main,        \* main: "starting", "running" the event loop, "returned", "exiting"
    client,      \* the TcpClient: "none", "alive" or "destroyed"
    reader,      \* the reader thread: "none", "reading" or "returned"
    process,     \* the process: "running", "exited", or "aborted" by std::terminate
    cut          \* history: the service ended the connection

lifeVars == <<main, client, reader, process, cut>>
allVars == <<vars, lifeVars>>

LifeInit ==
    /\ Init
    /\ main = "starting"
    /\ client = "none"
    /\ reader = "none"
    /\ process = "running"
    /\ cut = FALSE

-----------------------------------------------------------------------------
\* startup_routine: onConnectToService is the first to ask for the instance.
StartUp ==
    /\ main = "starting"
    /\ main' = "running"
    /\ client' = "alive"
    /\ UNCHANGED <<vars, reader, process, cut>>

\* The connector thread succeeds, possibly after main has returned.
ClientConnects ==
    /\ process = "running"
    /\ client = "alive"
    /\ Connect
    /\ UNCHANGED lifeVars

\* onServiceConnected runs in the event loop, the service may be gone by then.
StartReader ==
    /\ main = "running"
    /\ process = "running"
    /\ link # "none"
    /\ reader = "none"
    /\ reader' = "reading"
    /\ UNCHANGED <<vars, main, client, process, cut>>

\* The menu and the form work as long as the event loop runs, connected or not.
UserNotifies(kind, n) ==
    /\ main = "running"
    /\ process = "running"
    /\ Notify(kind, n)
    /\ UNCHANGED lifeVars

SendCompletes ==
    /\ process = "running"
    /\ Transmit
    /\ UNCHANGED lifeVars

ServiceLeaves ==
    /\ process = "running"
    /\ Disconnect
    /\ cut' = TRUE
    /\ UNCHANGED <<main, client, reader, process>>

-----------------------------------------------------------------------------
\* The user closes the window: app.exec() and main return.
Quit ==
    /\ main = "running"
    /\ process = "running"
    /\ main' = "returned"
    /\ UNCHANGED <<vars, client, reader, process, cut>>

\* Faulty variants: the handler is bound to this, not to shared_from_this();
\* the io_context lets go of the handlers of the sends that are done.
Handlers_BoundToThis == 0
Handlers_OnlyPending == Len(pending)

\* The handlers that hold a reference: those of the sends under way, and those of
\* the sends done, which stay in the io_context since nobody runs it.
Handlers == Len(pending) + Len(results)

\* Faulty variant: exit joins the reader first.
DestroyInstance_Joins ==
    /\ main = "returned"
    /\ process = "running"
    /\ reader # "reading"
    /\ main' = "exiting"
    /\ client' = IF Handlers = 0 THEN "destroyed" ELSE client
    /\ UNCHANGED <<vars, reader, process, cut>>

\* exit destroys the static instance; ~TcpClient runs if it was the last one.
DestroyInstance ==
    /\ main = "returned"
    /\ process = "running"
    /\ main' = "exiting"
    /\ client' = IF Handlers = 0 THEN "destroyed" ELSE client
    /\ UNCHANGED <<vars, reader, process, cut>>

\* The system closes what is left: no send gets through any more.
LinkCloses == IF link = "up" THEN Disconnect ELSE UNCHANGED vars

\* ExitProcess stops the detached threads where they are.
ExitProcess ==
    /\ main = "exiting"
    /\ process = "running"
    /\ process' = "exited"
    /\ LinkCloses
    /\ UNCHANGED <<main, client, reader, cut>>

\* The reader gets an end of file.
ReaderReturns ==
    /\ process = "running"
    /\ reader = "reading"
    /\ cut
    /\ reader' = "returned"
    /\ UNCHANGED <<vars, main, client, process, cut>>

\* The connection was reset, or the socket destroyed: system_error is thrown.
ReaderThrows ==
    /\ process = "running"
    /\ reader = "reading"
    /\ cut \/ client = "destroyed"
    /\ process' = "aborted"
    /\ LinkCloses
    /\ UNCHANGED <<main, client, reader, cut>>

LifeNext ==
    \/ StartUp
    \/ ClientConnects
    \/ StartReader
    \/ \E kind \in Kinds, n \in Names : UserNotifies(kind, n)
    \/ SendCompletes
    \/ ServiceLeaves
    \/ Quit
    \/ DestroyInstance
    \/ ExitProcess
    \/ ReaderReturns
    \/ ReaderThrows

LifeSpec == LifeInit /\ [][LifeNext]_allVars

-----------------------------------------------------------------------------
\* Every variable of the process has its type; TypeOK is the type of the others.
LifeTypeOK ==
    /\ main \in {"starting", "running", "returned", "exiting"}
    /\ client \in {"none", "alive", "destroyed"}
    /\ reader \in {"none", "reading", "returned"}
    /\ process \in {"running", "exited", "aborted"}
    /\ cut \in BOOLEAN

\* Once a command was asked for the client is never destroyed under a thread: its
\* handler, which nobody takes out of the io_context, keeps it alive for good
\* (shared_from_this, tcp_client.cpp:143, :151, :159 and :175).
ClientOutlivesCommands == client = "destroyed" => asked = 0

\* The process ends by an exception only if the service reset the connection, or
\* if main returned before any command was asked for (MainWindow.h:62-66 detaches
\* the reader, and nothing stops it before the statics are destroyed).
AbortExplained ==
    process = "aborted" => cut \/ (main = "exiting" /\ asked = 0)

\* A process whose main has returned ends, whatever its threads are blocked in.
QuitEnds == main = "returned" ~> process # "running"
=============================================================================
