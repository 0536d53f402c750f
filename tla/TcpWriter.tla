----------------------------- MODULE TcpWriter -----------------------------
(***************************************************************************)
(* The outbound half of TcpClient: notify_removal, notify_add, notify_edit *)
(* and request_sync (tcp_client.cpp:137-177), called by the GUI thread for *)
(* the table's menu and the form.  Each puts its command into the one      *)
(* message_ and starts an overlapped send of it that nobody waits for.     *)
(*                                                                         *)
(* A send the service is slow to take is pending, and reads message_ when  *)
(* it gets its turn.  Assigning message_ frees the text it held, so that a *)
(* send still pending then sends whatever is found there: what it should,  *)
(* or anything else, the text of a later command included.  The io_context *)
(* is never run: the result of a send stays in its queue, and              *)
(* notify_success (:162-169) is never called.                              *)
(* A command fits in one transfer (65536 bytes, impl/write.hpp).           *)
(***************************************************************************)
EXTENDS Integers, Sequences

CONSTANTS
    Names,       \* the names of tasks in the commands
    Garbled,     \* anything else than the command that was to be sent
    MaxCommands  \* bound: commands asked for

Kinds == {"remove", "add", "edit", "sync"}
Command == Kinds \X Names

ASSUME WriterAssumption ==
    /\ Garbled \notin Command
    /\ MaxCommands \in Nat

VARIABLES
    link,        \* socket_: "none", then "up", then "down"
    message,     \* message_, the command in it, <<>> when none
    pending,     \* sends not yet done: the command, and whether message_ still holds it
    wire,        \* what the service got
    accepted,    \* history: the commands whose send the socket accepted
    results,     \* results of sends in the queue of the io_context
    asked,       \* history: how many commands the user asked for
    rushed       \* history: one was asked for while a send was pending

vars == <<link, message, pending, wire, accepted, results, asked, rushed>>

Init ==
    /\ link = "none"
    /\ message = <<>>
    /\ pending = <<>>
    /\ wire = <<>>
    /\ accepted = <<>>
    /\ results = <<>>
    /\ asked = 0
    /\ rushed = FALSE

Connect ==
    /\ link = "none"
    /\ link' = "up"
    /\ UNCHANGED <<message, pending, wire, accepted, results, asked, rushed>>

\* The service is gone: sends fail, those that were pending too.
Disconnect ==
    /\ link = "up"
    /\ link' = "down"
    /\ pending' = <<>>
    /\ results' = results \o [i \in DOMAIN pending |-> "error"]
    /\ UNCHANGED <<message, wire, accepted, asked, rushed>>

Dangling(sends) == [i \in DOMAIN sends |-> [sends[i] EXCEPT !.held = FALSE]]

\* Faulty variants: message_ is a local variable, freed on return; a send overtakes
\* those that are pending; a send is only started when none is pending.
Posted_LocalMessage(sends, c) == Append(Dangling(sends), [cmd |-> c, held |-> FALSE])
Posted_First(sends, c) == <<[cmd |-> c, held |-> TRUE]>> \o Dangling(sends)
Posted_WhenIdle(sends, c) == IF sends = <<>> THEN <<[cmd |-> c, held |-> TRUE]>> ELSE sends

\* Assigning message_ frees the text of the sends before; WSASend queues this one.
Posted(sends, c) == Append(Dangling(sends), [cmd |-> c, held |-> TRUE])

\* message_ = j.dump() + "\r\n"; async_write(socket_, buffer(message_), ...).
Notify(kind, n) ==
    /\ asked < MaxCommands
    /\ asked' = asked + 1
    /\ message' = <<kind, n>>
    /\ rushed' = (rushed \/ pending # <<>>)
    /\ IF link = "up"
       THEN /\ pending' = Posted(pending, <<kind, n>>)
            /\ accepted' = Append(accepted, <<kind, n>>)
            /\ UNCHANGED results
       ELSE /\ results' = Append(results, "error")
            /\ UNCHANGED <<pending, accepted>>
    /\ UNCHANGED <<link, wire>>

\* The oldest pending send is done.
Transmit ==
    /\ pending # <<>>
    /\ \E c \in {Head(pending).cmd} \cup (IF Head(pending).held THEN {} ELSE {Garbled}) :
          wire' = Append(wire, c)
    /\ pending' = Tail(pending)
    /\ results' = Append(results, "ok")
    /\ UNCHANGED <<link, message, accepted, asked, rushed>>

Next ==
    \/ Connect
    \/ Disconnect
    \/ \E kind \in Kinds, n \in Names : Notify(kind, n)
    \/ Transmit

Spec == Init /\ [][Next]_vars

-----------------------------------------------------------------------------
Send == [cmd : Command, held : BOOLEAN]

\* Every variable has its type.
TypeOK ==
    /\ link \in {"none", "up", "down"}
    /\ message \in Command \cup {<<>>}
    /\ pending \in Seq(Send)
    /\ wire \in Seq(Command \cup {Garbled})
    /\ accepted \in Seq(Command)
    /\ results \in Seq({"ok", "error"})
    /\ asked \in 0 .. MaxCommands
    /\ rushed \in BOOLEAN

\* The service gets as many commands as were sent, each in its place; only the text
\* may be another one, that of a later command included (tcp_client.cpp:142).
InOrder ==
    /\ Len(wire) + Len(pending) <= Len(accepted)
    /\ \A i \in DOMAIN wire : wire[i] \in {accepted[i], Garbled}

\* A command reaches the service as it was asked for, unless the user asked for
\* another while a send was pending.
IntactWhenPaced ==
    ~rushed => \A i \in DOMAIN wire : wire[i] = accepted[i]

\* Every command has one result, in the queue or to come, and none has two.
OneResultEach == Len(results) + Len(pending) = asked

\* A command accepted by a socket whose peer stays is sent sooner or later.
AcceptedIsSent ==
    \A k \in 1 .. MaxCommands :
        Len(accepted) >= k ~> Len(wire) >= k \/ link = "down"

\* write.hpp:746-747: the caller "must guarantee that they [the buffers] remain
\* valid until the completion handler is called"; README.md:20: "Add sync tasks
\* and remove them from the service".
ArrivesIntact ==
    \A i \in DOMAIN wire : wire[i] = accepted[i]
=============================================================================
