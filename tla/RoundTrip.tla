------------------------------ MODULE RoundTrip ------------------------------
(***************************************************************************)
(* A request from the user's click to what he sees of it, in a process     *)
(* that starts, and that he may leave at any time (ClientLifetime): the    *)
(* menu of the table and the form (SyncTable.qml:336-353, SyncTable.h),    *)
(* the sends (TcpWriter), the service, the reader with its backlog         *)
(* (tcp_client.cpp:40-74), command_handler (:75-123), the events it posts  *)
(* to the GUI thread, the table, and the error window (ErrorModal.h).      *)
(*                                                                         *)
(* TcpReader and SyncTable show each part in detail; this module takes     *)
(* them at the size of a command: commands are whole, and rows are the set *)
(* of their names, those the QML file is written with included.  The       *)
(* service is in another repository, and its commands are well-formed.  It *)
(* does what a request asks and says so, refuses it with "-1", or takes it *)
(* in silence, as it does an "edit", whose answer reaches no branch of     *)
(* command_handler; an edit keeps the name.  Unasked it says nothing but   *)
(* "progress", as often as it likes.  It has no other client, so its tasks *)
(* change by the user's requests alone.  The table is not sorted by        *)
(* progress (SyncTable says what happens then).                            *)
(***************************************************************************)
EXTENDS ClientLifetime

CONSTANTS
    Folded,        \* Folded[n]: the name in lower case, which finds the row
    Placeholders,  \* the names in the rows SyncTable.qml is written with
    MaxReports     \* bound: reports of progress

ASSUME RoundAssumption ==
    /\ Folded \in [Names -> Nat]
    /\ Placeholders \subseteq Names
    /\ MaxReports \in Nat

VARIABLES
    tasks,         \* the tasks the service has
    served,        \* how many commands the service has taken
    unread,        \* commands of the service on their way to the reader
    backlog,       \* whole commands in the reader's msg
    queue,         \* events posted to the GUI thread
    shown,         \* the names in the rows of the table
    modal,         \* whether the error window is open
    reports,       \* how many times the service reported progress
    hasty,         \* history: the user asked while an answer was to come
    crossed,       \* history: he asked, or the service reported, while anything was
    removed,       \* history: the tasks the service removed
    refused,       \* history: the names in the requests it refused, in order
    told,          \* history: those the error window has shown, in order
    replaced       \* history: one was replaced before the window was closed

serviceVars == <<tasks, served, removed, refused>>
guiVars == <<queue, shown, modal, told, replaced>>
paceVars == <<reports, hasty, crossed>>
tripVars == <<serviceVars, unread, backlog, guiVars, paceVars>>
roundVars == <<allVars, tripVars>>

\* A command of the service, and with the same fields an event of the GUI thread.
Reply(what, names) == [what |-> what, names |-> names]

\* No request, no answer and no event is on its way.
Quiet ==
    /\ pending = <<>>
    /\ served = Len(wire)
    /\ unread = <<>>
    /\ backlog = <<>>
    /\ queue = <<>>

OnlyReports(s) == \A i \in DOMAIN s : s[i].what \in {"progress", "completion"}

\* No request is on its way, and nothing to the user but reports of progress.
Settled ==
    /\ pending = <<>>
    /\ served = Len(wire)
    /\ OnlyReports(unread) /\ OnlyReports(backlog) /\ OnlyReports(queue)

RoundInit ==
    /\ LifeInit
    /\ tasks \in SUBSET Names
    /\ served = 0
    /\ unread = <<>>
    /\ backlog = <<>>
    /\ queue = <<>>
    /\ shown = Placeholders
    /\ modal = FALSE
    /\ reports = 0
    /\ hasty = FALSE
    /\ crossed = FALSE
    /\ removed = {}
    /\ refused = <<>>
    /\ told = <<>>
    /\ replaced = FALSE

-----------------------------------------------------------------------------
\* The connection, and the service at its other end.

\* The service greets the connection with "init".
Greet ==
    /\ ClientConnects
    /\ unread' = <<Reply("init", tasks)>>
    /\ UNCHANGED <<serviceVars, backlog, guiVars, paceVars>>

\* The service shuts the connection down; what it has written still arrives.
Leave == ServiceLeaves /\ UNCHANGED tripVars

Arrive == SendCompletes /\ UNCHANGED tripVars

Requested == wire[served + 1]

\* The service takes the next command.
Take ==
    /\ link = "up"
    /\ served < Len(wire)
    /\ served' = served + 1
    /\ UNCHANGED <<allVars, backlog, guiVars, paceVars>>

\* The freed text of an earlier command may by then be that of any later one.
Reads(kind, n) == Requested \in {<<kind, n>>, Garbled}

Answer(what, names) == unread' = Append(unread, Reply(what, names))

AddTask(n) ==
    /\ Take
    /\ Reads("add", n)
    /\ n \notin tasks
    /\ tasks' = tasks \cup {n}
    /\ Answer("add", {n})
    /\ UNCHANGED <<removed, refused>>

RemoveTask(n) ==
    /\ Take
    /\ Reads("remove", n)
    /\ n \in tasks
    /\ tasks' = tasks \ {n}
    /\ removed' = removed \cup {n}
    /\ Answer("remove", {n})
    /\ UNCHANGED refused

\* Any request may be refused: the service has rules of its own.
Refuse ==
    /\ Take
    /\ LET names == IF Requested = Garbled THEN {} ELSE {Requested[2]}
       IN  /\ Answer("-1", names)
           /\ refused' = Append(refused, names)
    /\ UNCHANGED <<tasks, removed>>

\* A "sync" starts the work whose progress is reported later, if at all.
Ignore == Take /\ UNCHANGED <<tasks, unread, removed, refused>>

Serve ==
    \/ \E n \in Names : AddTask(n) \/ RemoveTask(n)
    \/ Refuse
    \/ Ignore

\* The service reports the progress of a task, asked or not.
ReportProgress(n) ==
    /\ process = "running"
    /\ link = "up"
    /\ n \in tasks
    /\ reports < MaxReports
    /\ reports' = reports + 1
    /\ crossed' = (crossed \/ ~Quiet)
    /\ Answer("progress", {n})
    /\ UNCHANGED <<allVars, serviceVars, backlog, guiVars, hasty>>

-----------------------------------------------------------------------------
\* The reader thread.

\* Faulty variant: a command is passed on as it came.
Posts_AsItCame(c) == <<c>>

\* command_handler: what each command posts to the GUI thread.
Posts(c) ==
    CASE c.what = "init"     -> <<Reply("fetched", c.names)>>
      [] c.what = "add"      -> <<Reply("added", c.names)>>
      [] c.what = "remove"   -> <<Reply("deleted", c.names)>>
      [] c.what = "progress" -> <<Reply("completion", c.names)>>
      [] c.what = "-1"       -> <<Reply("error", c.names)>>

\* Faulty variants: all of msg is cleared, not just the command handled; a command
\* waits until another one is there.
ReadSome_Cleared(k) ==
    /\ backlog' = <<>>
    /\ queue' = queue \o Posts(Head(backlog \o SubSeq(unread, 1, k)))
    /\ unread' = SubSeq(unread, k + 1, Len(unread))
    /\ UNCHANGED <<allVars, serviceVars, shown, modal, told, replaced, paceVars>>

ReadSome_OneLate(k) ==
    /\ LET msg == backlog \o SubSeq(unread, 1, k)
       IN  IF Len(msg) > 1
           THEN /\ backlog' = Tail(msg)
                /\ queue' = queue \o Posts(Head(msg))
           ELSE /\ backlog' = msg
                /\ UNCHANGED queue
    /\ unread' = SubSeq(unread, k + 1, Len(unread))
    /\ UNCHANGED <<allVars, serviceVars, shown, modal, told, replaced, paceVars>>

\* One read brings the rest of the next k commands, and perhaps part of another one;
\* the loop handles the first one in msg.
ReadSome(k) ==
    /\ LET msg == backlog \o SubSeq(unread, 1, k)
       IN  /\ backlog' = Tail(msg)
           /\ queue' = queue \o Posts(Head(msg))
    /\ unread' = SubSeq(unread, k + 1, Len(unread))
    /\ UNCHANGED <<allVars, serviceVars, shown, modal, told, replaced, paceVars>>

StartReading ==
    /\ process = "running"
    /\ reader = "reading"
    /\ unread # <<>>
    /\ \E k \in 0 .. Len(unread) : k + Len(backlog) > 0 /\ ReadSome(k)

-----------------------------------------------------------------------------
\* The GUI thread.

\* Faulty variant: the row stays.
Without_Nothing(rows, names) == rows

\* deleteModule takes every row whose name is the same but for its case.
Without(rows, names) == {m \in rows : \A n \in names : Folded[m] # Folded[n]}

\* addModule, deleteModule, and modify_progress, which finds no row.
TableEvent ==
    /\ queue # <<>>
    /\ Head(queue).what # "error"
    /\ queue' = Tail(queue)
    /\ shown' = CASE Head(queue).what \in {"fetched", "added"} -> shown \cup Head(queue).names
                  [] Head(queue).what = "deleted" -> Without(shown, Head(queue).names)
                  [] Head(queue).what = "completion" -> shown
    /\ UNCHANGED <<allVars, serviceVars, unread, backlog, modal, told, replaced, paceVars>>

\* Faulty variant: an error is not shown when the window is open already.
ErrorThrown_FirstOnly ==
    /\ queue # <<>>
    /\ Head(queue).what = "error"
    /\ queue' = Tail(queue)
    /\ modal' = TRUE
    /\ told' = IF modal THEN told ELSE Append(told, Head(queue).names)
    /\ UNCHANGED <<allVars, serviceVars, unread, backlog, shown, replaced, paceVars>>

\* ErrorModal::onErrorThrown: opens the window if it is not, and sets its text.
ErrorThrown ==
    /\ queue # <<>>
    /\ Head(queue).what = "error"
    /\ queue' = Tail(queue)
    /\ modal' = TRUE
    /\ told' = Append(told, Head(queue).names)
    /\ replaced' = (replaced \/ modal)
    /\ UNCHANGED <<allVars, serviceVars, unread, backlog, shown, paceVars>>

\* "OK" and "Log" both only close it.
Accept ==
    /\ main = "running"
    /\ process = "running"
    /\ modal
    /\ modal' = FALSE
    /\ UNCHANGED <<allVars, serviceVars, unread, backlog, queue, shown, told, replaced, paceVars>>

Gui == main = "running" /\ process = "running" /\ (TableEvent \/ ErrorThrown)

\* What an Ask says of the pace.
Paced ==
    /\ hasty' = (hasty \/ ~Settled)
    /\ crossed' = (crossed \/ ~Quiet)
    /\ UNCHANGED reports

\* Faulty variant: the error window is not modal.
Ask_NotModal(kind, n) ==
    /\ kind = "add" \/ n \in shown
    /\ UserNotifies(kind, n)
    /\ Paced
    /\ UNCHANGED <<serviceVars, unread, backlog, guiVars>>

\* The form adds any name, the menu speaks of the name in its row; the error
\* window is modal.
Ask(kind, n) ==
    /\ ~modal
    /\ kind = "add" \/ n \in shown
    /\ UserNotifies(kind, n)
    /\ Paced
    /\ UNCHANGED <<serviceVars, unread, backlog, guiVars>>

-----------------------------------------------------------------------------
\* Start-up, and what ends the process; an end of file comes after all that was sent.
Live ==
    /\ StartUp \/ Quit \/ (ReaderReturns /\ unread = <<>>) \/ ReaderThrows
    /\ UNCHANGED tripVars
Begin == StartReader /\ UNCHANGED tripVars
Exit == (DestroyInstance \/ ExitProcess) /\ UNCHANGED tripVars

RoundNext ==
    \/ Live
    \/ Begin
    \/ Exit
    \/ Greet
    \/ Leave
    \/ Arrive
    \/ Serve
    \/ \E n \in Names : ReportProgress(n)
    \/ StartReading
    \/ Gui
    \/ Accept
    \/ \E kind \in Kinds, n \in Names : Ask(kind, n)

RoundSpec == RoundInit /\ [][RoundNext]_roundVars

\* The UI's threads run, main and exit included, and a service that is there
\* takes what it is sent.
RoundFairSpec ==
    /\ RoundSpec
    /\ WF_roundVars(Begin)
    /\ WF_roundVars(Exit)
    /\ WF_roundVars(Arrive)
    /\ WF_roundVars(Serve)
    /\ WF_roundVars(StartReading)
    /\ WF_roundVars(Gui)

-----------------------------------------------------------------------------
Replies == [what : {"init", "add", "remove", "progress", "-1"}, names : SUBSET Names]
Events == [what : {"fetched", "added", "deleted", "completion", "error"}, names : SUBSET Names]

\* Every variable has its type, those of TcpWriter and of the process included.
RoundTypeOK ==
    /\ TypeOK
    /\ LifeTypeOK
    /\ tasks \subseteq Names
    /\ served \in 0 .. Len(wire)
    /\ unread \in Seq(Replies)
    /\ backlog \in Seq(Replies)
    /\ queue \in Seq(Events)
    /\ shown \subseteq Names
    /\ modal \in BOOLEAN
    /\ reports \in 0 .. MaxReports
    /\ hasty \in BOOLEAN
    /\ crossed \in BOOLEAN
    /\ removed \subseteq Names
    /\ refused \in Seq(SUBSET Names)
    /\ told \in Seq(SUBSET Names)
    /\ replaced \in BOOLEAN

\* As long as requests, answers and reports come one at a time no command is left
\* behind in msg, although the reader takes one per read (tcp_client.cpp:63).
PacedKeepsUp == ~crossed => backlog = <<>>

\* The requests the service has yet to take.
Ahead == {i \in served + 1 .. Len(accepted) : link = "up"}

\* Rows of the QML file, which are no tasks, stay unless a removal takes them.
WrittenRows == {p \in Placeholders : \A m \in removed : Folded[m] # Folded[p]}

\* A user who waits for his answers never asks to remove or to sync a task that is
\* gone, whatever is reported meanwhile: of the rows he clicks on only those of the
\* QML file are no tasks (handleDelete and handleSync take the name from the row,
\* SyncTable.qml:336-353).
PacedAsksOfTasks ==
    ~hasty =>
        \A i \in Ahead :
            accepted[i][1] \in {"remove", "sync"} => accepted[i][2] \in tasks \cup WrittenRows

\* Such a user closes the error window before there is another text for it: none is
\* replaced under his eyes (ErrorModal.h:27-35, and the window is modal).
PacedReadsErrors == ~hasty => ~replaced

\* When no answer is on its way every row is a task or one of the QML file, and a
\* task without a row lost it with another one whose name differs in case alone
\* (getRowIndexByName, SyncTable.qml:288-296, and deleteModule, which calls itself
\* by its signal).
RestShowsTasks ==
    Settled /\ link # "none" =>
        /\ shown \subseteq tasks \cup WrittenRows
        /\ \A n \in tasks \ shown : \E m \in removed \ {n} : Folded[m] = Folded[n]

\* When no answer is on its way the user has been told of each refusal, in order: an
\* error window that is open takes the next text too (ErrorModal.h:27-35).
RestToldErrors == Settled => told = refused

\* As long as nothing crosses everything comes to rest, the reports that come too:
\* each answer is seen, unless the service leaves.
PacedComesToRest == []<>(Quiet \/ crossed \/ link = "down" \/ main # "running")
=============================================================================
