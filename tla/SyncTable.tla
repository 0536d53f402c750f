----------------------------- MODULE SyncTable -----------------------------
(***************************************************************************)
(* The table of sync tasks: the slots of SyncTable (QObjects/SyncTable.h)  *)
(* and the functions of SyncTable.qml, fed by the signals command_handler  *)
(* emits from the reader thread (tcp_client.cpp:75-123).  The receivers    *)
(* live in the GUI thread, so each connection of a signal posts one event  *)
(* to the queue that thread works off.                                     *)
(*                                                                         *)
(* The service is modelled by what those commands say of it: it sends      *)
(* "init" with all its tasks on connecting, "add" and "remove" as they     *)
(* change, and "progress".  TcpReader shows that the commands arrive in    *)
(* the order sent, and Connection when there is a connection to send on.   *)
(*                                                                         *)
(* A task is its name; a text is its rank among the lower-cased texts,     *)
(* which is all that sorting and searching look at.                        *)
(***************************************************************************)
EXTENDS Integers, Sequences, SequencesExt, FiniteSets

CONSTANTS
    Names,         \* the names a row may have
    Tasks,         \* those the service may have
    Placeholders,  \* the rows in SyncTable.qml:149-156, with the progress the
                   \* constructor of SyncTable sets (SyncTable.h:48-51)
    Module8,       \* the name onModulesFetched sets the completion of
    Text,          \* Text[column][name]: what a text column of that row holds
    DumpText,      \* DumpText[name]: the text of the name as dump() quotes it
    Clickable,     \* the columns whose header the user clicks
    Percents,      \* the values of "progress" the service sends
    MaxChanges     \* bound: changes of the service's tasks and progress

TextColumns == DOMAIN Text
Columns == TextColumns \cup {"progress"}
Row == [name : Names, progress : Nat]

ASSUME TableAssumption ==
    /\ Tasks \subseteq Names /\ IsFiniteSet(Tasks)
    /\ Module8 \in Names
    /\ "name" \in TextColumns
    /\ "progress" \notin TextColumns
    /\ Text \in [TextColumns -> [Names -> Nat]]
    /\ Clickable \subseteq Columns
    /\ Percents \subseteq Nat
    /\ Placeholders \in Seq(Row)
    /\ MaxChanges \in Nat

\* A dumped name begins with a quotation mark, so it is never the name itself.
ASSUME DumpAssumption ==
    /\ DumpText \in [Names -> Nat]
    /\ \A n \in Names : DumpText[n] # Text["name"][n]

VARIABLES
    connected,     \* whether the service has sent "init"
    tasks,         \* the tasks the service has
    queue,         \* events posted to the GUI thread
    rows,          \* tableView.model.rows
    column,        \* sortedColumnIndex
    ascending,     \* sortedAscending
    modules,       \* the vector of modules, main.cpp:15
    changes        \* bound: changes made so far

serviceVars == <<connected, tasks, changes>>
sortVars    == <<column, ascending>>
vars == <<serviceVars, queue, rows, sortVars, modules>>

-----------------------------------------------------------------------------
\* The functions of SyncTable.qml.

Cell(row, col) == IF col = "progress" THEN row.progress ELSE Text[col][row.name]

InOrder(rs, col, asc) ==
    \A i, j \in DOMAIN rs : i < j =>
        IF asc THEN Cell(rs[i], col) <= Cell(rs[j], col)
               ELSE Cell(rs[i], col) >= Cell(rs[j], col)

\* What Array.sort may return: it need not keep the order of equal rows.
Sorted(rs, col, asc) ==
    {s \in {[i \in DOMAIN rs |-> rs[p[i]]] : p \in SetToSeqs(DOMAIN rs)} : InOrder(s, col, asc)}

\* Faulty variant: the progress is forgotten.
NewRow_NoProgress(n) == [name |-> n]

NewRow(n) == [name |-> n, progress |-> 0]

\* The loops of addModule walk past the rows the new one comes after.
ComesAfter(n, row) ==
    IF ascending THEN Text[column][n] >= Text[column][row.name]
                 ELSE Text[column][n] < Text[column][row.name]

\* Faulty variants: the descending loop compares the other way; splice replaces
\* the row it should push down.
AddModule_DescendingSwapped(rs, n) ==
    IF column = "progress"
    THEN IF rs = <<>> THEN <<NewRow(n)>> ELSE rs
    ELSE LET after(row) == Text[column][n] >= Text[column][row.name]
             k == CHOOSE k \in 0 .. Len(rs) :
                      /\ \A i \in 1 .. k : after(rs[i])
                      /\ k < Len(rs) => ~after(rs[k + 1])
         IN  SubSeq(rs, 1, k) \o <<NewRow(n)>> \o SubSeq(rs, k + 1, Len(rs))

AddModule_Replaces(rs, n) ==
    IF column = "progress"
    THEN IF rs = <<>> THEN <<NewRow(n)>> ELSE rs
    ELSE LET k == CHOOSE k \in 0 .. Len(rs) :
                      /\ \A i \in 1 .. k : ComesAfter(n, rs[i])
                      /\ k < Len(rs) => ~ComesAfter(n, rs[k + 1])
         IN  SubSeq(rs, 1, k) \o <<NewRow(n)>> \o SubSeq(rs, k + 2, Len(rs))

\* addModule.  The progress of a row is a number and has no toLowerCase(): with
\* a row to compare to, a TypeError ends the function before it adds anything.
AddModule(rs, n) ==
    IF column = "progress"
    THEN IF rs = <<>> THEN <<NewRow(n)>> ELSE rs
    ELSE LET k == CHOOSE k \in 0 .. Len(rs) :
                      /\ \A i \in 1 .. k : ComesAfter(n, rs[i])
                      /\ k < Len(rs) => ~ComesAfter(n, rs[k + 1])
         IN  SubSeq(rs, 1, k) \o <<NewRow(n)>> \o SubSeq(rs, k + 1, Len(rs))

\* The loop of onModulesFetched.
AddModules(rs, ns) ==
    LET added[i \in 0 .. Len(ns)] == IF i = 0 THEN rs ELSE AddModule(added[i - 1], ns[i])
    IN  added[Len(ns)]

\* The elements of s at the indices in I, in order.
Kept(s, I) ==
    LET first[k \in 0 .. Len(s)] ==
            IF k = 0 THEN <<>>
            ELSE IF k \in I THEN Append(first[k - 1], s[k]) ELSE first[k - 1]
    IN  first[Len(s)]

\* The indices of the rows whose name is n, whatever the case.
Hits(rs, n) == {i \in DOMAIN rs : Text["name"][rs[i].name] = Text["name"][n]}

\* Faulty variant: the index is tested with if(index), which an index of 0 fails.
DeleteModule_NotTheFirst(rs, n) == Kept(rs, (DOMAIN rs \ Hits(rs, n)) \cup {1})

\* deleteModule removes the first row whose name matches, and emits moduleDeleted
\* again, which calls it again until there is none.
DeleteModule(rs, n) == Kept(rs, DOMAIN rs \ Hits(rs, n))

\* modify_progress: setData on the first row that matches; the rows stay put.
ModifyProgress(rs, text, val) ==
    [i \in DOMAIN rs |->
        IF /\ Text["name"][rs[i].name] = text
           /\ \A j \in 1 .. i - 1 : Text["name"][rs[j].name] # text
        THEN [rs[i] EXCEPT !.progress = val]
        ELSE rs[i]]

-----------------------------------------------------------------------------
Event(what, names, val) == [what |-> what, names |-> names, val |-> val]

Init ==
    /\ connected = FALSE
    /\ tasks \in SUBSET Tasks
    /\ queue = <<>>
    /\ rows \in Sorted(Placeholders, "name", TRUE)
    /\ column = "name"
    /\ ascending = TRUE
    /\ modules = <<>>
    /\ changes = 0

\* command_handler, in the reader thread: what each command posts.

\* "init": one event for onModulesFetched.
Connect ==
    /\ ~connected
    /\ connected' = TRUE
    /\ \E s \in SetToSeqs(tasks) : queue' = Append(queue, Event("fetched", s, 0))
    /\ UNCHANGED <<tasks, changes, rows, sortVars, modules>>

Post(events) == queue' = IF connected THEN queue \o events ELSE queue

\* "add": one event for the table.
AddTask(n) ==
    /\ changes < MaxChanges
    /\ n \notin tasks
    /\ tasks' = tasks \cup {n}
    /\ changes' = changes + 1
    /\ Post(<<Event("added", <<n>>, 0)>>)
    /\ UNCHANGED <<connected, rows, sortVars, modules>>

\* Faulty variant: the table was connected first.
RemovalEvents_TableFirst(n) == <<Event("deleted", <<n>>, 0), Event("forgotten", <<n>>, 0)>>

\* "remove": one event for onModuleDeleted, connected first, one for the table.
RemovalEvents(n) == <<Event("forgotten", <<n>>, 0), Event("deleted", <<n>>, 0)>>

RemoveTask(n) ==
    /\ changes < MaxChanges
    /\ n \in tasks
    /\ tasks' = tasks \ {n}
    /\ changes' = changes + 1
    /\ Post(RemovalEvents(n))
    /\ UNCHANGED <<connected, rows, sortVars, modules>>

\* "progress": one event for the table, with the name still in quotes.
ReportProgress(n, val) ==
    /\ changes < MaxChanges
    /\ connected
    /\ n \in tasks
    /\ changes' = changes + 1
    /\ Post(<<Event("progress", <<n>>, val)>>)
    /\ UNCHANGED <<connected, tasks, rows, sortVars, modules>>

Service ==
    \/ Connect
    \/ \E n \in Tasks : AddTask(n) \/ RemoveTask(n)
    \/ \E n \in Tasks, val \in Percents : ReportProgress(n, val)

-----------------------------------------------------------------------------
\* The GUI thread: one event, or one click on a header.

Take(what) ==
    /\ queue # <<>>
    /\ Head(queue).what = what
    /\ queue' = Tail(queue)

Argument == Head(queue).names[1]

\* onModulesFetched: every module is saved and added, then "Module8" gets 0.8.
ModulesFetched ==
    /\ Take("fetched")
    /\ LET fetched == Head(queue).names
       IN  /\ modules' = modules \o fetched
           /\ rows' = ModifyProgress(AddModules(rows, fetched), Text["name"][Module8], 80)
    /\ UNCHANGED <<serviceVars, sortVars>>

\* onModuleAdded of the table; the slot of that name in C++ is not connected.
ModuleAdded ==
    /\ Take("added")
    /\ rows' = AddModule(rows, Argument)
    /\ UNCHANGED <<serviceVars, sortVars, modules>>

\* SyncTable::onModuleDeleted: the first module of exactly that name goes.
Forget ==
    /\ Take("forgotten")
    /\ modules' = RemoveFirst(modules, Argument)
    /\ UNCHANGED <<serviceVars, rows, sortVars>>

\* onModuleDeleted of the table.
ModuleDeleted ==
    /\ Take("deleted")
    /\ rows' = DeleteModule(rows, Argument)
    /\ UNCHANGED <<serviceVars, sortVars, modules>>

ModifyCompletion ==
    /\ Take("progress")
    /\ rows' = ModifyProgress(rows, DumpText[Argument], Head(queue).val)
    /\ UNCHANGED <<serviceVars, sortVars, modules>>

\* Another column is sorted downwards first, the same one the other way round.
ReverseSort(col) ==
    /\ column' = col
    /\ ascending' = (col = column /\ ~ascending)
    /\ rows' \in Sorted(rows, col, ascending')
    /\ UNCHANGED <<serviceVars, queue, modules>>

Gui == ModulesFetched \/ ModuleAdded \/ Forget \/ ModuleDeleted \/ ModifyCompletion

Next ==
    \/ Service
    \/ Gui
    \/ \E col \in Clickable : ReverseSort(col)

Spec == Init /\ [][Next]_vars

\* The event loop runs; nobody has to click or to change a task.
FairSpec == Spec /\ WF_vars(Gui)

-----------------------------------------------------------------------------
\* Every variable has its type.
TypeOK ==
    /\ connected \in BOOLEAN
    /\ tasks \subseteq Tasks
    /\ \A i \in DOMAIN queue :
          /\ queue[i].what \in {"fetched", "added", "forgotten", "deleted", "progress"}
          /\ queue[i].names \in Seq(Tasks)
          /\ queue[i].what # "fetched" => Len(queue[i].names) = 1
          /\ queue[i].val \in {0} \cup Percents
    /\ rows \in Seq(Row)
    /\ column \in Columns
    /\ ascending \in BOOLEAN
    /\ modules \in Seq(Tasks)
    /\ changes \in 0 .. MaxChanges

\* Sorted by a column of text, up or down, the table stays sorted that way whatever
\* is added and removed (the loops of addModule, SyncTable.qml:382-404).
RowsSorted ==
    column \in TextColumns => InOrder(rows, column, ascending)

Shown == {rows[i].name : i \in DOMAIN rows} \cap Tasks

\* No task has two rows, and none is saved twice.
OneRowPerTask ==
    /\ \A i, j \in DOMAIN rows : rows[i].name = rows[j].name => i = j
    /\ \A i, j \in DOMAIN modules : modules[i] = modules[j] => i = j

\* A module the vector holds is never one without a row: of the two receivers of
\* moduleDeleted the slot that deletes the SyncModule runs before the table's
\* (SyncTable.h:37-38).
SavedAreShown == ToSet(modules) \subseteq Shown

\* The tasks the table shows when the first i of the events were handled: those a
\* row is there for, or added by an event, and deleted by none after it.
ViewAfter(events, i) ==
    {n \in Tasks : \E j \in 0 .. i :
        /\ IF j = 0 THEN n \in Shown
                    ELSE events[j].what # "deleted" /\ n \in ToSet(events[j].names)
        /\ \A k \in j + 1 .. i : ~(events[k].what = "deleted" /\ n \in ToSet(events[k].names))}

ViewEvents ==
    Kept(queue, {i \in DOMAIN queue : queue[i].what \in {"fetched", "added", "deleted"}})

\* The sets of tasks the table is going to show.
Coming == [i \in 1 .. Len(ViewEvents) |-> ViewAfter(ViewEvents, i)]

\* SyncTable's state as TaskView's: rows that are no tasks are left out.
View == INSTANCE TaskView WITH shown <- Shown, coming <- Coming

\* What the properties below ask of an instance.
\* The rows of SyncTable.qml have different names, and none is a task of the service.
PlaceholdersApart ==
    /\ \A i, j \in DOMAIN Placeholders : Placeholders[i].name = Placeholders[j].name => i = j
    /\ \A i \in DOMAIN Placeholders : Placeholders[i].name \notin Tasks

\* The user sorts by columns of text: by progress, addModule adds no row.
TextOnly == Clickable \subseteq TextColumns

\* No two names differ in case alone: deleteModule would take both rows.
NamesApart == \A m, n \in Names : Text["name"][m] = Text["name"][n] => m = n

\* As long as it is sorted by text, and no two names differ in case alone, the
\* table goes through the sets of tasks of the service, in order, skipping none.
ImplementsView == View!Spec

\* Likewise: a task of a connected service gets its row, unless it is removed;
\* and one removed loses it, unless it is added again.
AddedIsShown ==
    \A n \in Tasks : connected /\ n \in tasks ~> n \in Shown \/ n \notin tasks

RemovedIsHidden ==
    \A n \in Tasks : n \notin tasks ~> n \notin Shown \/ n \in tasks

\* README.md:18: "gets all the sync tasks and displays them".  With no event
\* left, every task has a row.
AllTasksShown ==
    connected /\ queue = <<>> => tasks \subseteq Shown
=============================================================================
