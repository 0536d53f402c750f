# Verification of the Sync Service UI

This directory holds TLA+ models of the desktop UI of ProjectSync (`src/`), the
TLC runs that check them on small instances, and theorems about them that TLAPS
proves for every instance. The UI is a Qt Quick program for Windows; it talks to
a background service, in another repository, over one TCP connection.

Paths without a directory are under `src/src/`; `asio/` is
`src/src/dependencies/asio/asio/`.

## 1. The system

### Components

| component | source | state it keeps | operations |
|---|---|---|---|
| `TcpClient`, inbound | `tcp_client.cpp:40-123` | `msg` of each reader thread, the stream in the kernel | `start_reading`, `command_handler` |
| connecting | `QObjects/MainWindow.h:60-79`, `tcp_client.cpp:28-39`, `asio/impl/connect.hpp` | the one `socket_`, `started`, the "Connect To Service" button, detached threads | `onConnectToService`, `start_connection`, `onServiceConnected` |
| `TcpClient`, outbound | `tcp_client.cpp:124-177` | the one `message_`, overlapped sends, the queue of the `io_context` | `notify_add`, `notify_removal`, `notify_edit`, `request_sync`, `notify_success` |
| `SyncTable` | `QObjects/SyncTable.h`, `qml/components/SyncTable/SyncTable.qml` | the rows, the sorted column and its direction, the vector of `SyncModule` | `onModulesFetched`, `addModule`, `deleteModule`, `modify_progress`, `reverseSort`, the menu |
| `AddSyncModule` | `QObjects/AddSyncModule.h`, `qml/screens/AddSyncModule.qml` | widgets, the C++ fields behind them, the mode, the old name | open, open for editing, the entries' slots, Add, Save, Cancel |
| `SyncModule`, `SyncInfo` | `sync_module.cpp`, `sync_info.cpp` | one task | constructors, `to_json`, `from_json` |
| `ErrorModal` | `QObjects/ErrorModal.h`, `qml/screens/MainWindow.qml:34-72` | whether the window is open, its text | `onErrorThrown`, its two buttons |
| `helper.h` | `helper.h` | none | `getQmlClasstype` |
| start-up, shutdown | `main.cpp`, `tcp_client.cpp:5-20` | pointers to the objects, the static `instance` | `startup_routine`, `main`, the destruction of statics at exit |
| presentation | the other QML files | hover colours | none that matter |
| asio, nlohmann::json | `dependencies/` | | |

### How they interact

Three kinds of thread run. The GUI thread runs Qt's event loop. Every call of
`onConnectToService` detaches a *connector* thread, and every
`onServiceConnected` a *reader* thread; none is ever joined. They share
`TcpClient`, with no lock.

- `start_connection` succeeds and the connector emits `serviceConnected`. Its
  receivers live in the GUI thread, so each connection posts an event: the QML
  function hides the button and shows the table, the C++ slot detaches the reader.
- The reader cuts the byte stream into commands (`CR LF` ends each), parses one
  and calls `command_handler`, which emits signals of `SyncTable` and
  `ErrorModal`. Again each connection posts an event to the GUI thread; a
  removal posts two.
- The table's menu and the form call `notify_*` in the GUI thread. Each assigns
  `message_`, starts `async_write` on it, and returns. Nobody runs the
  `io_context`.
- Slots of the form are called by signals of the same thread, so they run at once.

### What is hard here

1. *Interleaving on `socket_`.* A click while an earlier connect still blocks
   lets two threads close, open and connect one socket, while a third may read it.
2. *Cutting the stream.* TCP delivers any pieces; a piece may hold half a
   delimiter or two commands.
3. *Posted events.* What the service said is handled later, between clicks.
4. *Overlapped sends.* `message_` is reassigned while a send may read it.
5. *Two copies of everything:* rows and the vector of modules, widgets and fields.
6. *Exceptions in detached threads*, which end the process.
7. *The service stops and starts*, at any step.
8. *Exit.* `main` returns while detached threads run; exit destroys the static
   `instance` under them, unless a handler of a send still refers to it.
9. *A user ahead of his answers, a service that speaks unasked.* Requests, answers and
   reports of progress cross; rows and error texts may be those of a moment ago.
10. *Folders that come and go* between their choice and the click that sends them.

### What correctness means, per component

- Reader: what is handled is what was written, in order, once; nothing but a reset or a
  malformed command ends the process; every command is handled sooner or later.
- Connecting: one reader, on the socket that is connected; a connection gets its
  table, its reader and its `init`; the button works while it is there.
- Writer: commands are sent in order, once, whole.
- Table: it shows the tasks of the service, sorted as asked, with their progress
  (which the code does not do, section 4).
- Form: the command sent is the task shown, and the button does what the window
  was opened for.
- Process: it ends when `main` returns; no thread uses a client that is destroyed.
- All together: each request is done or refused, and the user sees which; for a user who
  waits for his answers nothing he sees is stale when he may click again.

## 2. The modules

| module | models | extends or refines |
|---|---|---|
| `CommandChannel` | what the stream promises: a FIFO of whole commands | |
| `TcpReader` | one reader thread, byte by byte | implements `CommandChannel` |
| `Connection` | all threads on `socket_`, and the events that show the table and start the reader | |
| `TaskView` | what the table promises: the service's sets of tasks, in order | |
| `SyncTable` | `command_handler`'s signals, the event queue, the table | implements `TaskView` |
| `TcpWriter` | `message_` and the sends that read it | |
| `ClientLifetime` | `main`, the static client and its references, exit under detached threads | extends `TcpWriter`; its specification implies `TcpWriter`'s |
| `RoundTrip` | a request from the click to what is seen of it: menu, sends, service, reader, table, error window | extends `ClientLifetime`; its specification implies `ClientLifetime`'s |
| `AddSyncForm` | the form and the fields behind it, the folders on the disk | |
| `MC...` | the values TLC uses | extend the module they are named after |
| `..._proofs` | theorems and their proofs | extend the module they are named after |

They compose by what one promises and the next assumes. `Connection` says when
there is a reader and that no other one takes its bytes; `TcpReader` follows that
one reader and shows that its commands are those the service wrote; `SyncTable`
starts from these commands. The form and the table's menu end in a command that
`TcpWriter` carries. `RoundTrip` puts the parts together in one state machine: the
steps of `TcpWriter` and `ClientLifetime` as they are, the reader and the table at the
size of a command (a whole command instead of its bytes, a set of names instead of
sorted rows), and a service that answers.

### TcpReader

| code | model |
|---|---|
| `read_some` returns `len` bytes, `msg.append`, `find`, `erase`, `parse`, `command_handler` (`tcp_client.cpp:46-71`) | `ReadSome(len)`, for every `len` from 1 to the size of `buf` |
| end of file: `break` (`:51-55`) | `ReadEof` |
| any other error: `throw` (`:56-57`) | `ReadError`: `std::terminate` |
| `parse` throws (`:69`) | `~Parses` in `ReadSome` |
| `command_handler` throws (`:76`, `:82`, `:92-96`, `:101`, `:105`, `:119`) | `~Digests` in `ReadSome` |

`wire` is every byte the service wrote, and `received` how many of them `read_some`
has returned: where TCP cuts is the choice of `len`. `handled` is the history of
the texts `command_handler` was called with. A JSON text is a sequence of bytes without
the delimiter; `Parses` accepts the texts the service writes, also with a `CR` or `LF`
more at either end, which the parser skips, and no part of one. `Malformed` are the
commands that lack a field or have one of the wrong type: they are JSON, and
`command_handler` throws on them out of the same thread. What it does with the others is
in `SyncTable`.

### Connection

| code | model |
|---|---|
| click, or `startup_routine` (`MainWindow.h:69-79`) | `Click`, or the call that is in hand at `Init` |
| `asio::connect`: `s.close`, `open`, `connect` | `CloseSocket`, `OpenSocket`, `BeginConnect`, `ConnectOk`, `ConnectFails` |
| `started = true`, `emit serviceConnected` | `SetStarted`, `Emit` |
| `onServiceConnected` in QML and in C++ | `ShowTable`, `StartReader` |
| the steps of `start_reading` | `BeginRead`, `ReadInit1`, `ReadInit2`, `ReadEof`, `ReadError`, `RecvFails` |

A call is one invocation of `onConnectToService`. A handle is what the system calls
`open`, and is named after the call that opened it: `socket` is the one inside
`socket_`, and `target[c]` or `source[c]` the one a thread took from it before it
blocked. That is how a thread comes to work on a handle another one has closed. The
service greets a connection with `init`, longer than `buf`, in two fragments; `msg`
holds a reader's fragments, so that two readers of one handle can tear it apart.
The `init` is well-formed. `started` is uninitialised (`tcp_client.h:40`), hence either
value at first.
The history `overlapped` says whether a call was made while another was in hand.

### SyncTable

`Connect`, `AddTask`, `RemoveTask` and `ReportProgress` are the branches of
`command_handler` and append what they emit to `queue`; `ModulesFetched`,
`ModuleAdded`, `Forget`, `ModuleDeleted` and `ModifyCompletion` are the receivers, one
event each; `ReverseSort` is a click on a header. A name is a model value and a
text its rank, which is all the code looks at. `Sorted` is a set, since nothing
promises that `Array.sort` keeps equal rows in their order. The rows the QML file
is written with are there from the start.

### TcpWriter and ClientLifetime

`Posted` is the send that `WSASend` queues: assigning `message_` frees the text of
those before it (`Dangling`), and `Transmit` may then send what it should or anything
else, the value `Garbled`.

`ClientLifetime` guards each of these steps by the life of the process and adds:

| code | model |
|---|---|
| `startup_routine` (`main.cpp:33-38`), `get_instance` | `StartUp` |
| the connector succeeds; `onServiceConnected` | `ClientConnects`; `StartReader` |
| `app.exec()` and `main` return (`main.cpp:51`) | `Quit` |
| the static `instance` is destroyed (`tcp_client.cpp:5`) | `DestroyInstance` |
| the reader's end of file; any other error of `read_some` | `ReaderReturns`; `ReaderThrows` |
| the process ends, its threads wherever they are | `ExitProcess` |

`instance` is one reference to the client. The others are the handlers of sends, each
bound to `shared_from_this()` (`:143`, `:151`, `:159`, `:175`) and kept in the
`io_context`, which nobody runs and which is a member of the client itself: `Handlers`
counts them. So a client that was ever asked to send is never destroyed, and the reader
is safe from it; one that was not is destroyed at exit with its `socket_` under the
reader, whose exception ends the process in `std::terminate` if it is quicker than the
end of the process.

### RoundTrip

| code | model |
|---|---|
| `handleDelete`, `handleEdit`, `handleSync`, the form's Add | `Ask(kind, n)`: the menu speaks of the name in its row |
| `read_some` and one turn of the loop | `ReadSome(k)`: one read brings the rest of `k` commands, which may be none, and the first in `msg` is handled |
| `command_handler` | `Posts(c)`: the event each command posts |
| `addModule`, `deleteModule`, `modify_progress` | `TableEvent`; `Without` drops every row that has the name but for its case |
| `ErrorModal::onErrorThrown`, the window's buttons | `ErrorThrown`, `Accept`; the window is modal, so `Ask` waits |
| the service (external) | `Greet`, `AddTask`, `RemoveTask`, `Refuse`, `Ignore`, `ReportProgress`, `Leave` |

`tasks` are the service's, `shown` the names in the rows, those of the six rows in
`SyncTable.qml:149-156` (`Placeholders`) from the start. The service is in another
repository: here it does what a request asks and says so, or refuses any request with
`-1`, or takes it in silence, as it does an `edit`, whose answer no branch of
`command_handler` knows. A text that a later command freed (`Garbled`) may be read as any
command. Whenever it likes, asked or not, the service reports the progress of a task
(`ReportProgress`).

What a read brings beyond one command stays in `backlog` until a later read, which may
never come: two answers in one read leave the UI one answer behind, and every read that
completes no command makes up for one. Two histories tell who is safe from what.
`crossed` says that a request or a report came while anything else was on its way
(`~Quiet`); without it a read brings one command. `hasty` says that the user asked while
anything but reports of progress was on its way (`~Settled`): reports change no row and
no error, so they may cross the requests of a user who waits for his answers, and what
he sees when he clicks is still what the service has - but for the rows of the QML file,
which his menu speaks of too.

### AddSyncForm

`shown` are the widgets and `fields` the C++ members; `Change` is the slot behind each
widget, and the actions say which of the two each button sends. `present` are the
folders there are: `FolderGone` and `FolderMade` are somebody else's steps, the dialogs
offer those present, and `Command` is the constructor of `SyncModule`, which looks for
the two folders again and, if one is missing, leaves an empty task whose `SyncInfo`
was never written. `Path[f]` is what `mid(8)` makes of the URL of `f`: right for a
folder of a drive, not for that of a network share.

## 3. The runs

Each run is one question. TLC checks all states of these instances.

| run | instance | shows |
|---|---|---|
| `reader_stream` | 4 commands of 3, 4 or 6 bytes, one of 6 malformed, `buf` of 6 | order, integrity, no throw but on a reset or on that command, refinement of `CommandChannel`; a stream of commands that fill `buf` is handled to its end |
| `reader_lost` | 2 short commands, `buf` of 8 | *violated*: of two commands in one read the second waits for a read that may never come |
| `connection_served` | start-up and 1 click | until calls overlap each reader has its own socket and `init`, and nothing but a reset ends the process; a connection gets its table, reader and `init`; the button works |
| `connection_shared` | the same | *violated*: two threads inside one socket object |
| `connection_outage` | the same | *violated*: after the service was gone nothing connects again |
| `table_view` | 2 tasks, 2 placeholders, 2 columns of text, 3 changes | order of rows, refinement of `TaskView`, adds and removals reach the screen |
| `table_lost` | the same, 2 changes, also the column of progress | *violated*: sorted by progress no task is added |
| `round_trip` | 2 requests, 2 names that differ in case alone, one of them a row of the QML file, any first set of tasks, quitting at any step | order and number of the sends, whole as long as nobody hurries; the client outlives its commands, an exception at exit is explained, quitting ends the process; a user who waits for his answers asks of no task that is gone and reads each error; at rest the table and the error window say what the service did |
| `round_reports` | 1 request, 2 reports of progress | as long as nothing crosses no command is left behind and everything comes to rest |
| `writer_garbled` | 3 commands, 2 names | *violated*: a second command may destroy the first |
| `form_sync` | 1 name, 2 folders of a drive and a share, 2 types, 2 directions, 2 tasks | what of the two copies agrees, which command a button sends, that it says what was chosen while folders come and go |
| `form_add` | the same | *violated*: after an edit, Add sends other folders than it shows |

### The bounds

- *Reader.* A `buf` of 6 holds two commands of 3 bytes and is filled by one of 6,
  and each may be cut at every byte; one body ends in `CR`, one is malformed. Four
  commands let a backlog form, be read past, and grow. The theorems of section 5 need
  no bound.
- *Connection.* Two calls give every pair of steps of two connectors, of a connector and
  a reader, or of two readers. The theorems hold for any number.
- *Table.* Three changes reach add-remove-add of a task and a removal behind an add;
  two rows of one type give ties. Clicks are not bounded. The theorems
  hold for any number of changes and tasks.
- *Writer.* Three sends: one at the head, one that dangles, one that is whole.
- *Round trip.* Two requests are the fewest that cross: of the same row, of a row and
  of the one it hides, of one whose answer is still in `msg`, of a second refusal while
  the window shows the first, of a send that frees the text of another. With the `init`
  three answers can be in one read. The two names are the pair that one row lookup
  confuses, and one of them is in a row from the start. Reports of progress matter where
  they cross something: two reports, a request and the `init` give every pair
  (`round_reports`); they change neither rows nor errors, so `round_trip` does without. A
  third request or name takes hours and brings no new pair; the theorems of section 5
  hold for any number of requests, names and reports.
- *Form.* Any number of windows, one after the other; the tasks to edit are one whose
  texts are in the lists and one whose are not.

Where a run says `CHECK_DEADLOCK FALSE` the system may really stop: a reader has
returned and the service is gone, the process was terminated, or the bound on
commands is used up.

### Fairness

- Each connector and each reader thread is scheduled (`WF` per thread), and the event
  loop runs (`WF_vars(Gui)`). A connect ends: the system answers or times out.
- `WF_vars(StartReading)`, `WF_vars(Gui)` in the table: the same, in one thread.
- `RoundFairSpec`: the reader is started (`Begin`), reads (`StartReading`), the event
  loop runs (`Gui`), a process whose `main` has returned goes on to its end (`Exit`). A
  service that is there reads what it is sent (`Arrive`) and deals with it (`Serve`):
  these two are assumptions about the service.
- Nothing makes a user click or a service start, stop, add or remove. The one
  property about a user, `ButtonConnects`, has his fairness as its hypothesis.

## 4. What the code does and its documents do not say

Found while modelling, each with a run (see `findings` in `PROJECT.json`):

- One read completes at most one command (`tcp_client.cpp:63` is an `if`).
- `socket_` is closed, opened and connected by several threads.
- After an end of file the reader returns, the button stays hidden, and the UI
  never connects again.
- `addModule` calls `toLowerCase()` on the progress, a number, and throws.
- `message_` is reassigned while a send reads it.
- Opening the form for editing fills the boxes, not the fields that Add sends.

Seen in the models, without a run of their own:

- The name of a `progress` command is looked up with its quotation marks (`tcp_client.cpp:105`),
  so no bar ever moves.
- Two readers on one socket tear `init` apart, and the parser's exception ends the UI: that
  is what `InitNotLost` and `TerminationExplained` of `Connection` except (`overlapped`).
- A task added after `init` is never put into the vector of modules, though
  `tcp_client.cpp:90` says that it will be: the slot `onModuleAdded` of `SyncTable` is
  not connected (`SyncTable.h:31-41`). `SavedAreShown` is the direction that holds.
- The six rows `Module7` to `Module12` are no tasks and stay. `RestShowsTasks` and
  `PacedAsksOfTasks` name them, as `WrittenRows` and `Placeholders`.
- A folder that is gone, or one of a network share, whose path loses its first letters,
  makes Add send an empty task with numbers that were never written: what `ChosenIsSent`
  excepts.
- A user who asks twice without waiting may get two answers in one read, a user who waits
  his answer together with a report of progress. Then the second is handled with a later
  read only (`PacedKeepsUp` says what is safe from it).
- A command without one of its fields ends the UI (`TerminationExplained` of `TcpReader`).
- A UI that is closed before it ever sent a command may end in `std::terminate`
  (`AbortExplained`).
- A second error replaces the text of the first in the window that is open
  (`RestToldErrors` counts both as told; `PacedReadsErrors` says who reads both).
- A combo box whose list lacks the text of the task edited, as it lacks those of the rows
  of `SyncTable.qml`, keeps another task's text, and Save sends that.
- Removing a task removes the rows of all tasks whose names differ in case alone
  (`SyncTable.qml:291`).

## 5. What is proved

`TcpReader_proofs`, for every alphabet, every set of bodies without a delimiter,
every size of `buf` and every number of commands (`StreamAssumption`):

- `TypeCorrect`, `HandledInOrder`, `ThrowsAreExplained`, `NoBacklog`, and
  `Refinement`: the reader implements `CommandChannel`.

  "Handled is a prefix of written" is not inductive: it says nothing of the bytes in
  between. The invariant adds that `wire` is the commands with their delimiters,
  each where `ends` says (`WireInv`), and that `msg` is the part of `wire` between
  the end of the last command handled and the last byte received (`MsgInv`). Then
  the first delimiter in `msg` is that of the next command, for no earlier one can
  be there: a body holds none, and a body that ends in `CR` cannot form one with the
  delimiter's `CR`. For `NoBacklog` one adds that `msg` is shorter than the next
  command.

`Connection_proofs`, for every set of calls (`CallsAssumption`):

- `TypeCorrect`, `TerminationIsExplained`, `OneReader`, `NoInitLost`.

  The invariants say nothing of a call that has no reader yet. The strengthening
  follows a call nobody overlaps from its click on: it alone is in hand (`OneCall`),
  so `socket_` is what it left there (`CallOwnsSocket`), events and readers exist only
  for calls that succeeded (`EmittedFirst`), and its reader's `msg` is what was taken
  from its handle (`ReaderOwnsStream`).

`TcpWriter_proofs`, for every set of names and number of commands:

- `TypeCorrect`, `SentInOrder`, `PacedIsIntact`, `OneResult`.

  What was accepted is on the wire or pending: the commands pending are those
  accepted after the ones on the wire (`PendingIsRest`). Without haste one send at
  most is pending, and `message_` still holds its text (`OneAtATime`).

`ClientLifetime_proofs`, for every set of names and number of commands:

- `LifeImplementsSends`: a behaviour of `ClientLifetime` is one of `TcpWriter`, so the
  theorems above hold of it.
- `ClientOutlives`, `AbortsAreExplained`. The first needs `OneResultEach`: every command
  asked for is a pending send or a result, hence a handler, so a client without handlers
  was never asked for anything.

`RoundTrip_proofs`, for every set of names, every folding of their case, every set of rows
in the QML file and every number of commands and reports (`RoundAssumption`):

- `RoundImplementsLife`: a behaviour of `RoundTrip` is one of `ClientLifetime`.
- `RoundTypeCorrect`, `PacedReaderKeepsUp`.

  The last is not inductive. As long as nothing crosses one thing at most is in flight -
  a send, a command the service has yet to take, an answer, a report, an event
  (`OneInFlight`) - so that a read brings one command and leaves none in `msg`.
- `ErrorsAreOnTheWay`, `ErrorsAreTold`, `ViewIsOnTheWay`, `ViewIsOfTasks`: what any user,
  however hasty, has seen and will see. The last of each pair is about the system at rest.

  What is on its way to the user is one sequence, whatever queue each part is in: the
  events posted, then the commands in `msg`, then those the reader has not read, each by
  what it does to the rows (`Line`). The service makes it longer (`LineSent`), a read
  changes nothing of it (`LineRead`: a command and the event posted for it mean the same),
  and the event loop takes the first of it (`LineTaken`). `TellInv` says where on it the
  refusals are that the window has not shown: there is an increasing map from them onto
  the parts of the line that tell something. `SeenInv` says of each name that the last
  part of the line that puts its row there or takes it decides: if the service has no such
  task it takes it, and if it has, it puts it there, unless a removal of a name that
  differs in case alone took it. With nothing but reports on the line these are
  `RestToldErrors` and `RestShowsTasks`: a row that is no task and that no part of the line
  takes is one of the QML file that no removal took (`WrittenRows`).
- `PacedUserAsksOfTasks`, `PacedUserReadsErrors`, of a user who waits for his answers,
  however many reports cross his requests.

  He asks when the line is settled, so that what `SeenInv` says of his rows is all there is
  to it; until the service has taken his request it is the only one, and nothing else
  changes its tasks. `OneMatter` says why: there is at most one of a request not taken, a
  refusal not shown, and an open error window. So the window is closed before the next
  refusal comes.

`AddSyncForm_proofs`, for every set of names, folders and tasks:

- `TypesOK`, `NameAgrees`, `CopiesAgree`, `ButtonDoesAsOpened`, `SaveKeeps`,
  `AddSendsChosen`.

  The last three speak of the command just sent. The invariant says of an open window
  that its mode and `oldModuleName` are those of its opening (`ModeAsOpened`), that the
  widgets show the task as it was filled in until one is touched, and that a folder of a
  drive that is shown is still present unless one vanished.

`TaskView_proofs`, for every set of tasks:

- `ViewCatchesUp`: whatever implements `TaskView` shows what the service has as
  soon as nothing is on its way. The invariant follows the youngest set on its way.

`SyncTable_proofs`, for every set of names, any finite set of tasks, every text and
column, and any number of changes (`TableAssumption`, `DumpAssumption`):

- `TypeCorrect`, `OrderKept`, with no other hypothesis.
- `NoSecondRow`, if the rows written in `SyncTable.qml` have different names and none is
  a task of the service (`PlaceholdersApart`; a user who names a task `Module7` does get
  a second row of that name).
- `NoneWithoutRow`, `TableFollows`, `NoTaskMissing`, if also the user sorts by columns of
  text alone (`TextOnly`) and no two names differ in case alone (`NamesApart`). Without
  the second `table_lost` is a counterexample, without the third `round_trip` shows what
  is lost. `TableFollows` is the refinement of `TaskView`, and `NoTaskMissing` what
  `README.md:18` of the repository promises: with no event left the table shows the tasks,
  all and no others.

  The three hypotheses are defined in `SyncTable`; TLC evaluates `PlaceholdersApart` and
  `NamesApart` for the instance of the runs, and `table_view` is an instance of all three.

  The invariants are `SortedInv` (types, and the rows in order), `OnceInv`, `SavedInv` and
  `ShowsInv`. "One row per task" says nothing of the events that are queued, and two of
  them may add the same task: `OnceInv` adds that one between them deletes it
  (`AddedOnce`), that after an event that adds a task that is gone comes one that deletes
  it (`Leaves`), and that the tasks fetched come first (`FetchedFirst`). `SavedInv` adds
  that the event that takes a task out of the vector comes right before the one that
  takes its row. For the refinement, `ShowsInv` says that the set the table will come to
  is the service's; a step of the table takes the first set of `Coming` and leaves the
  others as they are, and a step of the service appends one.

  `AddModules` and `DeleteModule` recur over a sequence. The induction theorems cannot be
  used, but a non-empty set of numbers has a least element (`Least`, from the
  well-foundedness of strict inclusion), so that a fact about every place of a sequence
  is proved at the first one where it would fail (`EveryPlace`).

What TLC only checks: the properties the runs above refute, and the liveness properties
(out of the prover's reach): `AddedIsShown`, `RemovedIsHidden`, `LongCommandsHandled`, `ConnectedIsServed`, `InitDelivered`,
`ButtonConnects`, `AcceptedIsSent`, `QuitEnds`, `PacedComesToRest`. Every invariant, every
action property and every refinement a passing run checks is a theorem as well.

## 6. What is abstracted, and what is left out

- A closed handle's number is not used again: the system may reuse it at once, and a
  thread that still holds it would then touch another connection.
- `asio::connect` is given one endpoint. Once the UI's process is gone the service is
  not followed any further.
- `SyncTable`, `TcpWriter`, `ClientLifetime` and `RoundTrip` follow one connection, the
  first; `Connection` has several. A command to the service fits in one transfer of
  65536 bytes.
- In `RoundTrip` the table is not sorted by progress (`SyncTable` says what is lost
  then), and an `edit` keeps the name. Of the service, which is in another repository, it
  assumes that its commands are well-formed, that `-1` only refuses a request, that unasked
  it says nothing but `progress`, and that it has no other client: its tasks change by the
  user's requests alone. `SyncTable` lets them change at any time.
- The status of a task (`modify_status`) is set by the constructor of the table alone,
  and the menu's Pause and Resume call functions that do not exist.

Not modelled:

- `helper.h`: a pure function of the class names Qt generates, called while the objects
  are built.
- Of `SyncModule` and `SyncInfo` the constructors with a frequency, the copy
  constructor, the setters and `operator==`, which nothing calls, and the time stamp of
  `SyncInfo` (its cast to `int` overflows in 2038).
- Layout and colours of the QML files.
- The vendored libraries but for the functions whose steps matter (`connect`, `close`,
  `recv`, `WSASend`), which the models include. They are most of the lines under `src/`
  (`asio` and `json.hpp` alone some 190,000), so that the share of all lines that the
  models cover is small; of the program's own C++ and QML that keeps state or takes a
  step, none is left out.

## 7. The plan

Done: the modules of section 2, in the order of that table, and the proofs of
section 5. What could follow:

1. What `SyncTable` shows when names do meet in case: a view in which a removal takes all
   of them, implemented without `NamesApart`, as `ViewIsOfTasks` has it for `RoundTrip`.
2. That the table of `RoundTrip` is the one of `SyncTable` with its rows taken as a set
   of names, as a refinement.
3. Once the UI reconnects: `ReconnectsToService` as a property that holds, and
   `RoundTrip` with more than one connection.
