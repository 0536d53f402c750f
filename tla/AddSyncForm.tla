---------------------------- MODULE AddSyncForm ----------------------------
(***************************************************************************)
(* The window in which a task is added or edited: AddSyncModule.qml and    *)
(* the QObject behind it, AddSyncModule.h.                                 *)
(*                                                                         *)
(* Every entry is kept twice: in its widget, and in a field of the C++     *)
(* object that a signal of the widget updates.  "Add" sends the fields     *)
(* (onDone), "Save" sends the widgets (onEditButtonClick).  The signals    *)
(* stay in the GUI thread: a slot runs within the action that emits.  The  *)
(* window is modal, so the main window's buttons and the table's menu can  *)
(* be used only while it is closed.  What is sent goes to TcpWriter.       *)
(***************************************************************************)
EXTENDS Integers, Sequences

CONSTANTS
    Names,             \* the names the user types
    Folders,           \* folders this computer may see
    Path,              \* Path[f]: the text made of the URL of f by mid(8)
    Types,             \* sync_types
    Directions,        \* sync_directions
    FirstType,         \* the type the combo box shows at first
    FirstDirection,
    DefaultType,       \* "local" and "one-way", set by the C++ constructor
    DefaultDirection,
    Rows,              \* the rows of the table, which the menu opens for editing
    NoText             \* the empty text

Entry == {"name", "source", "destination", "type", "direction"}

ASSUME FormAssumption ==
    /\ FirstType \in Types
    /\ FirstDirection \in Directions
    /\ \A f \in Folders : Path[f] = f \/ Path[f] \notin Folders
    /\ NoText \notin Names \cup Folders
    /\ \A row \in Rows : row = [e \in Entry |-> row[e]]

VARIABLES
    present,           \* the folders there are, which the dialogs offer
    visible,           \* whether the window is open
    isEditMode,        \* whether the main button says "Save", else "Add"
    oldModuleName,     \* the name the task to edit had
    shown,             \* what the widgets show
    fields,            \* the fields of the C++ object
    sent,              \* history: the commands sent by the last step, at most one
    opened,            \* history: the task it was last opened to edit, if it was
    touched,           \* history: the user changed an entry since
    edited,            \* history: the window was opened for editing once
    vanished           \* history: a folder was removed

window == <<visible, isEditMode, oldModuleName, shown, fields>>
disk == <<present, vanished>>
history == <<opened, touched, edited>>
vars == <<disk, visible, isEditMode, oldModuleName, shown, fields, sent, history>>

Empty == [e \in Entry |-> NoText]

Init ==
    /\ present \in SUBSET Folders
    /\ vanished = FALSE
    /\ visible = FALSE
    /\ isEditMode = FALSE
    /\ oldModuleName = NoText
    /\ shown = [Empty EXCEPT !.type = FirstType, !.direction = FirstDirection]
    /\ fields = [Empty EXCEPT !.type = DefaultType, !.direction = DefaultDirection]
    /\ sent = {}
    /\ opened = {}
    /\ touched = FALSE
    /\ edited = FALSE

\* The constructor of SyncModule looks for the two folders: if one is missing it sets
\* nothing, and to_json reads the numbers of a SyncInfo that were never written.
Command(kind, old, m) ==
    IF {m.source, m.destination} \subseteq present
    THEN [kind |-> kind, old |-> old, module |-> m, info |-> "now"]
    ELSE [kind |-> kind, old |-> old, module |-> Empty, info |-> "uninitialised"]

-----------------------------------------------------------------------------
\* Somebody else removes a folder, or makes one, while the window is open or not.
FolderGone ==
    /\ \E f \in present : present' = present \ {f}
    /\ vanished' = TRUE
    /\ sent' = {}
    /\ UNCHANGED <<window, history>>

FolderMade ==
    /\ \E f \in Folders \ present : present' = present \cup {f}
    /\ sent' = {}
    /\ UNCHANGED <<vanished, window, history>>

-----------------------------------------------------------------------------
\* Faulty variant: the mode is left as it was.
OpenSignal_KeepsMode ==
    /\ ~visible
    /\ visible' = TRUE
    /\ sent' = {}
    /\ opened' = {}
    /\ touched' = FALSE
    /\ UNCHANGED <<disk, isEditMode, oldModuleName, shown, fields, edited>>

\* "+" in the main window: onOpenSignal in C++, then the one of the window.
OpenSignal ==
    /\ ~visible
    /\ visible' = TRUE
    /\ isEditMode' = FALSE
    /\ sent' = {}
    /\ opened' = {}
    /\ touched' = FALSE
    /\ UNCHANGED <<disk, oldModuleName, shown, fields, edited>>

\* Faulty variants: the index found in a list is used without a test; the first
\* entry of a list counts as not found (index > 0).
Filled_Untested(row) == row

Filled_FirstNotFound(row) ==
    [row EXCEPT !.type = IF @ \in Types \ {FirstType} THEN @ ELSE shown.type,
                !.direction = IF @ \in Directions \ {FirstDirection} THEN @ ELSE shown.direction]

\* A combo box keeps what it showed when its list has no such text.
Filled(row) ==
    [row EXCEPT !.type = IF @ \in Types THEN @ ELSE shown.type,
                !.direction = IF @ \in Directions THEN @ ELSE shown.direction]

\* Faulty variant: setting the name does not emit textChanged.
OpenEditWindow_QuietName(row) ==
    /\ ~visible
    /\ visible' = TRUE
    /\ isEditMode' = TRUE
    /\ oldModuleName' = row.name
    /\ shown' = Filled(row)
    /\ sent' = {}
    /\ opened' = {row}
    /\ touched' = FALSE
    /\ edited' = TRUE
    /\ UNCHANGED <<disk, fields>>

\* onOpenEditWindow: of what is set only the name tells the C++ object.
OpenEditWindow(row) ==
    /\ ~visible
    /\ visible' = TRUE
    /\ isEditMode' = TRUE
    /\ oldModuleName' = row.name
    /\ shown' = Filled(row)
    /\ fields' = [fields EXCEPT !.name = row.name]
    /\ sent' = {}
    /\ opened' = {row}
    /\ touched' = FALSE
    /\ edited' = TRUE
    /\ UNCHANGED disk

\* The user changes one entry; the slot copies it to its field.
Change(entry, value) ==
    /\ visible
    /\ shown' = [shown EXCEPT ![entry] = value]
    /\ fields' = [fields EXCEPT ![entry] = value]
    /\ sent' = {}
    /\ touched' = TRUE
    /\ UNCHANGED <<disk, visible, isEditMode, oldModuleName, opened, edited>>

NameModified == \E n \in Names \cup {NoText} : Change("name", n)

\* Faulty variants: the box shows the new folder, the field keeps the old one; the
\* box is not read-only, and any text can be typed into it.
SourceFolderAccepted_BoxOnly ==
    /\ visible
    /\ \E f \in present : shown' = [shown EXCEPT !.source = Path[f]]
    /\ sent' = {}
    /\ touched' = TRUE
    /\ UNCHANGED <<disk, visible, isEditMode, oldModuleName, fields, opened, edited>>

SourceFolderAccepted_Typed == \E f \in Folders : Change("source", f)

\* The path of a folder on a drive comes out whole, that of a network share does not.
SourceFolderAccepted == \E f \in present : Change("source", Path[f])
DestinationFolderAccepted == \E f \in present : Change("destination", Path[f])
TypeSelected == \E t \in Types : Change("type", t)
DirectionSelected == \E d \in Directions : Change("direction", d)

\* onDone: the window stays as it is.
AddButton ==
    /\ visible
    /\ ~isEditMode
    /\ sent' = {Command("add", NoText, fields)}
    /\ UNCHANGED <<disk, window, history>>

\* onEditButtonClick and onEditModule: isEditMode stays.
EditButton ==
    /\ visible
    /\ isEditMode
    /\ sent' = {Command("edit", oldModuleName, shown)}
    /\ oldModuleName' = NoText
    /\ visible' = FALSE
    /\ UNCHANGED <<disk, isEditMode, shown, fields, history>>

\* onCancel, and the window's close button: nothing is put back.
Cancel ==
    /\ visible
    /\ visible' = FALSE
    /\ sent' = {}
    /\ UNCHANGED <<disk, isEditMode, oldModuleName, shown, fields, history>>

Next ==
    \/ FolderGone
    \/ FolderMade
    \/ OpenSignal
    \/ \E row \in Rows : OpenEditWindow(row)
    \/ NameModified
    \/ SourceFolderAccepted
    \/ DestinationFolderAccepted
    \/ TypeSelected
    \/ DirectionSelected
    \/ AddButton
    \/ EditButton
    \/ Cancel

Spec == Init /\ [][Next]_vars

-----------------------------------------------------------------------------
\* What a widget or a field may hold.
Holds(record, entry, values) == record[entry] \in values \cup {row[entry] : row \in Rows}

\* What a dialog leaves in its box.
Texts == {Path[f] : f \in Folders} \cup {NoText}

\* Every variable has its type.
TypeOK ==
    /\ present \subseteq Folders
    /\ vanished \in BOOLEAN
    /\ visible \in BOOLEAN
    /\ isEditMode \in BOOLEAN
    /\ oldModuleName \in {NoText} \cup {row.name : row \in Rows}
    /\ \A record \in {shown, fields} :
          /\ DOMAIN record = Entry
          /\ Holds(record, "name", Names \cup {NoText})
          /\ Holds(record, "source", Texts)
          /\ Holds(record, "destination", Texts)
    /\ shown.type \in Types /\ fields.type \in Types \cup {DefaultType}
    /\ shown.direction \in Directions /\ fields.direction \in Directions \cup {DefaultDirection}
    /\ \A c \in sent : 
          /\ c.kind \in {"add", "edit"}
          /\ DOMAIN c.module = Entry
          /\ c.info \in {"now", "uninitialised"}
    /\ opened \subseteq Rows
    /\ touched \in BOOLEAN
    /\ edited \in BOOLEAN

\* The name that "Add" sends is the one in the box (AddSyncModule.h:108-114).
NameInSync == fields.name = shown.name

\* Until the window is opened for editing, the fields are what the widgets show,
\* but for a combo box never used, whose field holds the constructor's text
\* (AddSyncModule.h:36, and the signals of AddSyncModule.qml:119-122 that come
\* before there is a C++ object to hear them).
InSyncUntilEdit ==
    ~edited =>
        /\ fields.source = shown.source
        /\ fields.destination = shown.destination
        /\ fields.type \in {shown.type, DefaultType}
        /\ fields.direction \in {shown.direction, DefaultDirection}

\* The button does what the window was opened for: "+" never ends in an edit
\* command, and an edit names the task whose menu was used, through any number of
\* windows cancelled or saved before (isEditMode and oldModuleName outlive them).
ButtonAsOpened ==
    \A c \in sent :
        /\ c.kind = "add" => opened = {}
        /\ c.kind = "edit" => \E row \in opened : c.old = row.name

\* A task whose texts are in the lists and whose folders exist here is sent back
\* as it is by "Save" if no entry was changed.
UntouchedSaveKeeps ==
    \A c \in sent, row \in opened :
        /\ c.kind = "edit" /\ ~touched
        /\ row.type \in Types /\ row.direction \in Directions
        /\ {row.source, row.destination} \subseteq present
        => c.module = row

\* Until the window is opened for editing, "Add" with two folders of a drive chosen
\* sends the name and folders shown, the type and direction but for a combo box never
\* used, and a date, unless somebody removed a folder: the dialogs offer folders that
\* exist, the boxes cannot be typed into, and SyncModule looks for the folders again
\* at the click (AddSyncModule.h:115-147, sync_module.cpp:16-34).
ChosenIsSent ==
    \A c \in sent :
        /\ c.kind = "add" /\ ~edited /\ ~vanished
        /\ {shown.source, shown.destination} \subseteq Folders
        => /\ \A e \in {"name", "source", "destination"} : c.module[e] = shown[e]
           /\ c.module.type \in {shown.type, DefaultType}
           /\ c.module.direction \in {shown.direction, DefaultDirection}
           /\ c.info = "now"

\* README.md:20: "Add sync tasks and remove them from the service".  With two
\* folders shown, "Add" sends the task whose folders are shown.
AddSendsShown ==
    \A c \in sent :
        c.kind = "add" /\ {shown.source, shown.destination} \subseteq present =>
            c.module.source = shown.source /\ c.module.destination = shown.destination
=============================================================================
