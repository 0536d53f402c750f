------------------------- MODULE AddSyncForm_proofs -------------------------
(***************************************************************************)
(* Proofs about AddSyncForm, for every set of names, folders and tasks.    *)
(*                                                                         *)
(* ButtonAsOpened, UntouchedSaveKeeps and ChosenIsSent speak of a command  *)
(* just sent.  The invariant says the same of the window that may send one *)
(* next: while it is open its mode is that of its opening, and             *)
(* oldModuleName the task it was opened for (ModeAsOpened); as long as     *)
(* nothing was changed the widgets show that task (ShownAsOpened); and a   *)
(* field holds a folder that is there, unless one was removed              *)
(* (FieldsPresent).                                                        *)
(***************************************************************************)
EXTENDS AddSyncForm, TLAPS

ModeAsOpened ==
    visible =>
        /\ isEditMode => \E row \in opened : oldModuleName = row.name
        /\ ~isEditMode => opened = {}

ShownAsOpened ==
    visible /\ isEditMode /\ ~touched =>
        \A row \in opened : row.type \in Types /\ row.direction \in Directions => shown = row

FieldsPresent ==
    ~vanished => \A e \in {"source", "destination"} : fields[e] \in Folders => fields[e] \in present

AreEntries ==
    /\ shown = [e \in Entry |-> shown[e]]
    /\ fields = [e \in Entry |-> fields[e]]

Inv ==
    /\ TypeOK
    /\ AreEntries
    /\ NameInSync
    /\ InSyncUntilEdit
    /\ ModeAsOpened
    /\ ShownAsOpened
    /\ FieldsPresent
    /\ ButtonAsOpened
    /\ UntouchedSaveKeeps
    /\ ChosenIsSent

\* What the form promises of a command.
SentOK == ButtonAsOpened /\ UntouchedSaveKeeps /\ ChosenIsSent

-----------------------------------------------------------------------------
LEMMA InitInv == Init => Inv
<1> SUFFICES ASSUME Init PROVE Inv
  OBVIOUS
<1> USE DEF Init
<1>1. TypeOK
  BY FormAssumption DEF TypeOK, Holds, Texts, Empty, Entry
<1>2. AreEntries /\ NameInSync /\ InSyncUntilEdit
  BY DEF AreEntries, NameInSync, InSyncUntilEdit, Empty, Entry
<1>3. ModeAsOpened /\ ShownAsOpened
  BY DEF ModeAsOpened, ShownAsOpened
<1>4. FieldsPresent
  BY FormAssumption DEF FieldsPresent, Empty, Entry
<1>5. SentOK
  BY DEF SentOK, ButtonAsOpened, UntouchedSaveKeeps, ChosenIsSent
<1>6. QED
  BY <1>1, <1>2, <1>3, <1>4, <1>5 DEF Inv, SentOK

\* A step that sends nothing keeps every promise about what is sent.
LEMMA SilentStep == ASSUME sent' = {} PROVE SentOK'
BY DEF SentOK, ButtonAsOpened, UntouchedSaveKeeps, ChosenIsSent

LEMMA FolderGoneInv == Inv /\ FolderGone => Inv'
<1> SUFFICES ASSUME Inv, FolderGone PROVE Inv'
  OBVIOUS
<1>1. /\ present' \subseteq Folders
      /\ vanished' = TRUE
      /\ sent' = {}
      /\ UNCHANGED <<visible, isEditMode, oldModuleName, shown, fields, opened, touched, edited>>
  BY DEF FolderGone, window, history, Inv, TypeOK
<1>2. TypeOK'
  BY <1>1 DEF Inv, TypeOK, Holds
<1>3. (AreEntries /\ NameInSync /\ InSyncUntilEdit /\ ModeAsOpened /\ ShownAsOpened /\ FieldsPresent)'
  BY <1>1 DEF Inv, AreEntries, NameInSync, InSyncUntilEdit, ModeAsOpened, ShownAsOpened, FieldsPresent
<1>4. QED
  BY <1>1, <1>2, <1>3, SilentStep DEF Inv, SentOK

LEMMA FolderMadeInv == Inv /\ FolderMade => Inv'
<1> SUFFICES ASSUME Inv, FolderMade PROVE Inv'
  OBVIOUS
<1>1. /\ present \subseteq present' /\ present' \subseteq Folders
      /\ sent' = {}
      /\ UNCHANGED <<vanished, visible, isEditMode, oldModuleName, shown, fields, opened, touched, edited>>
  BY DEF FolderMade, window, history, Inv, TypeOK
<1>2. TypeOK'
  BY <1>1 DEF Inv, TypeOK, Holds
<1>3. (AreEntries /\ NameInSync /\ InSyncUntilEdit /\ ModeAsOpened /\ ShownAsOpened /\ FieldsPresent)'
  BY <1>1 DEF Inv, AreEntries, NameInSync, InSyncUntilEdit, ModeAsOpened, ShownAsOpened, FieldsPresent
<1>4. QED
  BY <1>1, <1>2, <1>3, SilentStep DEF Inv, SentOK

LEMMA OpenSignalInv == Inv /\ OpenSignal => Inv'
<1> SUFFICES ASSUME Inv, OpenSignal PROVE Inv'
  OBVIOUS
<1>1. /\ visible' = TRUE /\ isEditMode' = FALSE
      /\ sent' = {} /\ opened' = {} /\ touched' = FALSE
      /\ UNCHANGED <<present, vanished, oldModuleName, shown, fields, edited>>
  BY DEF OpenSignal, disk
<1>2. TypeOK'
  BY <1>1 DEF Inv, TypeOK, Holds
<1>3. (AreEntries /\ NameInSync /\ InSyncUntilEdit /\ ModeAsOpened /\ ShownAsOpened /\ FieldsPresent)'
  BY <1>1 DEF Inv, AreEntries, NameInSync, InSyncUntilEdit, ModeAsOpened, ShownAsOpened, FieldsPresent
<1>4. QED
  BY <1>1, <1>2, <1>3, SilentStep DEF Inv, SentOK

-----------------------------------------------------------------------------
\* A combo box that finds no text changes nothing but itself; when both find theirs
\* the window shows the task.
LEMMA FilledShows ==
    ASSUME NEW row \in Rows
    PROVE  /\ Filled(row) = [e \in Entry |-> Filled(row)[e]]
           /\ \A e \in {"name", "source", "destination"} : Filled(row)[e] = row[e]
           /\ Filled(row).type = IF row.type \in Types THEN row.type ELSE shown.type
           /\ Filled(row).direction =
                 IF row.direction \in Directions THEN row.direction ELSE shown.direction
           /\ row.type \in Types /\ row.direction \in Directions => Filled(row) = row
<1>1. row = [e \in Entry |-> row[e]]
  BY FormAssumption
<1>2. QED
  BY <1>1 DEF Filled, Entry

LEMMA OpenEditWindowInv ==
    ASSUME Inv, NEW row \in Rows, OpenEditWindow(row)
    PROVE  Inv'
<1>1. /\ visible' = TRUE /\ isEditMode' = TRUE
      /\ oldModuleName' = row.name
      /\ shown' = Filled(row)
      /\ fields' = [fields EXCEPT !.name = row.name]
      /\ sent' = {} /\ opened' = {row} /\ touched' = FALSE /\ edited' = TRUE
      /\ UNCHANGED <<present, vanished>>
  BY DEF OpenEditWindow, disk
<1>2. AreEntries' /\ NameInSync'
  <2>1. shown' = [e \in Entry |-> shown'[e]] /\ shown'.name = row.name
    BY <1>1, FilledShows
  <2>2. fields' = [e \in Entry |-> fields'[e]] /\ fields'.name = row.name
    BY <1>1 DEF Inv, AreEntries, Entry
  <2>3. QED
    BY <2>1, <2>2 DEF AreEntries, NameInSync
<1>3. TypeOK'
  <2>1. /\ DOMAIN shown' = Entry
        /\ Holds(shown', "name", Names \cup {NoText})
        /\ Holds(shown', "source", Texts)
        /\ Holds(shown', "destination", Texts)
        /\ shown'.type \in Types /\ shown'.direction \in Directions
    BY <1>1, FilledShows DEF Inv, TypeOK, Holds, Entry
  <2>2. /\ DOMAIN fields' = Entry
        /\ Holds(fields', "name", Names \cup {NoText})
        /\ Holds(fields', "source", Texts)
        /\ Holds(fields', "destination", Texts)
        /\ fields'.type \in Types \cup {DefaultType}
        /\ fields'.direction \in Directions \cup {DefaultDirection}
    BY <1>1 DEF Inv, TypeOK, Holds, Entry
  <2>3. QED
    BY <1>1, <2>1, <2>2 DEF Inv, TypeOK, Holds
<1>4. InSyncUntilEdit' /\ ModeAsOpened'
  BY <1>1 DEF InSyncUntilEdit, ModeAsOpened
<1>5. ShownAsOpened'
  BY <1>1, FilledShows DEF ShownAsOpened
<1>6. FieldsPresent'
  BY <1>1 DEF Inv, AreEntries, FieldsPresent, Entry
<1>7. QED
  BY <1>1, <1>2, <1>3, <1>4, <1>5, <1>6, SilentStep DEF Inv, SentOK

-----------------------------------------------------------------------------
\* What the user can enter: a dialog gives the path of a folder that is there.
Enterable(entry, value) ==
    /\ entry = "name" => value \in Names \cup {NoText}
    /\ entry \in {"source", "destination"} =>
          value \in Texts /\ (value \in Folders => value \in present)
    /\ entry = "type" => value \in Types
    /\ entry = "direction" => value \in Directions

\* An entry changes in both copies at once.
LEMMA ChangeInv ==
    ASSUME Inv, NEW entry \in Entry, NEW value, Enterable(entry, value), Change(entry, value)
    PROVE  Inv'
<1>1. /\ visible
      /\ shown' = [shown EXCEPT ![entry] = value]
      /\ fields' = [fields EXCEPT ![entry] = value]
      /\ sent' = {}
      /\ touched' = TRUE
      /\ UNCHANGED <<present, vanished, visible, isEditMode, oldModuleName, opened, edited>>
  BY DEF Change, disk
<1>2. /\ shown' = [e \in Entry |-> IF e = entry THEN value ELSE shown[e]]
      /\ fields' = [e \in Entry |-> IF e = entry THEN value ELSE fields[e]]
  BY <1>1 DEF Inv, AreEntries
<1>3. AreEntries' /\ NameInSync'
  BY <1>2 DEF Inv, AreEntries, NameInSync, Entry
<1>4. TypeOK'
  <2>1. /\ DOMAIN shown' = Entry
        /\ Holds(shown', "name", Names \cup {NoText})
        /\ Holds(shown', "source", Texts)
        /\ Holds(shown', "destination", Texts)
        /\ shown'.type \in Types /\ shown'.direction \in Directions
    BY <1>2 DEF Inv, TypeOK, Holds, Entry, Enterable
  <2>2. /\ DOMAIN fields' = Entry
        /\ Holds(fields', "name", Names \cup {NoText})
        /\ Holds(fields', "source", Texts)
        /\ Holds(fields', "destination", Texts)
        /\ fields'.type \in Types \cup {DefaultType}
        /\ fields'.direction \in Directions \cup {DefaultDirection}
    BY <1>2 DEF Inv, TypeOK, Holds, Entry, Enterable
  <2>3. QED
    BY <1>1, <2>1, <2>2 DEF Inv, TypeOK, Holds
<1>5. InSyncUntilEdit'
  BY <1>1, <1>2 DEF Inv, InSyncUntilEdit, Entry
<1>6. ModeAsOpened' /\ ShownAsOpened'
  BY <1>1 DEF Inv, ModeAsOpened, ShownAsOpened
<1>7. FieldsPresent'
  BY <1>1, <1>2 DEF Inv, FieldsPresent, Entry, Enterable
<1>8. QED
  BY <1>1, <1>3, <1>4, <1>5, <1>6, <1>7, SilentStep DEF Inv, SentOK

LEMMA EntriesInv ==
    /\ Inv /\ NameModified => Inv'
    /\ Inv /\ SourceFolderAccepted => Inv'
    /\ Inv /\ DestinationFolderAccepted => Inv'
    /\ Inv /\ TypeSelected => Inv'
    /\ Inv /\ DirectionSelected => Inv'
<1>1. Inv /\ NameModified => Inv'
  BY ChangeInv DEF NameModified, Enterable, Entry
<1>2. ASSUME Inv, NEW f \in present
      PROVE  Path[f] \in Texts /\ (Path[f] \in Folders => Path[f] \in present)
  BY <1>2, FormAssumption DEF Inv, TypeOK, Texts
<1>3. Inv /\ SourceFolderAccepted => Inv'
  BY <1>2, ChangeInv DEF SourceFolderAccepted, Enterable, Entry
<1>4. Inv /\ DestinationFolderAccepted => Inv'
  BY <1>2, ChangeInv DEF DestinationFolderAccepted, Enterable, Entry
<1>5. Inv /\ TypeSelected => Inv'
  BY ChangeInv DEF TypeSelected, Enterable, Entry
<1>6. Inv /\ DirectionSelected => Inv'
  BY ChangeInv DEF DirectionSelected, Enterable, Entry
<1>7. QED
  BY <1>1, <1>3, <1>4, <1>5, <1>6

-----------------------------------------------------------------------------
LEMMA CommandShape ==
    ASSUME NEW kind, NEW old, NEW m, DOMAIN m = Entry
    PROVE  LET c == Command(kind, old, m)
           IN  /\ c.kind = kind
               /\ c.old = old
               /\ DOMAIN c.module = Entry
               /\ c.info \in {"now", "uninitialised"}
               /\ {m.source, m.destination} \subseteq present => c.module = m /\ c.info = "now"
BY DEF Command, Empty

\* The command takes its kind from the mode and its task from the fields.
LEMMA AddButtonInv == Inv /\ AddButton => Inv'
<1> SUFFICES ASSUME Inv, AddButton PROVE Inv'
  OBVIOUS
<1> DEFINE c == Command("add", NoText, fields)
<1>1. /\ visible /\ ~isEditMode
      /\ sent' = {c}
      /\ UNCHANGED <<present, vanished, visible, isEditMode, oldModuleName, shown, fields, opened, touched, edited>>
  BY DEF AddButton, disk, window, history
<1>2. /\ c.kind = "add"
      /\ DOMAIN c.module = Entry
      /\ c.info \in {"now", "uninitialised"}
      /\ {fields.source, fields.destination} \subseteq present => c.module = fields /\ c.info = "now"
  BY CommandShape DEF Inv, TypeOK
<1> HIDE DEF c
<1>3. TypeOK'
  BY <1>1, <1>2 DEF Inv, TypeOK, Holds
<1>4. opened' = {}
  BY <1>1 DEF Inv, ModeAsOpened
<1>5. ButtonAsOpened' /\ UntouchedSaveKeeps'
  BY <1>1, <1>2, <1>4 DEF ButtonAsOpened, UntouchedSaveKeeps
<1>6. ChosenIsSent'
  <2> SUFFICES ASSUME ~edited, ~vanished, {shown.source, shown.destination} \subseteq Folders
               PROVE  /\ \A e \in {"name", "source", "destination"} : c.module[e] = shown[e]
                      /\ c.module.type \in {shown.type, DefaultType}
                      /\ c.module.direction \in {shown.direction, DefaultDirection}
                      /\ c.info = "now"
    BY <1>1 DEF ChosenIsSent
  <2>1. /\ fields.source = shown.source /\ fields.destination = shown.destination
        /\ fields.type \in {shown.type, DefaultType}
        /\ fields.direction \in {shown.direction, DefaultDirection}
    BY DEF Inv, InSyncUntilEdit
  <2>2. {fields.source, fields.destination} \subseteq present
    BY <2>1 DEF Inv, FieldsPresent
  <2>3. QED
    BY <1>2, <2>1, <2>2 DEF Inv, NameInSync
<1>7. (AreEntries /\ NameInSync /\ InSyncUntilEdit /\ ModeAsOpened /\ ShownAsOpened /\ FieldsPresent)'
  BY <1>1 DEF Inv, AreEntries, NameInSync, InSyncUntilEdit, ModeAsOpened, ShownAsOpened, FieldsPresent
<1>8. QED
  BY <1>3, <1>5, <1>6, <1>7 DEF Inv

\* ... or from the widgets and oldModuleName.
LEMMA EditButtonInv == Inv /\ EditButton => Inv'
<1> SUFFICES ASSUME Inv, EditButton PROVE Inv'
  OBVIOUS
<1> DEFINE c == Command("edit", oldModuleName, shown)
<1>1. /\ visible /\ isEditMode
      /\ sent' = {c}
      /\ oldModuleName' = NoText
      /\ visible' = FALSE
      /\ UNCHANGED <<present, vanished, isEditMode, shown, fields, opened, touched, edited>>
  BY DEF EditButton, disk, history
<1>2. /\ c.kind = "edit" /\ c.old = oldModuleName
      /\ DOMAIN c.module = Entry
      /\ c.info \in {"now", "uninitialised"}
      /\ {shown.source, shown.destination} \subseteq present => c.module = shown
  BY CommandShape DEF Inv, TypeOK
<1> HIDE DEF c
<1>3. TypeOK'
  BY <1>1, <1>2 DEF Inv, TypeOK, Holds
<1>4. ButtonAsOpened'
  BY <1>1, <1>2 DEF Inv, ModeAsOpened, ButtonAsOpened
<1>5. UntouchedSaveKeeps'
  BY <1>1, <1>2 DEF Inv, ShownAsOpened, UntouchedSaveKeeps
<1>6. ChosenIsSent'
  BY <1>1, <1>2 DEF ChosenIsSent
<1>7. (AreEntries /\ NameInSync /\ InSyncUntilEdit /\ ModeAsOpened /\ ShownAsOpened /\ FieldsPresent)'
  BY <1>1 DEF Inv, AreEntries, NameInSync, InSyncUntilEdit, ModeAsOpened, ShownAsOpened, FieldsPresent
<1>8. QED
  BY <1>3, <1>4, <1>5, <1>6, <1>7 DEF Inv

LEMMA CancelInv == Inv /\ Cancel => Inv'
<1> SUFFICES ASSUME Inv, Cancel PROVE Inv'
  OBVIOUS
<1>1. /\ visible' = FALSE
      /\ sent' = {}
      /\ UNCHANGED <<present, vanished, isEditMode, oldModuleName, shown, fields, opened, touched, edited>>
  BY DEF Cancel, disk, history
<1>2. TypeOK'
  BY <1>1 DEF Inv, TypeOK, Holds
<1>3. (AreEntries /\ NameInSync /\ InSyncUntilEdit /\ ModeAsOpened /\ ShownAsOpened /\ FieldsPresent)'
  BY <1>1 DEF Inv, AreEntries, NameInSync, InSyncUntilEdit, ModeAsOpened, ShownAsOpened, FieldsPresent
<1>4. QED
  BY <1>1, <1>2, <1>3, SilentStep DEF Inv, SentOK

LEMMA StutterInv == Inv /\ UNCHANGED vars => Inv'
BY DEF vars, disk, history, Inv, TypeOK, Holds, AreEntries, NameInSync, InSyncUntilEdit,
       ModeAsOpened, ShownAsOpened, FieldsPresent, ButtonAsOpened, UntouchedSaveKeeps, ChosenIsSent

LEMMA StepInv == Inv /\ [Next]_vars => Inv'
<1> SUFFICES ASSUME Inv, [Next]_vars PROVE Inv'
  OBVIOUS
<1>1. CASE FolderGone \/ FolderMade \/ OpenSignal
  BY <1>1, FolderGoneInv, FolderMadeInv, OpenSignalInv
<1>2. ASSUME NEW row \in Rows, OpenEditWindow(row)
      PROVE  Inv'
  BY <1>2, OpenEditWindowInv
<1>3. CASE \/ NameModified
           \/ SourceFolderAccepted
           \/ DestinationFolderAccepted
           \/ TypeSelected
           \/ DirectionSelected
  BY <1>3, EntriesInv
<1>4. CASE AddButton \/ EditButton \/ Cancel
  BY <1>4, AddButtonInv, EditButtonInv, CancelInv
<1>5. CASE UNCHANGED vars
  BY <1>5, StutterInv
<1>6. QED
  BY <1>1, <1>2, <1>3, <1>4, <1>5 DEF Next

\* The inductive invariant holds in every behaviour of the form.
THEOREM Invariance == Spec => []Inv
BY InitInv, StepInv, PTL DEF Spec

-----------------------------------------------------------------------------
\* Every variable has its type, whatever folders come and go.
THEOREM TypesOK == Spec => []TypeOK
<1>1. Inv => TypeOK
  BY DEF Inv
<1>2. QED
  BY <1>1, Invariance, PTL

\* The name in the box is the name in the C++ object, whoever changed it.
THEOREM NameAgrees == Spec => []NameInSync
<1>1. Inv => NameInSync
  BY DEF Inv
<1>2. QED
  BY <1>1, Invariance, PTL

\* Until the window is opened for editing the folders, types and directions agree too.
THEOREM CopiesAgree == Spec => []InSyncUntilEdit
<1>1. Inv => InSyncUntilEdit
  BY DEF Inv
<1>2. QED
  BY <1>1, Invariance, PTL

\* Through any number of windows the button does what the window was opened for.
THEOREM ButtonDoesAsOpened == Spec => []ButtonAsOpened
<1>1. Inv => ButtonAsOpened
  BY DEF Inv
<1>2. QED
  BY <1>1, Invariance, PTL

\* "Save" changes nothing that the user did not change.
THEOREM SaveKeeps == Spec => []UntouchedSaveKeeps
<1>1. Inv => UntouchedSaveKeeps
  BY DEF Inv
<1>2. QED
  BY <1>1, Invariance, PTL

\* "Add" sends the task that was chosen, whatever the sequence of choices.
THEOREM AddSendsChosen == Spec => []ChosenIsSent
<1>1. Inv => ChosenIsSent
  BY DEF Inv
<1>2. QED
  BY <1>1, Invariance, PTL
=============================================================================
