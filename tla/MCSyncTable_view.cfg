SPECIFICATION FairSpec
CONSTANTS
    Names <- MCNames
    Tasks <- TwoTasks
    Placeholders <- MCPlaceholders
    Module8 = "Module8"
    Text <- MCText
    DumpText <- MCDumpText
    Clickable <- TextHeaders
    Percents = {30}
    MaxChanges = 3
INVARIANT TypeOK
INVARIANT RowsSorted
INVARIANT OneRowPerTask
INVARIANT SavedAreShown
PROPERTY ImplementsView
PROPERTY AddedIsShown
PROPERTY RemovedIsHidden
