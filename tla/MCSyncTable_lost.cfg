SPECIFICATION Spec
CONSTANTS
    Names <- MCNames
    Tasks <- TwoTasks
    Placeholders <- MCPlaceholders
    Module8 = "Module8"
    Text <- MCText
    DumpText <- MCDumpText
    Clickable <- AllHeaders
    Percents = {30}
    MaxChanges = 2
INVARIANT AllTasksShown
