SPECIFICATION RoundFairSpec
CONSTANTS
    Names <- MCNames
    Garbled = Garbled
    Folded <- MCFolded
    Placeholders <- MCPlaceholders
    MaxCommands = 2
    MaxReports = 0
INVARIANT RoundTypeOK
INVARIANT InOrder
INVARIANT IntactWhenPaced
INVARIANT OneResultEach
INVARIANT ClientOutlivesCommands
INVARIANT AbortExplained
INVARIANT PacedAsksOfTasks
INVARIANT PacedReadsErrors
INVARIANT RestShowsTasks
INVARIANT RestToldErrors
PROPERTY AcceptedIsSent
PROPERTY QuitEnds
CHECK_DEADLOCK FALSE
