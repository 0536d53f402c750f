SPECIFICATION RoundFairSpec
CONSTANTS
    Names <- MCNames
    Garbled = Garbled
    Folded <- MCFolded
    Placeholders <- MCPlaceholders
    MaxCommands = 1
    MaxReports = 2
INVARIANT PacedKeepsUp
PROPERTY PacedComesToRest
CHECK_DEADLOCK FALSE
