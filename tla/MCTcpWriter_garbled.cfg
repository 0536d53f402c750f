SPECIFICATION Spec
CONSTANTS
    docs = docs
    music = music
    Names <- TwoNames
    Garbled = Garbled
    MaxCommands = 3
INVARIANT ArrivesIntact
CHECK_DEADLOCK FALSE
