SPECIFICATION MCSpec
CONSTANTS
    Base = 2
    SP = 2
    Depth = 4
    STACKP = 12
    MaxSteps = 3
    MaxKeys = 3
    Levels = {4, 5}
    Values = {13}
    Texts <- MCTexts
    Typed <- MCTyped
    Files <- MCFiles
CONSTRAINT Apart
INVARIANTS
    LoadedOrTold
    ServicesTrue
PROPERTIES
    NoStrayCommand
    ImplementsCallStack
CHECK_DEADLOCK FALSE
