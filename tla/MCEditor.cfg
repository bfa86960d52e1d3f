SPECIFICATION Spec
CONSTANTS
    Key <- MCKey
    Byte <- MCNoByte
    ebcap = 5
    Rows = 2
    Cols = 3
    TabW = 2
    StaleEntry = FALSE
INVARIANTS
    CursorOnItsCharacter
    ScreenIsFresh
PROPERTIES
    KeysActAtCursor
    ImplementsGapText
