SPECIFICATION Spec
CONSTANTS
    a = a
    b = b
    c = c
    Names = {a, b, c}
    Text = Text
    NUL = NUL
    None = None
    MACNBR = 2
    MACMAX = 4
    Bodies <- MCBodies
    Texts <- MCTexts
    MaxLines = 5
    IncLines = 2
INVARIANTS
    SkipFollows
    MacroTrue
CHECK_DEADLOCK FALSE
