SPECIFICATION RunSpec
CONSTANTS
    Names <- MCNames
    Word = {0, 3}
    SYMBOLS = 7
    hash <- MChash
    Free = Free
    Undefined = Undefined
    Rel = {"a", "d"}
    Ext = {"c"}
    Ent = {"a", "d"}
    Chars <- MCChars
    progname <- Progname
    Main = "main"
    Sources <- MCSources
    INCLUDE_DEPTH = 1
    MAXXREF = 2
    BUFSIZE = 4
CONSTRAINT Narrow
INVARIANTS
    LinesTrue
    ObjectTold
    SourceExpanded
PROPERTIES
    ImplementsNameMap
CHECK_DEADLOCK FALSE
