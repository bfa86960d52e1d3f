SPECIFICATION Spec
CONSTANTS
    x = x
    y = y
    f = f
    Names = {x, y}
    Library = {f}
    hash <- hash_MC
    Globals <- Globals_MC
    Heads <- Heads_MC
    Locals <- Locals_MC
    Strings = {0, 1}
    Commands <- Commands_MC
    length <- length_MC
    NAMEMAX = 14
    NUMGLBS = 3
    NUMTAGS = 3
    NUMMEMB = 4
    LITMAX = 6
    Free = Free
    WQTAB = 2
    SWTAB = 2
    NUMLOCS = 3
    MaxStmts = 5
    Full = 3
    None = None
SYMMETRY Symmetry
CHECK_DEADLOCK FALSE
INVARIANTS
    TablesFollow
    TrackedIsReal
    LocalsTrue
    NamesTrue
    OutputTrue
