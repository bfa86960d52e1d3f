SPECIFICATION Spec
CONSTANTS
    a = a
    s = s
    x = x
    Names = {a, s, x}
    Lines <- MCLines
    MaxLines = 4
    Top = 40
    NoName = NoName
    None = None
    Here = Here
    Number = Number
    Empty = Empty
    MAXXREF = 2
    IFSTACK = 1
    Word = 65536
    Reach = 2
CHECK_DEADLOCK FALSE
INVARIANTS
    LoaderFollows
    LabelsTrue
    ReferencesTrue
    HeaderTrue
