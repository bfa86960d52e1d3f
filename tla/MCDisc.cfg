SPECIFICATION FairSpec
CONSTANTS
    t = t
    u = u
    Unknown = Unknown
    Data = {t, u}
    LastLBA = 2
    Polls = 3
INVARIANTS
    AnswerTrue
    WritesLand
PROPERTIES
    CallReturns
