SPECIFICATION Spec
CONSTANTS
    Name <- MCName
    UserName <- MCUserName
    NoName <- MCNoName
    Text <- MCText
    Absent = Absent
    ebcap = 1
    SilentFaults = TRUE
INVARIANTS
    CleanMatchesDisk
    NoSilentDiscard
    OneFaultKeepsText
