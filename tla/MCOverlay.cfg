CONSTANTS
    Overlays <- MCOverlays
    Resident = 0
    Segments = {8, 9, 10, 11}
    Window = 8
    Pages = {1, 2, 3, 4, 5, 6, 7, 8, 9, 10, 11, 12, 13, 14, 15}
    NoPage = 0
    RowOf <- MCRow
    Calls <- MCCalls
    Unframed <- MCUnframed
    Cli = 7
    Text <- MCText
    Stopped = Stopped
    Wild = Wild
    Frames = 16
    ShellPages = {0, 7}
SPECIFICATION OverlaySpec
INVARIANTS TypeOK CodeInPlace MessageReadable
PROPERTY ImplementsFlatCalls
