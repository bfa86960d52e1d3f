\* Safety, refinement and liveness: three slots, so that the ring wraps and overflows.
SPECIFICATION FairSpec
CONSTANTS
    a = a
    b = b
    none = none
    Byte <- MCByte
    Zero = a
    NoByte = none
    N = 3
    WordMod = 2
    Timeouts <- MCTimeouts
INVARIANTS
    NoOrphanRxInterrupt
    Restored
PROPERTIES
    ImplementsFifo
    BothServed
