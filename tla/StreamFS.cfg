SPECIFICATION FairStreamSpec

CONSTANTS
    Sources = {"archive", "plugin"}
    SizeOf <- MCSizeOf
    CHUNK = 2
    LRU_MAX = 2
    MaxLength = 3
    MaxGeneration = 3
    NoByte = NoByte
    NoTail = NoTail

INVARIANTS
    ReadsReturnTheFileUnlessLate
    CacheHoldsWhatWasUsedLast

PROPERTIES
    ReadsEnd
CHECK_DEADLOCK FALSE
