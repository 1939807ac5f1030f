CONSTANTS
    ByteSize = 2
    MemSize = 9
    kNumRegisters = 1
    kBytesPerLine = 4
    MaxCount = 12
    Requests <- AllRequests
    BufferSize = 3
SPECIFICATION FileSpec
INVARIANTS
    DumpTypeOK
    EachByteOnce
    RangesCanonical
    NothingLostWhilePrinting
PROPERTIES
    DumpProgresses
    DumpTerminates
CHECK_DEADLOCK FALSE
