CONSTANTS
    ByteSize = 2
    MemSize = 9
    kNumRegisters = 1
    kBytesPerLine = 4
    MaxCount = 9
    Requests <- AllRequests
    BufferSize = 3
SPECIFICATION FileSpec
INVARIANT
    ReportedMeansWritten
CHECK_DEADLOCK FALSE
