CONSTANTS
    ByteSize = 2
    MemSize = 15
    kNumRegisters = 1
    kBytesPerLine = 4
    MaxCount = 15
    Requests <- MemoryRequests
    BufferSize = 3
SPECIFICATION FileSpec
PROPERTY
    DumpTerminates
CHECK_DEADLOCK FALSE
