CONSTANTS
    ByteSize = 4
    WordBits = 8
    MemSize = 28
    kNumRegisters = 3
    kEntryCount = 2
    SlotCount = 3
    SlotWords = {1, 2, 3, 4, 5, 6, 7, 8, 13, 16, 18, 19, 22, 23}
    execute_alu <- alu
    decode_instruction <- Decode
    Programs <- DataPrograms
    LoadAddresses = {0}
    Configs <- OneConfig
SPECIFICATION Spec
INVARIANTS
    TypeOK
    OperandsAreCurrent
    FetchIsFresh
    StoppedStateIsArchitectural
PROPERTY
    ImplementsIsa
CHECK_DEADLOCK FALSE
