CONSTANTS
    ByteSize = 4
    WordBits = 8
    MemSize = 24
    kNumRegisters = 3
    kEntryCount = 2
    SlotCount = 0
    SlotWords = {}
    execute_alu <- alu
    decode_instruction <- Decode
    Programs <- SessionPrograms
    LoadAddresses = {0}
    Configs <- OneConfig
    MaxCalls = 4
SPECIFICATION SessionSpec
INVARIANTS
    CleanStart
    ReuseIsSound
PROPERTY
    ReuseExecutesIsa
CHECK_DEADLOCK FALSE
