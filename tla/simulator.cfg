CONSTANTS
    ByteSize = 4
    WordBits = 8
    MemSize = 24
    kNumRegisters = 3
    kEntryCount = 2
    SlotCount = 3
    SlotWords = {1, 3, 4, 5, 6, 8, 9, 10, 11, 12, 131}
    execute_alu <- alu
    decode_instruction <- Decode
    Programs <- SmallPrograms
    LoadAddresses = {0}
    Configs <- OneConfig
    Options <- RunOptions
    MaxCycles = 20
    TraceOptions <- TraceWindows
SPECIFICATION RetireSpec
INVARIANTS
    SimTypeOK
    StatsConsistent
    CycleBudget
    DumpedAtBoundary
    RetiresInOrder
    RetireCountExact
    TraceWindow
PROPERTIES
    SimTerminates
    TraceReadsOn
CHECK_DEADLOCK FALSE
