CONSTANTS
    ByteSize = 4
    WordBits = 8
    MemSize = 28
    kNumRegisters = 3
    kEntryCount = 2
    SlotCount = 3
    SlotWords = {1, 2, 3, 5, 6, 9, 10, 12, 27, 28, 29}
    execute_alu <- alu
    decode_instruction <- Decode
    Programs <- GoldenPrograms
    LoadAddresses = {4}
    Configs <- OneConfig
    Options <- GoldenOptions
    MaxCycles = 24
    SpikeBase = 4
    HaltPc = 16
    CounterRange = 25
SPECIFICATION GoldenSpec
INVARIANTS
    GoldenTypeOK
    GoldenAgrees
    InstructionCountsAgree
PROPERTY
    GoldenFinishes
CHECK_DEADLOCK FALSE
