CONSTANTS
    ByteSize = 4
    WordBits = 8
    MemSize = 24
    kNumRegisters = 3
    kEntryCount = 2
    SlotCount = 3
    SlotWords = {1}
    execute_alu <- alu
    decode_instruction <- Decode
    Programs <- DemoProgram
    LoadAddresses = {0}
    Configs <- OneConfig
    Options <- PlainOptions
    MaxCycles = 10
SPECIFICATION SimSpec
INVARIANT
    StoppedEarlyMeansUnfinished
CHECK_DEADLOCK FALSE
