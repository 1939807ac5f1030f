CONSTANTS
    ByteSize = 4
    WordBits = 8
    MemSize = 24
    kNumRegisters = 3
    kEntryCount = 2
    SlotCount = 3
    SlotWords = {0, 1, 4, 5, 6, 9, 10, 11, 12, 14, 15, 17, 25, 26}
    execute_alu <- alu
    decode_instruction <- Decode
    Programs <- SmallPrograms
    LoadAddresses = {0}
    Configs <- AllPredictors
SPECIFICATION Spec
INVARIANTS
    IInv
    PathIsConnected
    HaltBarrier
PROPERTIES
    ImplementsIsa
    KeepsRetiring
CHECK_DEADLOCK FALSE
