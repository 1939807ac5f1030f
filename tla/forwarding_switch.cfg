CONSTANTS
    ByteSize = 4
    WordBits = 8
    MemSize = 24
    kNumRegisters = 3
    kEntryCount = 2
    SlotCount = 2
    SlotWords = {1, 3, 4}
    execute_alu <- alu
    decode_instruction <- Decode
    Programs <- SmallPrograms
    LoadAddresses = {0}
    Configs <- BypassOff
SPECIFICATION Spec
INVARIANT
    ForwardingObeysConfig
CHECK_DEADLOCK FALSE
