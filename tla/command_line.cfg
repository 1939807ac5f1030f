CONSTANTS
    U32 = 16
    U64 = 64
    DefaultMemorySize = 10
    DefaultMaxCycles = 12
    Arguments <- SmallArguments
    MaxArguments = 3
SPECIFICATION CliSpec
INVARIANTS
    OptionsFromArguments
    OptionsAreSafe
CHECK_DEADLOCK FALSE
