CONSTANTS
    Registers = {1, 30}
    Immediates <- EdgeImmediates
    Samples <- EdgeSamples
SPECIFICATION DecoderSpec
INVARIANTS
    DecoderTypeOK
    RoundTrip
    NoBitIgnored
    ControlMatchesKind
CHECK_DEADLOCK FALSE
