SPECIFICATION StringSpec
CONSTANTS
    BIG_LIMIT = 40
    Sizes <- SmallSizes
    Lengths <- SmallLengths
    RespectLimit = FALSE
INVARIANTS
    MemorySafe
