\* Every size of a small machine.
SPECIFICATION FairSpec
CONSTANTS
    BUFFER_SIZE = 3
    U16 = 8
    U32 = 64
    Sizes <- AllSizes
INVARIANTS
    TypeOK
    CompleteIsWhole
    FittingChecksumComes
PROPERTIES
    EveryFittingFileConfirmed
