\* A file name that arrives in two parts.
SPECIFICATION Spec
CONSTANTS
    NULL = NULL
    p1 = p1  p2 = p2  p3 = p3
    id1 = id1
    Proc <- MCProc
    ID <- MCID
    IdOf <- MCIdOf
    Size <- ShortSize
    NUM_OF_TRIALS = 2
    MayOverlap = FALSE
    FaultKinds <- ShortName
    MaxFaults = 1
INVARIANTS
    SuccessIsRecorded
