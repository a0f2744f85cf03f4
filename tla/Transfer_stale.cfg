\* Two uploads of one client at the same time, without any fault.
SPECIFICATION Spec
CONSTANTS
    NULL = NULL
    p1 = p1  p2 = p2  p3 = p3
    id1 = id1
    Proc <- MCProc
    ID <- MCID
    IdOf <- MCIdOf
    Size <- ShortSize
    NUM_OF_TRIALS = 2
    MayOverlap = TRUE
    FaultKinds <- NoFaults
    MaxFaults = 0
INVARIANTS
    VerifiedMeansStored
