\* One process at a time; it, the server or a payload may fail.
SPECIFICATION Spec
CONSTANTS
    NULL = NULL
    p1 = p1  p2 = p2  p3 = p3
    id1 = id1
    Proc <- ThreeProc
    ID <- MCID
    IdOf <- ThreeIdOf
    Size <- MCSize
    NUM_OF_TRIALS = 2
    MayOverlap = FALSE
    FaultKinds <- CrashFaults
    MaxFaults = 2
SYMMETRY ProcSymmetry
INVARIANTS
    TypeOK
    VerifiedMeansStored
    SuccessIsRecorded
    GivingUpIsRecorded
PROPERTIES
    KeepsPromise
