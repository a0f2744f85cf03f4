\* Two uploads of one client, at the same time too, with every fault:
\* termination and success.
SPECIFICATION FairSpec
CONSTANTS
    NULL = NULL
    p1 = p1  p2 = p2  p3 = p3
    id1 = id1
    Proc <- MCProc
    ID <- MCID
    IdOf <- MCIdOf
    Size <- MCSize
    NUM_OF_TRIALS = 2
    MayOverlap = TRUE
    FaultKinds <- AllFaultKinds
    MaxFaults = 1
PROPERTIES
    DisplacedUploadNeverMatches
    EveryUploadEnds
    UndisturbedUploadSucceeds
