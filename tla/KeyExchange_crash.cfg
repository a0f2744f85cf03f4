\* Crashes and restarts, one process of a directory at a time.
SPECIFICATION Spec
CONSTANTS
    NULL = NULL
    DEFAULT_ID = aaaa
    p1 = p1  p2 = p2  p3 = p3
    d1 = d1  d2 = d2
    id1 = id1  id2 = id2  id3 = id3
    Proc <- MCProc
    Dir <- MCDir
    DirOf <- MCDirOf
    ID <- MCID
    NUM_OF_TRIALS = 2
    MayOverlap = FALSE
    MaxFaults = 2
SYMMETRY IdSymmetry
INVARIANTS
    TypeOK
    AesNeedsPublicKey
    StoredKeyOpensLogin
    LoginYieldsKey
    RefusalIsRecoverable
    OnlySiblingDisplacesKey
