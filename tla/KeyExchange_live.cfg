\* Termination and recovery: two processes of one directory.
SPECIFICATION FairSpec
CONSTANTS
    NULL = NULL
    DEFAULT_ID = aaaa
    p1 = p1  p2 = p2  p3 = p3
    d1 = d1  d2 = d2
    id1 = id1  id2 = id2  id3 = id3
    Proc <- PairProc
    Dir <- PairDir
    DirOf <- PairDirOf
    ID <- PairID
    NUM_OF_TRIALS = 2
    MayOverlap = FALSE
    MaxFaults = 2
PROPERTIES
    EveryRunEnds
    UndisturbedRunGetsKey
