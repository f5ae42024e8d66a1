CONSTANTS
    RingLen = 3
    CacheSize = 2
    FifoSize = 2
    Rdmts = 0
    Wthresh = 0
    Pthresh = 0
    Hthresh = 0
    LowWater = 1
    NbPkts = 2
    RxFreeThresh = 0
    MaxFrames = 4
SPECIFICATION FairSpec
CHECK_DEADLOCK FALSE
PROPERTIES DrainCompletes
