CONSTANTS
    RingLen = 4
    CacheSize = 5
    FifoSize = 2
    Rdmts = 0
    Wthresh = 2
    Pthresh = 2
    Hthresh = 0
    LowWater = 1
    NbPkts = 2
    RxFreeThresh = 0
    MaxFrames = 9
SPECIFICATION UndisturbedSpec
CHECK_DEADLOCK FALSE
PROPERTIES ForcedWriteback
