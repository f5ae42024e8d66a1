CONSTANTS
    RingLen = 5
    CacheSize = 3
    FifoSize = 2
    Rdmts = 0
    Wthresh = 2
    Pthresh = 0
    Hthresh = 0
    LowWater = 1
    NbPkts = 2
    RxFreeThresh = 1
    MaxFrames = 7
SPECIFICATION FairSpec
CHECK_DEADLOCK FALSE
INVARIANTS TypeOK AssertsHold DescriptorOwnership DDExact FrameOrder DmaFlags NotStuck
PROPERTIES ChannelSpec DrainCompletesOrFollowUp DeliveredOrParked
