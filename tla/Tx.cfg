CONSTANTS
    RingLen = 6
    CacheSize = 3
    FifoSize = 5
    NbPkts = 2
    Setups <- MCSetups
SPECIFICATION FairSpec
CHECK_DEADLOCK FALSE
INVARIANTS TypeOK AssertsHold RingOwnership BuffersHeld WireExact DmaFlags
PROPERTIES ChannelSpec Transmitted DriverProgress DrainCompletesOrFollowUp
