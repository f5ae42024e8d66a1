CONSTANTS
    Clock = 12
    CheckLossInterval = 3
    Tolerance = 2
    Allowance = 24
    Word = 256
    RateWord = 8
    SimLength = 1
    Setups <- MCSetups
SPECIFICATION FairSpec
CHECK_DEADLOCK FALSE
PROPERTIES RateStops
