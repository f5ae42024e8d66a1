CONSTANTS
    n1 = n1
    n2 = n2
    sw = sw
    Node <- MCNode
    Switch = sw
    SyncStart = 3
    Repeat <- MCRepeat
    LinkDelay <- MCLinkDelay
    SendDelay = {1}
    SimLength = 1
    Setups <- SyncSetups
    MaxCkpts = 2
SPECIFICATION Spec
CHECK_DEADLOCK FALSE
INVARIANTS TypeOK SyncAsserts SameQuantum Schedulable WithinQuantum CkptAgreement
PROPERTIES NetworkDrained LockstepSpec
