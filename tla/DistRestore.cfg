CONSTANTS
    n1 = n1
    n2 = n2
    sw = sw
    Node <- MCOneNode
    Switch = sw
    SyncStart = 3
    Repeat <- MCRepeat
    LinkDelay <- MCLinkDelay
    SendDelay = {1}
    SimLength = 1
    Setups <- RestoreSetups
    MaxCkpts = 1
SPECIFICATION Spec
CHECK_DEADLOCK FALSE
INVARIANTS Schedulable
