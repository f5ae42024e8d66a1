CONSTANTS
    n1 = n1
    n2 = n2
    sw = sw
    Node <- MCNode
    Switch = sw
    SyncStart = 1
    Repeat <- MCRepeat
    LinkDelay <- MCLinkDelay
    SendDelay = {1}
    SimLength = 1
    Setups <- ToggleSetups
    MaxCkpts = 2
SPECIFICATION FairSpec
CHECK_DEADLOCK FALSE
PROPERTIES StopsOnLoss
