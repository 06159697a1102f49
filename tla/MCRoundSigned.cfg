SPECIFICATION FairSpec
CONSTANTS
    Hotkeys = {1, 2}
    Workers <- OneEach
    BaseQuota = 5
    MaxInflight = 8
    NumUb = 1
    Replicas = 2
    MaxSteps = 2
    Policy = "assigned"
    Direct = FALSE
    MaxFaults = 0
PROPERTIES RunEnds
CHECK_DEADLOCK FALSE
