SPECIFICATION Spec
CONSTANTS
    Hotkeys = {1, 2}
    Workers <- OneEach
    BaseQuota = 5
    MaxInflight = 2
    Stages = 3
    MaxIterations = 2
    MaxFaults = 0
INVARIANTS QuotaReturned
CHECK_DEADLOCK FALSE
