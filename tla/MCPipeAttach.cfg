SPECIFICATION MCSpec
CONSTANTS
    p1 = p1
    p2 = p2
    Hotkeys = {1, 2}
    Workers <- OneEach
    BaseQuota = 5
    MaxInflight = 2
    Stages = 1
    Microbatches = 1
    MaxEpochs = 1
    Training = TRUE
    Direct = TRUE
    Timeouts = TRUE
    MaxRestarts = 1
    MaxCrashes = 1
    MaxExpired = 1
PROPERTY AttachKeepsRun
CHECK_DEADLOCK FALSE
