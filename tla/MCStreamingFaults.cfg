SPECIFICATION Spec
CONSTANTS
    Hotkeys = {1, 2}
    Workers <- OneEach
    BaseQuota = 5
    MaxInflight = 2
    Stages = 1
    Microbatches = 1
    MaxEpochs = 1
    Training = TRUE
    Direct = TRUE
    Timeouts = TRUE
    MaxRestarts = 1
    MaxCrashes = 1
    MaxExpired = 1
INVARIANTS QuotaIsExact DepthBounded CompletedIsProduced
CHECK_DEADLOCK FALSE
