SPECIFICATION MCFairSpec
CONSTANTS
    p1 = p1
    p2 = p2
    Hotkeys = {1, 2}
    Workers <- OneEach
    BaseQuota = 4
    MaxInflight = 9
    Stages = 2
    Microbatches = 1
    MaxEpochs = 2
    Training = TRUE
    Direct = FALSE
    Timeouts = FALSE
    MaxRestarts = 0
    MaxCrashes = 0
    MaxExpired = 0
INVARIANTS BehindIsComplete
PROPERTIES StreamingRunEnds EpochRuns BuiltIsConfigured
CHECK_DEADLOCK FALSE
