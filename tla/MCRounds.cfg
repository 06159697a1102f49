SPECIFICATION MCSpec
CONSTANTS
    Nil = Nil
    Hotkeys = {1, 2}
    Workers <- OneEach
    BaseQuota = 1
    MaxInflight = 8
    NumUb = 1
    Replicas = 2
    MaxSteps = 2
    Policy = "none"
    Direct = TRUE
    MaxFaults = 1
INVARIANTS ReduceReadsEveryReplica EmittedIsRunnable StepLeavesNothing HonestReceiptsPass
PROPERTIES RunsAreDurable RunsEnd
CHECK_DEADLOCK FALSE
