SPECIFICATION Spec
CONSTANTS
    Runs = {"a"}
    NoRun = "no"
    Conns = {"c1"}
    Requests = {1}
    QueueSize = 1
    RunLimit = 1
    MaxFlushes = 1
    MaxPicks = 1
    MaxFaults = 0
PROPERTY KeepaliveKeepsStream
CHECK_DEADLOCK FALSE
