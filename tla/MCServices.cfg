SPECIFICATION MCSpec
CONSTANTS
    Jobs = {1}
    Backdate = 3
    Skew = 1
    MaxScan = 2
    Ttl = 4
    MaxNow = 7
    MaxRestarts = 1
    MaxFaults = 1
INVARIANTS OwnReceiptsListed ExpiredLeave NoOrphanStage SubscriberHasLatest  WeightsStayFresh ReadIsReplayed
PROPERTIES    BurnSparesFresh ScoresReturn
CHECK_DEADLOCK FALSE
