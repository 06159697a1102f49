SPECIFICATION FairSpec
CONSTANTS
    m1 = m1
    None = None
    Hotkeys = {1, 2}
    Workers <- OneEach
    BaseQuota = 4
    MaxInflight = 1
    NumJobs = 2
    Miners = {m1}
    Faulty <- FirstOfM1
    Timelocked = {2}
    AuditModes = {"local", "consume"}
    MaxJobs = 1
    MaxReceipts = 1
    MaxFaults = 1
INVARIANTS VerdictOnOwnAudit JudgedOnMerit AuditedOnce EntryMatchesManifest
PROPERTIES VerdictMovesScore ReceiptsJudged
CHECK_DEADLOCK FALSE
