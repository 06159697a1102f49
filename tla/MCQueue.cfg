SPECIFICATION MCSpec
CONSTANTS
    j1 = j1
    j2 = j2
    w1 = w1
    w2 = w2
    None = None
    Jobs = {j1, j2}
    Writers = {w1, w2}
    Kind <- WithSubmit
    Deadlines = {0}
    MaxAttempt = 0
    MaxNow = 0
    MaxMutations = 2
    MaxFaults = 1
    LostReplies = TRUE
    SlowPuts = TRUE
    AtomicPut = TRUE
INVARIANTS EtagMeansSeen AloneClean
PROPERTIES  NoSilentDrop SnapshotIdAdvances AloneNoResurrection
