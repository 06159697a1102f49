SPECIFICATION MCSpec
CONSTANTS
    j1 = j1
    j2 = j2
    w1 = w1
    w2 = w2
    None = None
    Jobs = {j1}
    Writers = {w1}
    Kind <- OneManager
    Deadlines = {0}
    MaxAttempt = 0
    MaxNow = 0
    MaxMutations = 2
    MaxFaults = 0
    LostReplies = FALSE
    SlowPuts = FALSE
    AtomicPut = TRUE
INVARIANT CleanIsPublished
