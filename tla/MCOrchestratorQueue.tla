------------------------- MODULE MCOrchestratorQueue -------------------------
(***************************************************************************)
(* Instances of OrchestratorQueue for TLC.  The module that is extended    *)
(* has the writers of the configuration; Alone is a second queue beside    *)
(* it, with one writer, and `which` says which of the two is in use.       *)
(***************************************************************************)
EXTENDS OrchestratorQueue

CONSTANTS j1, j2, w1, w2

\* An orchestrator alone.
OneManager == [w \in {w1} |-> "manager"]

\* An orchestrator and an operator who runs submit-manifest.
WithSubmit == [w \in {w1, w2} |-> IF w = w1 THEN "manager" ELSE "one_shot"]

VARIABLES
    which,
    a_bucket, a_mode, a_outstanding, a_snapshot_id, a_etag, a_dirty, a_pending, a_frame,
    a_now, a_mutations, a_faults, a_gone, a_lost

\* Over a LocalBucket, with a clock, deadlines and replays.
Alone == INSTANCE OrchestratorQueue WITH
    Writers <- {w1}, Kind <- OneManager, Deadlines <- {0, 1}, MaxAttempt <- 1, MaxNow <- 2,
    MaxMutations <- 3, MaxFaults <- 1, LostReplies <- FALSE, SlowPuts <- FALSE,
    AtomicPut <- FALSE,
    bucket <- a_bucket, mode <- a_mode, outstanding <- a_outstanding,
    snapshot_id <- a_snapshot_id, etag <- a_etag, dirty <- a_dirty, pending <- a_pending,
    frame <- a_frame, now <- a_now, mutations <- a_mutations, faults <- a_faults,
    gone <- a_gone, lost <- a_lost

alone == <<a_bucket, a_mode, a_outstanding, a_snapshot_id, a_etag, a_dirty, a_pending,
           a_frame, a_now, a_mutations, a_faults, a_gone, a_lost>>

MCInit == which \in {"shared", "alone"} /\ Init /\ Alone!Init

MCNext ==
    \/ which = "shared" /\ Next /\ UNCHANGED <<which, alone>>
    \/ which = "alone" /\ Alone!Next /\ UNCHANGED <<which, vars>>

\* Fairness, for the queue in use.
MCSpec ==
    /\ MCInit /\ [][MCNext]_<<which, vars, alone>>
    /\ \A w \in Writers :
        /\ WF_vars(which = "shared" /\ BackgroundFlush(w))
        /\ \A t \in Threads : WF_vars(which = "shared" /\ FlushStep(w, t))

\* A clean queue is a published one unless a mutator raced the flush.
AloneClean == Alone!CleanUnlessRaced

\* The merge and the restart of an orchestrator alone bring no removed job back.
AloneNoResurrection == [][Alone!NothingResurrected]_alone
==============================================================================
