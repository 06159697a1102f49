----------------------------- MODULE StressEmitter -----------------------------
(***************************************************************************)
(* The stress mode of teuton_orchestrator/streaming.py:                    *)
(* _run_stress_emit_loop publishes synthetic epochs of forward jobs as     *)
(* fast as the queue depth lets it, without waiting for any of them.       *)
(*                                                                         *)
(* A job is <<epoch, stage>>; stage s reads what stage s - 1 of its epoch  *)
(* wrote.  Epochs count iterations from stress_epoch_base, so that a       *)
(* restarted process emits the same job ids again.  Miners are those of    *)
(* StreamingRun, reduced to taking a job and finishing it, in any order;   *)
(* the receipt window is that of ReceiptDrain, here without gaps.          *)
(***************************************************************************)
EXTENDS Scheduler

CONSTANTS
    Stages,         \* params.n_stages, with one microbatch
    MaxIterations,  \* stress_max_iterations
    MaxFaults       \* bound on restarts and on entries whose deadline passes

\* A deployment: 0 stands for no hotkey.
Configured == Stages \in Nat /\ MaxIterations \in Nat /\ 0 \notin Hotkeys

Job == (0..(MaxIterations - 1)) \X (0..(Stages - 1))

VARIABLES
    pc,         \* where the loop is
    iteration,  \* the loop's counter; while emitting, the epoch is one less
    stage,      \* the next stage of the epoch to emit
    accounts,   \* hotkeys in quota.accounts
    inflight,   \* their inflight_cu
    jobs,       \* self.jobs: job to assigned hotkey, 0 if absent
    queue,      \* the manager's queue, likewise
    published,  \* the snapshot in the bucket, likewise
    fresh,      \* receipts that the next scan lists
    receipts,   \* jobs with a receipt, hence with an output
    doing,      \* doing[hk]: the job the miner executes, or None
    expired,    \* jobs whose entry is past its deadline
    restarts    \* how often the orchestrator was restarted

loop == <<pc, iteration, stage, accounts, inflight, jobs, queue>>
vars == <<loop, published, fresh, receipts, doing, expired, restarts>>

None == <<>>
NoJobs == [j \in Job |-> 0]

Epoch == iteration - 1
InEpoch(j) == j[1] = Epoch

Depth == [hk \in Hotkeys |-> Cardinality({j \in Job : queue[j] = hk})]

Init ==
    /\ pc = "loop" /\ iteration = 0 /\ stage = 0
    /\ accounts = {} /\ inflight = [hk \in Hotkeys |-> 0]
    /\ jobs = NoJobs /\ queue = NoJobs /\ published = NoJobs
    /\ fresh = {} /\ receipts = {} /\ expired = {}
    /\ doing = [hk \in Hotkeys |-> None]
    /\ restarts = 0

\* The top of the loop: rediscover, drain, go to the next epoch.
Iterate ==
    /\ pc = "loop" /\ iteration < MaxIterations
    /\ \E seen \in SUBSET Hotkeys :
        /\ accounts' = accounts \cup seen
        /\ accounts' # {}
    /\ queue' = [j \in Job |-> IF j \in fresh \cup expired THEN 0 ELSE queue[j]]
    /\ iteration' = iteration + 1 /\ stage' = 0 /\ pc' = "emit"
    /\ UNCHANGED <<inflight, jobs, published, fresh, receipts, doing, expired, restarts>>

Pickable == Candidates(accounts, inflight, Depth)

\* emit_forward of the next stage.
Emit ==
    /\ pc = "emit" /\ stage < Stages /\ Pickable # {}
    /\ LET hk == PickWorker(Pickable, inflight)
           j == <<Epoch, stage>>
       IN  /\ inflight' = Reserve(inflight, hk)
           /\ jobs' = [jobs EXCEPT ![j] = hk]
           /\ queue' = [queue EXCEPT ![j] = hk]
           /\ expired' = expired \ {j}
    /\ stage' = stage + 1
    /\ UNCHANGED <<pc, iteration, accounts, published, fresh, receipts, doing, restarts>>

\* Mutant: the job emitted last stays in the queue.
BackOffSkipsLast ==
    /\ pc = "emit" /\ stage < Stages /\ Pickable = {}
    /\ queue' = [j \in Job |-> IF jobs[j] # 0 /\ InEpoch(j) /\ j[2] < stage - 1
                                 THEN 0 ELSE queue[j]]
    /\ jobs' = [j \in Job |-> IF InEpoch(j) THEN 0 ELSE jobs[j]]
    /\ pc' = "loop"
    /\ UNCHANGED <<iteration, stage, accounts, inflight, published, fresh, receipts,
                   doing, expired, restarts>>

\* pick_worker raised: _drop_epoch_jobs, sleep, next iteration.
BackOff ==
    /\ pc = "emit" /\ stage < Stages /\ Pickable = {}
    /\ queue' = [j \in Job |-> IF jobs[j] # 0 /\ InEpoch(j) THEN 0 ELSE queue[j]]
    /\ jobs' = [j \in Job |-> IF InEpoch(j) THEN 0 ELSE jobs[j]]
    /\ pc' = "loop"
    /\ UNCHANGED <<iteration, stage, accounts, inflight, published, fresh, receipts,
                   doing, expired, restarts>>

\* The epoch is out: _release_epoch_quota, and self.jobs forgets the epoch.
Emitted ==
    /\ pc = "emit" /\ stage = Stages
    /\ inflight' = Release(inflight,
         [hk \in Hotkeys |-> Cardinality({j \in Job : InEpoch(j) /\ jobs[j] = hk})])
    /\ jobs' = [j \in Job |-> IF InEpoch(j) THEN 0 ELSE jobs[j]]
    /\ pc' = "loop"
    /\ UNCHANGED <<iteration, stage, accounts, queue, published, fresh, receipts,
                   doing, expired, restarts>>

\* The background flush.
Publish ==
    /\ published # queue
    /\ published' = queue
    /\ UNCHANGED <<loop, fresh, receipts, doing, expired, restarts>>

\* A new process with the same stress_epoch_base.
Restart ==
    /\ restarts + Cardinality(expired) < MaxFaults
    /\ restarts' = restarts + 1
    /\ pc' = "loop" /\ iteration' = 0 /\ stage' = 0
    /\ accounts' = {} /\ inflight' = [hk \in Hotkeys |-> 0]
    /\ jobs' = NoJobs /\ queue' = published
    /\ \E recent \in SUBSET receipts : fresh' = recent
    /\ UNCHANGED <<published, receipts, doing, expired>>

\* Time: an entry passes its deadline.
Expire ==
    /\ restarts + Cardinality(expired) < MaxFaults
    /\ \E j \in Job : queue[j] # 0 /\ j \notin expired /\ expired' = expired \cup {j}
    /\ UNCHANGED <<loop, published, fresh, receipts, doing, restarts>>

\* A miner takes a published job whose input exists and whose output does not.
Take(hk) ==
    /\ doing[hk] = None
    /\ \E j \in Job :
        /\ published[j] = hk /\ j \notin receipts
        /\ j[2] > 0 => <<j[1], j[2] - 1>> \in receipts
        /\ doing' = [doing EXCEPT ![hk] = j]
    /\ UNCHANGED <<loop, published, fresh, receipts, expired, restarts>>

\* It writes the output and the receipt.
Finish(hk) ==
    /\ doing[hk] # None
    /\ receipts' = receipts \cup {doing[hk]}
    /\ fresh' = fresh \cup {doing[hk]}
    /\ doing' = [doing EXCEPT ![hk] = None]
    /\ UNCHANGED <<loop, published, expired, restarts>>

Next ==
    \/ Iterate \/ Emit \/ BackOff \/ Emitted \/ Publish \/ Restart \/ Expire
    \/ \E hk \in Hotkeys : Take(hk) \/ Finish(hk)

Spec == Init /\ [][Next]_vars

-----------------------------------------------------------------------------
TypeOK ==
    /\ pc \in {"loop", "emit"} /\ iteration \in 0..MaxIterations /\ stage \in 0..Stages
    /\ accounts \subseteq Hotkeys /\ inflight \in [Hotkeys -> Nat]
    /\ jobs \in [Job -> Hotkeys \cup {0}]
    /\ queue \in [Job -> Hotkeys \cup {0}] /\ published \in [Job -> Hotkeys \cup {0}]
    /\ receipts \subseteq Job /\ fresh \subseteq receipts /\ expired \subseteq Job
    /\ doing \in [Hotkeys -> Job \cup {None}]
    /\ restarts \in 0..MaxFaults

\* emit_epoch, _drop_epoch_jobs and the drain leave no orphan: a queued stage
\* whose entry is within its deadline has its upstream stage queued, finished
\* or, at worst, dropped for its own deadline.  A restart, whose epochs mix with
\* reconciled entries, ends this.
NoOrphanStage ==
    restarts = 0 => \A j \in Job : queue[j] # 0 /\ j[2] > 0 =>
        LET up == <<j[1], j[2] - 1>> IN queue[up] # 0 \/ up \in receipts \cup expired

\* Releasing "keeps the priority denominator from drifting": between
\* iterations no account holds quota for an epoch that is over.
QuotaReturned == pc = "loop" => \A hk \in Hotkeys : inflight[hk] = 0
==============================================================================
