------------------------------ MODULE MCServices ------------------------------
(***************************************************************************)
(* Six parts that run beside the run managers and do not meet, as one      *)
(* state space: `service` says which of them steps, the others rest in     *)
(* their initial states.  ReceiptDrain is extended; the variables of the   *)
(* others carry a prefix.                                                  *)
(***************************************************************************)
EXTENDS ReceiptDrain, TLC

VARIABLES
    service,
    st_pc, st_iteration, st_stage, st_accounts, st_inflight, st_jobs, st_queue,
    st_published, st_fresh, st_receipts, st_doing, st_expired, st_restarts,
    dq_file, dq_known, dq_sampler, dq_seen, dq_latest, dq_conn, dq_page, dq_request,
    dq_picks, dq_faults,
    di_bucket, di_beats, di_rows, di_runs, di_pass, di_page, di_request,
    di_writes, di_picks, di_faults,
    w_age, w_by, w_metagraph, w_scored, w_val, w_dog, w_burnAge, w_dry, w_faults, w_changes,
    de_op, de_exec, de_object, de_manifest, de_reader

st == <<st_pc, st_iteration, st_stage, st_accounts, st_inflight, st_jobs, st_queue,
        st_published, st_fresh, st_receipts, st_doing, st_expired, st_restarts>>
dq == <<dq_file, dq_known, dq_sampler, dq_seen, dq_latest, dq_conn, dq_page, dq_request,
        dq_picks, dq_faults>>
di == <<di_bucket, di_beats, di_rows, di_runs, di_pass, di_page, di_request,
        di_writes, di_picks, di_faults>>
w == <<w_age, w_by, w_metagraph, w_scored, w_val, w_dog, w_burnAge, w_dry, w_faults, w_changes>>
de == <<de_op, de_exec, de_object, de_manifest, de_reader>>
all == <<service, vars, st, dq, di, w, de>>

\* The stress emitter: two iterations of three stages for one miner.
Stress == INSTANCE StressEmitter WITH
    Hotkeys <- {1}, Workers <- (1 :> 1), BaseQuota <- 5, MaxInflight <- 4,
    Stages <- 3, MaxIterations <- 2, MaxFaults <- 1,
    pc <- st_pc, iteration <- st_iteration, stage <- st_stage, accounts <- st_accounts,
    inflight <- st_inflight, jobs <- st_jobs, queue <- st_queue, published <- st_published,
    fresh <- st_fresh, receipts <- st_receipts, doing <- st_doing, expired <- st_expired,
    restarts <- st_restarts

\* The queue's way to a page: two runs, two connections, a subscriber queue of 1.
LiveQueue == INSTANCE DashboardQueue WITH
    Runs <- {"a", "b"}, NoRun <- "no", Conns <- {"c1", "c2"}, Requests <- {1, 2},
    QueueSize <- 1, RunLimit <- 2, MaxFlushes <- 2, MaxPicks <- 2, MaxFaults <- 1,
    file <- dq_file, known <- dq_known, sampler <- dq_sampler, seen <- dq_seen,
    latest <- dq_latest, conn <- dq_conn, page <- dq_page, request <- dq_request,
    picks <- dq_picks, faults <- dq_faults

\* Receipts' way to a page: two runs of which one is indexed, lists cut at 1.
Index == INSTANCE DashboardIndex WITH
    Runs <- {1, 2}, All <- 0, Ids <- {1, 2}, Workers <- {1}, Cap <- 1, RunCap <- 1,
    Requests <- {1}, MaxWrites <- 2, MaxPicks <- 2, MaxFaults <- 1,
    bucket <- di_bucket, beats <- di_beats, rows <- di_rows, runs <- di_runs,
    pass <- di_pass, page <- di_page, request <- di_request, writes <- di_writes,
    picks <- di_picks, faults <- di_faults

\* 100 and 360 blocks are 3 and 7 here; a pass takes up to 3, a call up to 1.
Weights == INSTANCE ValidatorWeights WITH
    Hotkeys <- {"m1", "m2"}, Validator <- "v", RateLimit <- 3, Threshold <- 7, Cooldown <- 2,
    PollBlocks <- 1, MaxPass <- 3, MaxLatency <- 1, MaxFaults <- 1, MaxChanges <- 3,
    age <- w_age, by <- w_by, metagraph <- w_metagraph, scored <- w_scored, val <- w_val,
    dog <- w_dog, burnAge <- w_burnAge, dry <- w_dry, faults <- w_faults, changes <- w_changes

\* Two executions of one job with different inputs: the first on two GPUs, its
\* output cut in two; the second alike, or on one GPU with the output cut in
\* three, one of them empty.
Found(x) ==
    [x |-> << <<x, 2>>, <<3, 1>> >>, w1 |-> << <<1, 2>>, <<3, 5>> >>, w2 |-> << <<2, 1>>, <<0, 3>> >>,
     bias |-> <<1, 4>>, dy |-> << <<1, 0>>, <<2, x>> >>]
Sharded == INSTANCE DistributedExecutor WITH
    Execs <- {"e1", "e2"}, MaxRanks <- 3, Readers <- {"d"},
    Hosts <- {[e1 |-> [in |-> Found(1), world |-> 2, cut |-> 2],
               e2 |-> [in |-> Found(2), world |-> host[1], cut |-> host[2]]] :
                  host \in {<<2, 2>>, <<1, 3>>}},
    op <- de_op, exec <- de_exec, object <- de_object, manifest <- de_manifest,
    reader <- de_reader

\* The instances are deployments as the theorems about them assume.
ASSUME ServicesAssumption == Stress!Configured /\ Weights!Configured

MCInit ==
    /\ service \in {"drain", "stress", "queue", "index", "weights", "sharded"}
    /\ Init /\ Stress!Init /\ LiveQueue!Init /\ Index!Init /\ Weights!Init /\ Sharded!Init
    /\ service # "weights" => w_dry
    /\ service # "sharded" => de_op = "mlp" /\ de_exec["e2"].cut = 2

MCNext ==
    \/ service = "drain" /\ Next /\ UNCHANGED <<service, st, dq, di, w, de>>
    \/ service = "stress" /\ Stress!Next /\ UNCHANGED <<service, vars, dq, di, w, de>>
    \/ service = "queue" /\ LiveQueue!Next /\ UNCHANGED <<service, vars, st, di, w, de>>
    \/ service = "index" /\ Index!Next /\ UNCHANGED <<service, vars, st, dq, w, de>>
    \/ service = "weights" /\ Weights!Next /\ UNCHANGED <<service, vars, st, dq, di, de>>
    \/ service = "sharded" /\ Sharded!Next /\ UNCHANGED <<service, vars, st, dq, di, w>>

\* The fairness of each module's FairSpec.
MCSpec ==
    /\ MCInit /\ [][MCNext]_all
    /\ WF_vars(service = "drain" /\ BeginScan) /\ WF_vars(service = "drain" /\ EndScan)
    /\ WF_dq(service = "queue" /\ LiveQueue!Sampler)
    /\ WF_dq(service = "queue" /\ \E r \in {"a", "b"} : LiveQueue!UpsertRun(r))
    /\ WF_dq(service = "queue" /\ \E k \in {1, 2} : LiveQueue!Reply(k))
    /\ \A c \in {"c1", "c2"} : WF_dq(service = "queue" /\ LiveQueue!Stream(c))
    /\ WF_di(service = "index" /\ Index!Indexer) /\ WF_di(service = "index" /\ Index!Fetch(1))
    /\ WF_w(service = "weights" /\ Weights!Tick) /\ WF_w(service = "weights" /\ Weights!Loop)
    /\ WF_w(service = "weights" /\ Weights!Watchdog)

-----------------------------------------------------------------------------
(* The properties of the instances: see their modules.                     *)

\* _drop_epoch_jobs and the drain leave no queued stage without its upstream.
NoOrphanStage == Stress!NoOrphanStage
\* publish() never drops the newest snapshot of a slow subscriber.
SubscriberHasLatest == LiveQueue!SubscriberHasLatest
\* The queue store comes to show the selected run's queue.json.
QueuePageCatchesUp == LiveQueue!PageCatchesUp
\* A reply of /api/snapshot never counts more receipts than it lists.
CountIsListed == Index!CountIsListed
\* The snapshot store comes to show what the bucket holds of the selected run.
IndexPageCatchesUp == Index!PageCatchesUp
\* The watchdog's burn replaces only weights older than its threshold.
BurnSparesFresh == [][Weights!SparesFresh]_w
\* With the watchdog, weights are never much older than its threshold.
WeightsStayFresh == Weights!WeightsStayFresh
\* Burns do not keep the validator's scores out.
ScoresReturn == Weights!ScoresReturn
\* get_sharded_tensor returns the whole, right output of one execution.
ReadIsReplayed == Sharded!ReadIsReplayed
==============================================================================
