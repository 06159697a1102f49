----------------------------- MODULE StreamingRun -----------------------------
(***************************************************************************)
(* A streaming (pipeline) run: the StreamingRunManager of                  *)
(* teuton_orchestrator/streaming.py in its training mode, the miners of    *)
(* teuton_miner/worker.py that execute its jobs, and the bucket they share.*)
(*                                                                         *)
(* An epoch is a DAG of jobs (forward and backward passes per stage and    *)
(* microbatch, then an outer step per stage).  run_loop emits the whole    *)
(* epoch, then polls the bucket until the tail's losses and the next       *)
(* epoch's weights exist.  Either side may crash and restart at any step.  *)
(*                                                                         *)
(* Artifacts are only ever written, never deleted, so a poll of several    *)
(* exists() calls is one step: a later call can only see more.             *)
(* The flush protocol of the queue is the module OrchestratorQueue; here   *)
(* Publish copies the manager's queue to the bucket in one step.           *)
(***************************************************************************)
EXTENDS Scheduler

CONSTANTS
    Stages,        \* params.n_stages
    Microbatches,  \* params.n_microbatches
    MaxEpochs,     \* config.max_epochs
    Training,      \* params.training
    Direct,        \* grant_mode = "direct"
    Timeouts,      \* TRUE: a deadline of run_loop or wait_epoch may pass
    MaxRestarts,   \* bound on restarts of the orchestrator
    MaxCrashes,    \* bound on crashes of miners
    MaxExpired     \* bound on queue entries whose deadline passes

ASSUME StreamingAssumption ==
    /\ Stages \in Nat \ {0} /\ Microbatches \in Nat \ {0} /\ MaxEpochs \in Nat \ {0}
    /\ Training \in BOOLEAN /\ Direct \in BOOLEAN /\ Timeouts \in BOOLEAN
    /\ MaxRestarts \in Nat /\ MaxCrashes \in Nat /\ MaxExpired \in Nat

Epochs == 0..(MaxEpochs - 1)
StageIds == 0..(Stages - 1)
Mbs == 0..(Microbatches - 1)
LastStage == Stages - 1

Art(name, e, s, mb) == [name |-> name, e |-> e, s |-> s, mb |-> mb]
Weights(e, s) == Art("W", e, s, 0)
Artifacts == [name : {"x", "done", "dW", "dx", "W"}, e : 0..MaxEpochs, s : StageIds, mb : Mbs]

Job == [kind : {"fwd", "bwd", "outer"}, e : Epochs, s : StageIds, mb : Mbs]

\* The jobs of an epoch in the order of emit_epoch: forwards, backwards from
\* the last stage to the first, outer steps.
Passes == Stages * Microbatches
JobsPerEpoch == IF Training THEN 2 * Passes + Stages ELSE Passes
JobAt(e, i) ==
    LET n == i - 1 IN
    CASE n < Passes ->
            [kind |-> "fwd", e |-> e, s |-> n % Stages, mb |-> n \div Stages]
      [] n \in Passes..(2 * Passes - 1) ->
            [kind |-> "bwd", e |-> e, s |-> LastStage - (n % Stages), mb |-> (n - Passes) \div Stages]
      [] OTHER ->
            [kind |-> "outer", e |-> e, s |-> n - 2 * Passes, mb |-> 0]
EpochJobs(e) == {JobAt(e, i) : i \in 1..JobsPerEpoch}

Inputs(j) ==
    CASE j.kind = "fwd" ->
            (IF j.s = 0 THEN {} ELSE {Art("x", j.e, j.s - 1, j.mb)})
              \cup (IF Training THEN {Weights(j.e, j.s)} ELSE {})
      [] j.kind = "bwd" ->
            {Weights(j.e, j.s)}
              \cup (IF j.s = 0 THEN {} ELSE {Art("x", j.e, j.s - 1, j.mb)})
              \cup (IF j.s = LastStage THEN {} ELSE {Art("dx", j.e, j.s + 1, j.mb)})
      [] j.kind = "outer" ->
            {Weights(j.e, j.s)} \cup {Art("dW", j.e, j.s, mb) : mb \in Mbs}

Outputs(j) ==
    CASE j.kind = "fwd" ->
            {Art("x", j.e, j.s, j.mb)}
              \cup (IF j.s = LastStage THEN {Art("done", j.e, j.s, j.mb)} ELSE {})
      [] j.kind = "bwd" ->
            {Art("dW", j.e, j.s, j.mb)}
              \cup (IF j.s = 0 THEN {} ELSE {Art("dx", j.e, j.s, j.mb)})
      [] j.kind = "outer" -> {Weights(j.e + 1, j.s)}

NoJob == [kind |-> "none", e |-> 0, s |-> 0, mb |-> 0]

VARIABLES
    pc,         \* where run_loop is
    epoch,      \* the epoch of run_loop
    next,       \* index in JobAt of the next job to emit
    accounts,   \* hotkeys in quota.accounts
    inflight,   \* their inflight_cu
    jobs,       \* keys of self.jobs
    released,   \* wait_epoch's set of jobs whose quota is given back
    queue,      \* the manager's queue: a set of [job, hk, at], at: insertion order
    fresh,      \* receipts that a scan from the cursor still lists
    published,  \* the queue snapshot in the bucket
    manifest,   \* manifest[j]: assigned hotkey, 0 if there is no manifest
    made,       \* artifacts in the bucket
    receipts,   \* jobs with a receipt in the bucket
    expired,    \* jobs whose queue entry is past its deadline
    on,         \* on[hk]: the miner is running
    doing,      \* doing[hk]: the job in its executor
    left,       \* left[hk]: outputs of doing[hk] still to PUT
    completed,  \* completed[hk]: its persisted completed-jobs cache
    restarts, crashes  \* what is spent of MaxRestarts and MaxCrashes

manager == <<pc, epoch, next, accounts, inflight, jobs, released, queue, fresh>>
miners == <<on, doing, left, completed>>
store == <<published, manifest, made, receipts, expired>>
budget == <<restarts, crashes>>
vars == <<manager, miners, store, budget>>

Init ==
    /\ pc = "discover" /\ epoch = 0 /\ next = 1
    /\ accounts = {} /\ inflight = [hk \in Hotkeys |-> 0]
    /\ jobs = {} /\ released = {} /\ queue = {} /\ fresh = {}
    /\ published = {} /\ manifest = [j \in Job |-> 0]
    /\ made = {Weights(0, s) : s \in StageIds}
    /\ receipts = {} /\ expired = {}
    /\ on = [hk \in Hotkeys |-> TRUE]
    /\ doing = [hk \in Hotkeys |-> NoJob]
    /\ left = [hk \in Hotkeys |-> {}]
    /\ completed = [hk \in Hotkeys |-> {}]
    /\ restarts = 0 /\ crashes = 0

-----------------------------------------------------------------------------
(* The orchestrator.                                                       *)

Depth(q) == [hk \in Hotkeys |-> Cardinality({x \in q : x.hk = hk})]

Queued(q) == {x.job : x \in q}

\* The place after the last entry.
NextPlace(q) ==
    IF q = {} THEN 0
    ELSE 1 + (CHOOSE n \in {x.at : x \in q} : \A x \in q : x.at <= n)

\* add() replaces an entry of the same job in its place, else appends.
Add(q, j, hk) ==
    IF j \in Queued(q)
      THEN {IF x.job = j THEN [job |-> j, hk |-> hk, at |-> x.at] ELSE x : x \in q}
      ELSE q \cup {[job |-> j, hk |-> hk, at |-> NextPlace(q)]}

\* _drain_queue_via_receipts: drop entries with a receipt in the scan's
\* window, then the entries past their deadline.
Drained(q) == {x \in q : x.job \notin fresh \cup expired}

\* How many jobs of the set js are assigned to each hotkey.
PerHotkey(js) == [hk \in Hotkeys |-> Cardinality({j \in js : manifest[j] = hk})]

\* discover_workers returned somebody.  Heartbeats outlive a crashed miner by
\* their TTL, so hotkeys that are off may still be seen.
Discover ==
    /\ pc = "discover"
    /\ \E seen \in SUBSET Hotkeys :
        /\ seen # {} /\ {hk \in Hotkeys : on[hk]} \subseteq seen
        /\ accounts' = accounts \cup seen
    /\ pc' = "emit" /\ next' = 1
    /\ UNCHANGED <<epoch, inflight, jobs, released, queue, fresh, miners, store, budget>>

Pickable == Candidates(accounts, inflight, Depth(queue))

\* emit_job up to put_json(manifest_uri): pick a worker, sign and PUT.
EmitManifest ==
    /\ pc = "emit" /\ next <= JobsPerEpoch /\ Pickable # {}
    /\ LET hk == PickWorker(Pickable, inflight) IN
        /\ manifest' = [manifest EXCEPT ![JobAt(epoch, next)] = hk]
        /\ inflight' = Reserve(inflight, hk)
    /\ pc' = "add"
    /\ UNCHANGED <<epoch, next, accounts, jobs, released, queue, fresh,
                   published, made, receipts, expired, miners, budget>>

\* The rest of emit_job: the grant, self.jobs and queue.add with a new deadline.
EmitAdd ==
    /\ pc = "add"
    /\ LET j == JobAt(epoch, next) IN
        /\ jobs' = jobs \cup {j}
        /\ queue' = Add(queue, j, manifest[j])
        /\ expired' = expired \ {j}
    /\ next' = next + 1
    /\ pc' = "emit"
    /\ UNCHANGED <<epoch, accounts, inflight, released, fresh,
                   published, manifest, made, receipts, miners, budget>>

\* pick_worker raises: the RuntimeError leaves run_loop through its finally,
\* which stops the queue after a last flush.
NoRoom ==
    /\ pc = "emit" /\ next <= JobsPerEpoch /\ Pickable = {}
    /\ pc' = "no_room"
    /\ published' = queue
    /\ UNCHANGED <<epoch, next, accounts, inflight, jobs, released, queue, fresh,
                   manifest, made, receipts, expired, miners, budget>>

StartWait ==
    /\ pc = "emit" /\ next > JobsPerEpoch
    /\ pc' = "wait" /\ released' = {}
    /\ UNCHANGED <<epoch, next, accounts, inflight, jobs, queue, fresh, miners, store, budget>>

TailDone == \A mb \in Mbs : Art("done", epoch, LastStage, mb) \in made
OuterDone == Training => \A s \in StageIds : Weights(epoch + 1, s) \in made

\* Jobs of this epoch that hold quota.
Unreleased == {j \in jobs : j.e = epoch} \ released

\* Mutant: every poll walks all of the epoch's jobs again.
PollForgetsReleased ==
    /\ pc = "wait" /\ ~(TailDone /\ OuterDone)
    /\ LET present == {j \in jobs : j.e = epoch /\ Outputs(j) \subseteq made} IN
        /\ released' = released \cup present
        /\ inflight' = Release(inflight, PerHotkey(present))
    /\ queue' = Drained(queue)
    /\ UNCHANGED <<pc, epoch, next, accounts, jobs, fresh, miners, store, budget>>

\* One turn of wait_epoch's loop that finds the epoch unfinished.
Poll ==
    /\ pc = "wait" /\ ~(TailDone /\ OuterDone)
    /\ LET present == {j \in Unreleased : Outputs(j) \subseteq made} IN
        /\ released' = released \cup present
        /\ inflight' = Release(inflight, PerHotkey(present))
    /\ queue' = Drained(queue)
    /\ UNCHANGED <<pc, epoch, next, accounts, jobs, fresh, miners, store, budget>>

\* Mutant: the outer steps are not waited for.
EpochEndsEarly ==
    /\ pc = "wait" /\ TailDone
    /\ released' = released \cup Unreleased
    /\ inflight' = Release(inflight, PerHotkey(Unreleased))
    /\ queue' = Drained(queue)
    /\ epoch' = epoch + 1
    /\ pc' = IF epoch + 1 = MaxEpochs THEN "done" ELSE "discover"
    /\ published' = IF epoch + 1 = MaxEpochs THEN queue' ELSE published
    /\ UNCHANGED <<next, accounts, jobs, fresh,
                   manifest, made, receipts, expired, miners, budget>>

\* wait_epoch returns: quota given back, queue drained, and run_loop goes to
\* the next epoch or leaves through its finally.
EpochEnds ==
    /\ pc = "wait" /\ TailDone /\ OuterDone
    /\ released' = released \cup Unreleased
    /\ inflight' = Release(inflight, PerHotkey(Unreleased))
    /\ queue' = Drained(queue)
    /\ epoch' = epoch + 1
    /\ pc' = IF epoch + 1 = MaxEpochs THEN "done" ELSE "discover"
    /\ published' = IF epoch + 1 = MaxEpochs THEN queue' ELSE published
    /\ UNCHANGED <<next, accounts, jobs, fresh,
                   manifest, made, receipts, expired, miners, budget>>

\* TimeoutError of run_loop (no miners) or of wait_epoch, which gives the
\* quota back first.
TimesOut ==
    /\ Timeouts /\ pc \in {"discover", "wait"}
    /\ inflight' = IF pc = "wait" THEN Release(inflight, PerHotkey(Unreleased)) ELSE inflight
    /\ released' = IF pc = "wait" THEN released \cup Unreleased ELSE released
    /\ pc' = "timeout"
    /\ published' = queue
    /\ UNCHANGED <<epoch, next, accounts, jobs, queue, fresh,
                   manifest, made, receipts, expired, miners, budget>>

\* The background flush.
Publish ==
    /\ pc \notin {"done", "no_room", "timeout"}
    /\ published # queue
    /\ published' = queue
    /\ UNCHANGED <<manager, manifest, made, receipts, expired, miners, budget>>

\* The process ends, wherever it is, and a new one starts: __init__ reconciles
\* the queue from the bucket and sets the receipt cursor to now, so that of
\* the receipts already there a scan lists only those of the last 5 seconds.
Restart ==
    /\ restarts < MaxRestarts /\ pc # "done"
    /\ restarts' = restarts + 1
    /\ pc' = "discover" /\ epoch' = 0 /\ next' = 1
    /\ accounts' = {} /\ inflight' = [hk \in Hotkeys |-> 0]
    /\ jobs' = {} /\ released' = {}
    /\ queue' = published
    /\ \E recent \in SUBSET receipts : fresh' = recent
    /\ UNCHANGED <<store, miners, crashes>>

\* Time: a queue entry passes its deadline.
Expire ==
    /\ Cardinality(expired) < MaxExpired
    /\ \E j \in Queued(queue) \ expired : expired' = expired \cup {j}
    /\ UNCHANGED <<manager, published, manifest, made, receipts, miners, budget>>

-----------------------------------------------------------------------------
(* The miners.                                                             *)

\* Entries of the published snapshot that tick() does not pass over.
Mine(hk) ==
    {x \in published : x.hk = hk /\ x.job \notin completed[hk] /\ manifest[x.job] = hk}

AllThere(j) == Outputs(j) \subseteq made

\* Mutant: tick() gives up at the first entry that it cannot run.
RunnableNewest(hk) ==
    {x \in Mine(hk) : /\ \A y \in Mine(hk) : y.at <= x.at
                      /\ Inputs(x.job) \subseteq made
                      /\ ~(Direct /\ AllThere(x.job))}

Runnable(hk) ==
    {x \in Mine(hk) : Inputs(x.job) \subseteq made /\ ~(Direct /\ AllThere(x.job))}

\* In direct mode: jobs of Mine after place n whose outputs all exist.
Already(hk, n) == {x.job : x \in {y \in Mine(hk) : Direct /\ y.at >= n /\ AllThere(y.job)}}

\* Mutant: a job counts as completed once it is started.
TakeMarksCompleted(hk) ==
    /\ on[hk] /\ doing[hk] = NoJob
    /\ \E x \in Runnable(hk) :
        /\ \A y \in Runnable(hk) : y.at <= x.at
        /\ doing' = [doing EXCEPT ![hk] = x.job]
        /\ left' = [left EXCEPT ![hk] = Outputs(x.job)]
        /\ completed' = [completed EXCEPT ![hk] = @ \cup {x.job}]
    /\ UNCHANGED <<on, manager, store, budget>>

\* tick(): newest entry first; in direct mode an entry whose outputs all
\* exist is marked completed and passed over, one whose inputs are missing is
\* passed over.  The first one left goes to the executor.
Take(hk) ==
    /\ on[hk] /\ doing[hk] = NoJob
    /\ \E x \in Runnable(hk) :
        /\ \A y \in Runnable(hk) : y.at <= x.at
        /\ doing' = [doing EXCEPT ![hk] = x.job]
        /\ left' = [left EXCEPT ![hk] = Outputs(x.job)]
        /\ completed' = [completed EXCEPT ![hk] = @ \cup Already(hk, x.at)]
    /\ UNCHANGED <<on, manager, store, budget>>

\* tick() with nothing to run: it only marks entries.
Skip(hk) ==
    /\ on[hk] /\ doing[hk] = NoJob /\ Runnable(hk) = {}
    /\ Already(hk, 0) # {}
    /\ completed' = [completed EXCEPT ![hk] = @ \cup Already(hk, 0)]
    /\ UNCHANGED <<on, doing, left, manager, store, budget>>

\* The executor's thread pool PUTs the outputs in any order.
PutOutput(hk) ==
    /\ on[hk]
    /\ \E a \in left[hk] :
        /\ made' = made \cup {a}
        /\ left' = [left EXCEPT ![hk] = @ \ {a}]
    /\ UNCHANGED <<on, doing, completed, manager, published, manifest, receipts, expired, budget>>

\* The receipt PUT.
PutReceipt(hk) ==
    /\ on[hk] /\ doing[hk] # NoJob /\ left[hk] = {}
    /\ receipts' = receipts \cup {doing[hk]}
    /\ fresh' = fresh \cup {doing[hk]}
    /\ completed' = [completed EXCEPT ![hk] = @ \cup {doing[hk]}]
    /\ doing' = [doing EXCEPT ![hk] = NoJob]
    /\ UNCHANGED <<on, left, pc, epoch, next, accounts, inflight, jobs, released, queue,
                   published, manifest, made, expired, budget>>

\* The miner's process dies with whatever it was executing ...
Crash(hk) ==
    /\ crashes < MaxCrashes /\ on[hk]
    /\ crashes' = crashes + 1
    /\ on' = [on EXCEPT ![hk] = FALSE]
    /\ doing' = [doing EXCEPT ![hk] = NoJob]
    /\ left' = [left EXCEPT ![hk] = {}]
    /\ UNCHANGED <<completed, manager, store, restarts>>

\* ... and starts again with its persisted cache.
Start(hk) ==
    /\ ~on[hk]
    /\ on' = [on EXCEPT ![hk] = TRUE]
    /\ UNCHANGED <<doing, left, completed, manager, store, budget>>

-----------------------------------------------------------------------------
Orchestrate == Discover \/ EmitManifest \/ EmitAdd \/ NoRoom \/ StartWait \/ Poll \/ EpochEnds

Mining(hk) == Take(hk) \/ Skip(hk) \/ PutOutput(hk) \/ PutReceipt(hk) \/ Start(hk)

Next ==
    \/ Orchestrate \/ TimesOut \/ Publish \/ Restart \/ Expire
    \/ \E hk \in Hotkeys : Mining(hk) \/ Crash(hk)

Spec == Init /\ [][Next]_vars

\* The orchestrator's loop, its flush thread and every miner keep running.
FairSpec ==
    /\ Spec
    /\ WF_vars(Orchestrate)
    /\ WF_vars(Publish)
    /\ \A hk \in Hotkeys : WF_vars(Mining(hk))

-----------------------------------------------------------------------------
TypeOK ==
    /\ pc \in {"discover", "emit", "add", "wait", "done", "no_room", "timeout"}
    /\ epoch \in 0..MaxEpochs /\ next \in 1..(JobsPerEpoch + 1)
    /\ accounts \subseteq Hotkeys /\ inflight \in [Hotkeys -> Nat]
    /\ jobs \subseteq Job /\ released \subseteq jobs
    /\ queue \subseteq [job : Job, hk : Hotkeys, at : Nat]
    /\ published \subseteq [job : Job, hk : Hotkeys, at : Nat]
    /\ manifest \in [Job -> Hotkeys \cup {0}]
    /\ made \subseteq Artifacts /\ fresh \subseteq receipts
    /\ receipts \subseteq Job /\ expired \subseteq Job
    /\ on \in [Hotkeys -> BOOLEAN] /\ doing \in [Hotkeys -> Job \cup {NoJob}]
    /\ left \in [Hotkeys -> SUBSET Artifacts] /\ completed \in [Hotkeys -> SUBSET Job]
    /\ restarts \in 0..MaxRestarts /\ crashes \in 0..MaxCrashes

\* wait_epoch looks at the tail's losses and the next weights only.  When it
\* lets run_loop go on, everything else that the epoch was to produce is there
\* too, whatever crashed on the way; only the tail's activations, which no job
\* reads, may still be on their way.
BehindIsComplete ==
    \A e \in 0..(epoch - 1) : \A j \in EpochJobs(e) :
        Outputs(j) \ {Art("x", e, LastStage, mb) : mb \in Mbs} \subseteq made

\* wait_epoch, emit_job and the exception paths keep each account's
\* inflight_cu equal to its jobs of the current epoch whose reservation has
\* not been given back: no job is given back twice and none is forgotten, so
\* every epoch starts with the quota whole.
QuotaIsExact ==
    inflight =
      CASE pc \in {"discover", "done"} -> [hk \in Hotkeys |-> 0]
        [] pc = "add" -> PerHotkey(Unreleased \cup {JobAt(epoch, next)})
        [] OTHER -> PerHotkey(Unreleased)

\* The hotkey_filter of emit_job holds across restarts, re-emission and
\* reassignment: no miner has more than max_inflight_per_hotkey entries.
DepthBounded == \A hk \in Hotkeys : Depth(queue)[hk] <= MaxInflight

\* The completed-jobs cache outlives the process.  A job in it is never run
\* again, so its outputs must all be in the bucket.
CompletedIsProduced ==
    \A hk \in Hotkeys : \A j \in completed[hk] : Outputs(j) \subseteq made

\* With a queue and a quota that hold an epoch's jobs, an undisturbed run gets
\* to its end: the DAG has no cycle, newest-first never starves an older job
\* for good, and the completed caches leave no epoch without its outputs.
RunEnds == <>(pc = "done")
==============================================================================
