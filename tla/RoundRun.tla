------------------------------- MODULE RoundRun -------------------------------
(***************************************************************************)
(* A round-based run: the RunManager of teuton_orchestrator/run_manager.py,*)
(* the miners that execute its jobs and the bucket between them.           *)
(*                                                                         *)
(* A step has five phases (forward, inner, reduce, outer, eval).  The jobs *)
(* of a phase are emitted, then waited for one by one; the manifests of a  *)
(* phase name artifacts of the phases before it.  state.json records the   *)
(* step, so a restarted manager redoes the step it was in, with other      *)
(* miners perhaps, over the artifacts, manifests and queue of the last one.*)
(*                                                                         *)
(* Artifacts are never deleted, so the exists() calls of one poll are one  *)
(* step.  A miner may take its entries in any order: newest first, as      *)
(* tick() does, is one of them.                                            *)
(***************************************************************************)
EXTENDS Scheduler, Integers

CONSTANTS
    NumUb,      \* task.N_UB
    Replicas,   \* task.INNER_REPLICAS
    MaxSteps,   \* config.max_steps
    Policy,     \* config.crypto_policy: "none", "signed" or, with
                \* required_signer = "assigned_hotkey", "assigned"
    Direct,     \* grant_mode = "direct"
    MaxFaults   \* bound on kills, timeouts and miner crashes

ASSUME RoundAssumption ==
    /\ NumUb \in Nat \ {0} /\ Replicas \in Nat \ {0} /\ MaxSteps \in Nat \ {0}
    /\ Policy \in {"none", "signed", "assigned"} /\ Direct \in BOOLEAN
    /\ MaxFaults \in Nat /\ 0 \notin Hotkeys

Ubs == 0..(NumUb - 1)

\* The jobs of a phase in the order of run_step.
Kind == <<"forward_pass", "inner_step", "reduce", "outer_step", "eval">>
Size == <<1, NumUb * Replicas, NumUb, NumUb, 1>>
JobAt(s, p, i) ==
    [kind |-> Kind[p], step |-> s,
     ub |-> CASE p = 2 -> (i - 1) \div Replicas [] p \in {3, 4} -> i - 1 [] OTHER -> 0,
     r  |-> IF p = 2 THEN (i - 1) % Replicas ELSE 0]
StepJobs(s) == UNION {{JobAt(s, p, i) : i \in 1..Size[p]} : p \in 1..5}
Job == UNION {StepJobs(s) : s \in 0..(MaxSteps - 1)}
InnerJobs(s, ub) ==
    {[kind |-> "inner_step", step |-> s, ub |-> ub, r |-> r] : r \in 0..(Replicas - 1)}
NoJob == [kind |-> "none", step |-> 0, ub |-> 0, r |-> 0]

\* Artifact URIs; hk is 0 where the key does not name the worker.
Uri(name, s, ub, r, hk) == [name |-> name, step |-> s, ub |-> ub, r |-> r, hk |-> hk]
Weights(s, ub) == Uri("weights", s, ub, 0, 0)
Outputs(j, hk) ==
    CASE j.kind = "forward_pass" -> {Uri("target", j.step, ub, 0, 0) : ub \in Ubs}
      [] j.kind = "inner_step"   -> {Uri("delta", j.step, j.ub, j.r, hk)}
      [] j.kind = "reduce"       -> {Uri("reduced", j.step, j.ub, 0, hk)}
      [] j.kind = "outer_step"   -> {Weights(j.step + 1, j.ub)}
      [] j.kind = "eval"         -> {Uri("metrics", j.step, 0, 0, 0)}

\* What a reference's crypto policy asks of the stored bytes: plain bytes, an
\* envelope, an envelope of a signer called "assigned_hotkey", or (a hotkey)
\* an envelope signed by it.
Plain == 0
Enveloped == -1
Literal == -2
OutputNeed(hk) ==
    CASE Policy = "none" -> Plain [] Policy = "signed" -> Enveloped [] OTHER -> hk
WeightRef(s, ub) ==
    [uri |-> Weights(s, ub),
     need |-> CASE Policy = "none" \/ s = 0 -> Plain
                [] Policy = "signed" -> Enveloped
                [] OTHER -> Literal]

VARIABLES
    pc, step, phase, at,  \* where run_loop is: at is the job of the phase
    accounts, inflight,   \* the quota book
    emitted,    \* self.emitted
    queue,      \* the manager's queue: a set of [job, hk]
    published,  \* the queue snapshot in the bucket
    state,      \* current_step of state.json, -1 if there is none
    manifest,   \* manifest[j]: [hk, ins], hk = 0 if there is none
    made,       \* artifacts in the bucket: [uri, by], by = 0 for plain bytes
    on,         \* the miners that run
    doing,      \* doing[hk]: the job in the miner's executor
    left,       \* left[hk]: its outputs still to PUT
    completed,  \* completed[hk]: the persisted completed-jobs cache
    cache,      \* cache[hk]: URIs in the executor's output cache
    faults      \* what is spent of MaxFaults

place == <<pc, step, phase, at>>
book == <<accounts, inflight, emitted, queue>>
miners == <<on, doing, left, completed, cache>>
vars == <<place, book, published, state, manifest, made, miners, faults>>

NoManifest == [hk |-> 0, ins |-> {}]
Idle == [hk \in Hotkeys |-> 0]

Init ==
    /\ pc = "boot" /\ step = 0 /\ phase = 1 /\ at = 1
    /\ accounts = {} /\ inflight = Idle /\ emitted = {}
    /\ queue = {} /\ published = {} /\ state = -1
    /\ manifest = [j \in Job |-> NoManifest] /\ made = {}
    /\ on \in SUBSET Hotkeys
    /\ doing = [hk \in Hotkeys |-> NoJob]
    /\ left = [hk \in Hotkeys |-> {}]
    /\ completed = [hk \in Hotkeys |-> {}]
    /\ cache = [hk \in Hotkeys |-> {}]
    /\ faults = 0

Uris == {x.uri : x \in made}
Current == JobAt(step, phase, at)

-----------------------------------------------------------------------------
(* The manager.                                                            *)

\* run_loop starts: bootstrap() when there is no state.json, weights first ...
Boot ==
    /\ pc = "boot"
    /\ IF state = -1
         THEN /\ made' = made \cup {[uri |-> Weights(0, ub), by |-> 0] : ub \in Ubs}
              /\ pc' = "bootstrap"
         ELSE pc' = "workers" /\ UNCHANGED made
    /\ UNCHANGED <<step, phase, at, book, published, state, manifest, miners, faults>>

\* ... and the state last.
BootState ==
    /\ pc = "bootstrap"
    /\ state' = 0 /\ pc' = "workers"
    /\ UNCHANGED <<step, phase, at, book, published, manifest, made, miners, faults>>

\* wait_for_workers returns (a heartbeat outlives a dead miner, so hotkeys that
\* are off may be seen) and the step is read from state.json; at the end run_loop
\* returns through its finally, which flushes the queue.
WaitForWorkers ==
    /\ pc = "workers"
    /\ \E seen \in SUBSET Hotkeys :
        seen # {} /\ on \subseteq seen /\ accounts' = accounts \cup seen
    /\ step' = state /\ phase' = 1 /\ at' = 1
    /\ IF state >= MaxSteps
         THEN pc' = "done" /\ published' = queue
         ELSE pc' = "emit" /\ UNCHANGED published
    /\ UNCHANGED <<inflight, emitted, queue, state, manifest, made, miners, faults>>

Depth(q) == [hk \in Hotkeys |-> Cardinality({x \in q : x.hk = hk})]
Remove(q, j) == {x \in q : x.job # j}
Pickable == Candidates(accounts, inflight, Depth(queue))

\* Mutant: the replicas of every step of this process.
DeltasOfRun(j) == {i \in emitted : i.kind = "inner_step" /\ i.ub = j.ub}

\* The inner jobs whose outputs a reduce reads: those this process emitted.
Deltas(j) == {i \in emitted : i.kind = "inner_step" /\ i.step = j.step /\ i.ub = j.ub}

\* Inputs of a job about to be emitted: fixed keys, and what load_job finds in
\* the manifests of the phases before.
Inputs(j) ==
    CASE j.kind = "forward_pass" -> {WeightRef(j.step, ub) : ub \in Ubs}
      [] j.kind = "inner_step" ->
            {WeightRef(j.step, j.ub),
             [uri |-> Uri("target", j.step, j.ub, 0, 0),
              need |-> OutputNeed(manifest[JobAt(j.step, 1, 1)].hk)]}
      [] j.kind = "reduce" ->
            {[uri |-> Uri("delta", i.step, i.ub, i.r, manifest[i].hk),
              need |-> OutputNeed(manifest[i].hk)] : i \in Deltas(j)}
      [] j.kind = "outer_step" ->
            {WeightRef(j.step, j.ub),
             [uri |-> Uri("reduced", j.step, j.ub, 0, manifest[JobAt(j.step, 3, j.ub + 1)].hk),
              need |-> Plain]}
      [] j.kind = "eval" -> {WeightRef(j.step + 1, ub) : ub \in Ubs}

\* emit_job up to the PUT of the manifest.
EmitManifest ==
    /\ pc = "emit" /\ Pickable # {}
    /\ LET hk == PickWorker(Pickable, inflight) IN
        /\ inflight' = Reserve(inflight, hk)
        /\ manifest' = [manifest EXCEPT ![Current] = [hk |-> hk, ins |-> Inputs(Current)]]
    /\ pc' = "add"
    /\ UNCHANGED <<step, phase, at, accounts, emitted, queue,
                   published, state, made, miners, faults>>

\* Mutant: an entry that is in the queue already stays as it is.
EmitAddOnce ==
    /\ pc = "add"
    /\ emitted' = emitted \cup {Current}
    /\ queue' = IF \E x \in queue : x.job = Current THEN queue
                ELSE queue \cup {[job |-> Current, hk |-> manifest[Current].hk]}
    /\ IF at < Size[phase]
         THEN pc' = "emit" /\ at' = at + 1
         ELSE pc' = "wait" /\ at' = 1
    /\ UNCHANGED <<step, phase, accounts, inflight,
                   published, state, manifest, made, miners, faults>>

\* The rest of emit_job; after the last job of the phase the waiting begins.
EmitAdd ==
    /\ pc = "add"
    /\ emitted' = emitted \cup {Current}
    /\ queue' = Remove(queue, Current) \cup {[job |-> Current, hk |-> manifest[Current].hk]}
    /\ IF at < Size[phase]
         THEN pc' = "emit" /\ at' = at + 1
         ELSE pc' = "wait" /\ at' = 1
    /\ UNCHANGED <<step, phase, accounts, inflight,
                   published, state, manifest, made, miners, faults>>

\* pick_worker raises: the RuntimeError ends the process, after a flush.
NoRoom ==
    /\ pc = "emit" /\ Pickable = {}
    /\ pc' = "down" /\ published' = queue
    /\ UNCHANGED <<step, phase, at, book, state, manifest, made, miners, faults>>

One(hk) == [h \in Hotkeys |-> IF h = hk THEN 1 ELSE 0]

\* release and remove of wait_outputs, on success and on timeout.
LetGo(j) ==
    /\ inflight' = Release(inflight, One(manifest[j].hk))
    /\ queue' = Remove(queue, j)

\* Where run_step goes after the wait for one job.
Advance ==
    IF at < Size[phase] THEN at' = at + 1 /\ UNCHANGED <<pc, phase>>
    ELSE /\ at' = 1
         /\ IF phase < 5 THEN pc' = "emit" /\ phase' = phase + 1
            ELSE pc' = "save" /\ UNCHANGED phase

\* Mutant: only the first job of a phase is waited for.
WaitFirstOutputs ==
    /\ pc = "wait"
    /\ at = 1 => Outputs(Current, manifest[Current].hk) \subseteq Uris
    /\ LetGo(Current) /\ Advance
    /\ UNCHANGED <<step, accounts, emitted, published, state, manifest, made, miners, faults>>

\* Mutant: a job left by an earlier process stays in the queue.
WaitOutputsKeeps ==
    /\ pc = "wait" /\ Outputs(Current, manifest[Current].hk) \subseteq Uris
    /\ IF \E hk \in Hotkeys : Current \in completed[hk]
         THEN UNCHANGED <<inflight, queue>> ELSE LetGo(Current)
    /\ Advance
    /\ UNCHANGED <<step, accounts, emitted, published, state, manifest, made, miners, faults>>

\* wait_outputs finds every output of the job.
WaitOutputs ==
    /\ pc = "wait" /\ Outputs(Current, manifest[Current].hk) \subseteq Uris
    /\ LetGo(Current) /\ Advance
    /\ UNCHANGED <<step, accounts, emitted, published, state, manifest, made, miners, faults>>

\* Mutant: the state is written a step ahead.
SaveStateAhead ==
    /\ pc = "save"
    /\ state' = step + 2 /\ pc' = "workers"
    /\ UNCHANGED <<step, phase, at, book, published, manifest, made, miners, faults>>

SaveState ==
    /\ pc = "save"
    /\ state' = step + 1 /\ pc' = "workers"
    /\ UNCHANGED <<step, phase, at, book, published, manifest, made, miners, faults>>

\* TimeoutError of wait_for_workers, of run_loop or of wait_outputs, which lets
\* the job go first; stop() flushes the queue.
TimesOut ==
    /\ faults < MaxFaults /\ pc \in {"workers", "wait"}
    /\ faults' = faults + 1
    /\ IF pc = "wait" THEN LetGo(Current) ELSE UNCHANGED <<inflight, queue>>
    /\ pc' = "down" /\ published' = queue'
    /\ UNCHANGED <<step, phase, at, accounts, emitted, state, manifest, made, miners>>

\* The process is killed, without a last flush.
Kill ==
    /\ faults < MaxFaults /\ pc \notin {"down", "done"}
    /\ faults' = faults + 1
    /\ pc' = "down"
    /\ UNCHANGED <<step, phase, at, book, published, state, manifest, made, miners>>

\* A new process: __init__ reconciles the queue and knows nothing else.
Restart ==
    /\ pc = "down"
    /\ pc' = "boot" /\ step' = 0 /\ phase' = 1 /\ at' = 1
    /\ accounts' = {} /\ inflight' = Idle /\ emitted' = {}
    /\ queue' = published
    /\ UNCHANGED <<published, state, manifest, made, miners, faults>>

\* The background flush.
Publish ==
    /\ pc \notin {"down", "done"} /\ published # queue
    /\ published' = queue
    /\ UNCHANGED <<place, book, state, manifest, made, miners, faults>>

-----------------------------------------------------------------------------
(* The miners.                                                             *)

\* Entries that tick() does not pass over.
Mine(hk) ==
    {x.job : x \in {y \in published :
        y.hk = hk /\ y.job \notin completed[hk] /\ manifest[y.job].hk = hk}}

AllThere(hk, j) == Outputs(j, hk) \subseteq Uris

\* decode_input gets a tensor: from the output cache, or from bytes that are
\* what the reference's policy asks for.
Readable(hk, ref) ==
    \E x \in made :
        /\ x.uri = ref.uri
        /\ \/ ref.uri \in cache[hk]
           \/ ref.need = Enveloped /\ x.by # 0
           \/ ref.need \in Hotkeys \cup {Plain} /\ x.by = ref.need

\* tick(): the executor gets a job whose inputs it can read.
Take(hk) ==
    /\ hk \in on /\ doing[hk] = NoJob
    /\ \E j \in Mine(hk) :
        /\ ~(Direct /\ AllThere(hk, j))
        /\ \A ref \in manifest[j].ins : Readable(hk, ref)
        /\ doing' = [doing EXCEPT ![hk] = j]
        /\ left' = [left EXCEPT ![hk] = Outputs(j, hk)]
    /\ UNCHANGED <<place, book, published, state, manifest, made, on, completed, cache, faults>>

\* In direct mode a job whose outputs exist is only marked.
Skip(hk) ==
    /\ Direct /\ hk \in on /\ doing[hk] = NoJob
    /\ \E j \in Mine(hk) :
        /\ AllThere(hk, j)
        /\ completed' = [completed EXCEPT ![hk] = @ \cup {j}]
    /\ UNCHANGED <<place, book, published, state, manifest, made, on, doing, left, cache, faults>>

\* The executor's thread pool PUTs the outputs in any order.
PutOutput(hk) ==
    /\ \E a \in left[hk] :
        /\ made' = {x \in made : x.uri # a}
                     \cup {[uri |-> a, by |-> IF Policy = "none" THEN 0 ELSE hk]}
        /\ left' = [left EXCEPT ![hk] = @ \ {a}]
    /\ UNCHANGED <<place, book, published, state, manifest, on, doing, completed, cache, faults>>

\* The outputs are cached, the receipt is PUT and the job is completed.  The
\* cache is followed only where a policy makes it matter.
Finish(hk) ==
    /\ doing[hk] # NoJob /\ left[hk] = {}
    /\ completed' = [completed EXCEPT ![hk] = @ \cup {doing[hk]}]
    /\ cache' = IF Policy = "none" THEN cache
                ELSE [cache EXCEPT ![hk] = @ \cup Outputs(doing[hk], hk)]
    /\ doing' = [doing EXCEPT ![hk] = NoJob]
    /\ UNCHANGED <<place, book, published, state, manifest, made, on, left, faults>>

\* The miner's process dies ...
Crash(hk) ==
    /\ faults < MaxFaults /\ hk \in on
    /\ faults' = faults + 1
    /\ on' = on \ {hk}
    /\ doing' = [doing EXCEPT ![hk] = NoJob]
    /\ left' = [left EXCEPT ![hk] = {}]
    /\ cache' = [cache EXCEPT ![hk] = {}]
    /\ UNCHANGED <<place, book, published, state, manifest, made, completed>>

\* ... and starts, for the first time or again, with its completed jobs.
Start(hk) ==
    /\ hk \notin on
    /\ on' = on \cup {hk}
    /\ UNCHANGED <<place, book, published, state, manifest, made,
                   doing, left, completed, cache, faults>>

-----------------------------------------------------------------------------
Manage ==
    \/ Boot \/ BootState \/ WaitForWorkers \/ EmitManifest \/ EmitAdd \/ NoRoom
    \/ WaitOutputs \/ SaveState \/ Restart

Mining(hk) == Take(hk) \/ Skip(hk) \/ PutOutput(hk) \/ Finish(hk) \/ Start(hk)

Next ==
    \/ Manage \/ Publish \/ TimesOut \/ Kill
    \/ \E hk \in Hotkeys : Mining(hk) \/ Crash(hk)

Spec == Init /\ [][Next]_vars

\* The manager (Docker restarts it), its flush thread and every miner run.
FairSpec ==
    /\ Spec
    /\ WF_vars(Manage) /\ WF_vars(Publish)
    /\ \A hk \in Hotkeys : WF_vars(Mining(hk))

-----------------------------------------------------------------------------
Artifact == [name : {"weights", "target", "delta", "reduced", "metrics"}, step : 0..MaxSteps,
             ub : Ubs, r : 0..(Replicas - 1), hk : Hotkeys \cup {0}]

Ref == [uri : Artifact, need : Hotkeys \cup {Plain, Enveloped, Literal}]

TypeOK ==
    /\ pc \in {"boot", "bootstrap", "workers", "emit", "add", "wait", "save", "down", "done"}
    /\ step \in 0..MaxSteps /\ phase \in 1..5 /\ at \in 1..Size[phase]
    /\ accounts \subseteq Hotkeys /\ inflight \in [Hotkeys -> Nat] /\ emitted \subseteq Job
    /\ queue \subseteq [job : Job, hk : Hotkeys]
    /\ published \subseteq [job : Job, hk : Hotkeys]
    /\ state \in -1..MaxSteps
    /\ manifest \in [Job -> [hk : Hotkeys \cup {0}, ins : SUBSET Ref]]
    /\ made \subseteq [uri : Artifact, by : Hotkeys \cup {0}]
    /\ on \subseteq Hotkeys /\ doing \in [Hotkeys -> Job \cup {NoJob}]
    /\ left \in [Hotkeys -> SUBSET Artifact]
    /\ completed \in [Hotkeys -> SUBSET Job] /\ cache \in [Hotkeys -> SUBSET Artifact]
    /\ faults \in 0..MaxFaults

\* The last step whose weights, and those of every step before, are in the
\* bucket: what DurableRun calls the frontier.
Frontier == CHOOSE k \in 0..MaxSteps :
    /\ \A s \in 1..k, ub \in Ubs : Weights(s, ub) \in Uris
    /\ k < MaxSteps => \E ub \in Ubs : Weights(k + 1, ub) \notin Uris

\* emit_reduce walks self.emitted, which a restart empties, and reads manifests
\* that an earlier process may have written: still, a reduce in the bucket has
\* exactly one delta of every replica of its microbatch.
ReduceReadsEveryReplica ==
    \A j \in Job : (j.kind = "reduce" /\ manifest[j].hk # 0) =>
        /\ Cardinality(manifest[j].ins) = Replicas
        /\ \A i \in InnerJobs(j.step, j.ub) : \E ref \in manifest[j].ins :
              /\ ref.uri.name = "delta" /\ ref.uri.step = i.step
              /\ ref.uri.ub = i.ub /\ ref.uri.r = i.r

\* run_step emits a phase only when the one before is there, so the inputs of
\* an emitted job exist, whoever is assigned it and whatever was redone.
EmittedIsRunnable ==
    \A j \in emitted : \A ref \in manifest[j].ins : ref.uri \in Uris

\* When a step is over, by however many processes, its jobs have left the
\* queue and all quota is given back.
StepLeavesNothing ==
    pc = "save" => inflight = Idle /\ \A x \in queue : x.job \notin StepJobs(step)

\* After finitely many kills, timeouts and crashes the run gets to its end.
RunEnds == <>(pc = "done")
==============================================================================
