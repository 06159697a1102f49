---------------------------- MODULE RoundTaskRun ----------------------------
(***************************************************************************)
(* The data flow of a v2 round run: which tensors the jobs of a round read *)
(* and write in the bucket (schedule.py), and what a worker does with a    *)
(* job (worker.py, _maybe_pickup and _execute): it takes a job whose       *)
(* inputs all exist and whose outputs do not, evaluates the graph, which   *)
(* may raise, and puts the outputs in parallel, so that a worker that      *)
(* stops midway leaves some of them behind.  Workers look at the rounds    *)
(* around the current one, so the data alone orders the jobs.              *)
(*                                                                         *)
(* store: the bucket, a tensor per key; refused: the jobs whose evaluation *)
(* raised; stops: workers stopped in the middle of their puts.             *)
(***************************************************************************)
EXTENDS RoundTasks, FiniteSets

CONSTANTS Tasks,            \* the round tasks to run
          MaxRounds,        \* rounds of a run
          Workers,          \* pinned workers of every UB
          MicrobatchBound,  \* microbatches per round, at most
          MaxStops          \* workers that may stop midway
ASSUME RoundTaskAssumption ==
    /\ Tasks \subseteq RoundTaskNames
    /\ {MaxRounds, Workers, MicrobatchBound} \subseteq Nat \ {0} /\ MaxStops \in Nat

VARIABLES task, store, refused, stops
vars == <<task, store, refused, stops>>

UBs(t) == 0..(ParamsOf[t].n_ub - 1)
Replicas(t) == 0..(ParamsOf[t].replicas - 1)
Microbatches(t) ==
    0..((IF ParamsOf[t].n_microbatches < MicrobatchBound THEN ParamsOf[t].n_microbatches ELSE MicrobatchBound) - 1)
Rounds == 0..(MaxRounds - 1)
Has(keys) == keys \subseteq DOMAIN store

Init ==
    /\ task \in Tasks
    /\ store = Bootstrap[task]
    /\ refused = {} /\ stops = 0

-----------------------------------------------------------------------------
(* The jobs of a round of task t: the keys their manifests bind to input   *)
(* and output names, and the params they carry.                            *)

UbOf == [weights_0 |-> 0, weights_1 |-> 1, weights_2 |-> 2, weights_3 |-> 3]
CutOf == [target_0 |-> 0, target_1 |-> 1, target_2 |-> 2, target_3 |-> 3]
ExtraNames == [bp_grad |-> <<"bp_grad_0", "bp_grad_1">>, scale |-> <<"scale_0", "scale_1">>]
NewState == [new_m |-> "m", new_v |-> "v"]
TargetKey(r, mb, cut) == <<"target", r, mb, cut>>
ExtraKey(s, r, mb, cut) == <<"extra", s, r, mb, cut>>
\* A replica's delta is keyed by the worker it is assigned to.
Assignee(t, mb, replica) == (mb * ParamsOf[t].replicas + replica) % Workers
DeltaKey(t, r, ub, mb, replica) == <<"delta", r, ub, mb, Assignee(t, mb, replica)>>
Deltas(t, r, ub) ==
    {DeltaKey(t, r, ub, mb, replica) : mb \in Microbatches(t), replica \in Replicas(t)} \cap DOMAIN store
StateKey(s, r, ub) == <<"state", s, r, ub>>
AllWeights(t, r) == [n \in {m \in DOMAIN UbOf : UbOf[m] \in UBs(t)} |-> <<"weights", r, UbOf[n]>>]
Job(t, id, inputs, outputs, params) ==
    [id |-> id, inputs |-> inputs, outputs |-> outputs, params |-> ParamsOf[t].common \cup params]

ForwardJob(t, r, mb) ==
    Job(t, <<"forward", r, mb>>, AllWeights(t, r),
        [n \in {m \in DOMAIN CutOf : CutOf[m] \in UBs(t)} |-> TargetKey(r, mb, CutOf[n])]
        @@ [n \in {ExtraNames[s][ub + 1] : s \in ParamsOf[t].extras, ub \in UBs(t)} |->
               CHOOSE key \in {ExtraKey(s, r, mb, ub) : s \in ParamsOf[t].extras, ub \in UBs(t)} :
                   ExtraNames[key[2]][key[5] + 1] = n],
        {"round_id", "mb"})
InnerJob(t, r, ub, mb, replica) ==
    Job(t, <<"inner", r, ub, mb, replica>>,
        [weights |-> <<"weights", r, ub>>, target |-> TargetKey(r, mb, ub)]
        @@ [s \in ParamsOf[t].extras |-> ExtraKey(s, r, mb, ub)],
        [delta |-> DeltaKey(t, r, ub, mb, replica)],
        {"ub", "mb", "replica", "replica_end_excl", "n_replicas", "n_microbatches"})
ReduceJob(t, r, ub) ==
    Job(t, <<"reduce", r, ub>>, SetToSeq(Deltas(t, r, ub)), [reduced |-> <<"reduced", r, ub>>], {"ub", "n_inputs"})
OuterJob(t, r, ub) ==
    Job(t, <<"outer", r, ub>>,
        [weights |-> <<"weights", r, ub>>, reduced_delta |-> <<"reduced", r, ub>>]
        @@ [s \in ParamsOf[t].state |-> StateKey(s, r, ub)] @@ [s \in ParamsOf[t].extras |-> ExtraKey(s, r, 0, ub)],
        [new_weights |-> <<"weights", r + 1, ub>>]
        @@ [n \in {m \in DOMAIN NewState : NewState[m] \in ParamsOf[t].state} |-> StateKey(NewState[n], r + 1, ub)],
        {"ub", "round_id"})
EvalJob(t, r) == Job(t, <<"eval", r>>, AllWeights(t, r + 1), [metrics |-> <<"metrics", r>>], {"round_id"})

\* The manifests of a round that do not depend on what was put so far.
Manifests ==
    [t \in Tasks, r \in Rounds |->
        {ForwardJob(t, r, mb) : mb \in Microbatches(t)}
        \cup {InnerJob(t, r, ub, mb, replica) : ub \in UBs(t), mb \in Microbatches(t), replica \in Replicas(t)}
        \cup {OuterJob(t, r, ub) : ub \in UBs(t)} \cup {EvalJob(t, r)}]
\* A reduction is emitted over the deltas listed once m_min per microbatch
\* are there; inner jobs still running then are of no use to anybody.
Reducible(r, ub) ==
    Cardinality(Deltas(task, r, ub)) >= ParamsOf[task].m_min * Cardinality(Microbatches(task))
Superseded(r, job) == job.id[1] = "inner" /\ <<"reduced", r, job.id[3]>> \in DOMAIN store
Jobs(r) ==
    {job \in Manifests[task, r] : ~Superseded(r, job)}
    \cup {ReduceJob(task, r, ub) : ub \in {u \in UBs(task) : Reducible(r, u)}}

-----------------------------------------------------------------------------
(* A worker takes a job.                                                   *)

Bound(keys) == {keys[n] : n \in DOMAIN keys}
\* Mutant: one output is enough for a job to count as done.
ReadyUnlessBegun(job) == Has(Bound(job.inputs)) /\ Bound(job.outputs) \cap DOMAIN store = {}

\* The job is picked up when its inputs exist and not all its outputs do.
Ready(job) == Has(Bound(job.inputs)) /\ ~Has(Bound(job.outputs))
Inputs(job) == [n \in DOMAIN job.inputs |-> store[job.inputs[n]]]
Blobs == [b \in {k[2] : k \in {key \in DOMAIN store : key[1] = "blob"}} |-> store[<<"blob", b>>]]
GraphOf(job, in) ==
    LET with_blobs(x) ==
            CASE job.id[1] = "forward" -> Forward(task, x)
              [] job.id[1] = "inner"   -> Inner(task, x, job.id[3], job.id[5])
              [] job.id[1] = "outer"   -> Outer(task, x, job.id[3])
              [] job.id[1] = "eval"    -> Eval(task, x)
    IN  IF job.id[1] = "reduce" THEN Reduce(task, in) ELSE Bind(in @@ Blobs, with_blobs)
\* What evaluate() makes of the job: {the graph}, or {} when it raises.
Evaluation(job, in) ==
    {g \in {GraphOf(job, in)} : Evaluates(g, in, Blobs, job.params) /\ DOMAIN job.outputs \subseteq DOMAIN g.out}

\* All outputs, or all but one when the worker stops between its puts.
Puts(outputs) ==
    {DOMAIN outputs} \cup (IF stops < MaxStops /\ Cardinality(DOMAIN outputs) > 1
                           THEN {DOMAIN outputs \ {n} : n \in DOMAIN outputs} ELSE {})
Landed(graph, outputs, names) ==
    [key \in {outputs[n] : n \in names} |-> graph.out[CHOOSE n \in names : outputs[n] = key]]
Execute(job) ==
    /\ Ready(job)
    /\ UNCHANGED task
    /\ \E results \in {Evaluation(job, in) : in \in {Inputs(job)}} :
           \/ \E g \in results, names \in Puts(job.outputs) :
                 /\ store' = Landed(g, job.outputs, names) @@ store
                 /\ stops' = IF names = DOMAIN job.outputs THEN stops ELSE stops + 1
                 /\ UNCHANGED refused
           \/ /\ results = {}
              /\ refused' = refused \cup {job.id}
              /\ UNCHANGED <<store, stops>>

Work == \E r \in Rounds : \E job \in Jobs(r) : Execute(job)
Evaluated == Has({<<"metrics", r>> : r \in Rounds})
CanWork == \E r \in Rounds : \E job \in Jobs(r) : Ready(job) /\ job.id \notin refused
\* Workers that find nothing to do go on polling.
Idle == ~CanWork /\ UNCHANGED vars

Next == Work \/ Idle
\* WF_vars(Work), with the condition under which a step of Work changes the
\* state, CanWork, spelled out: a job is ready that was not refused before.
Fairness == []<>~CanWork \/ []<><<TRUE>>_vars
Spec == Init /\ [][Next]_vars /\ Fairness

-----------------------------------------------------------------------------
(* Properties.                                                             *)

\* Every job the orchestrator emits for a task evaluates: the manifests of
\* schedule.py bind what the graphs of the task declare, with the dtype,
\* the shape and the params evaluate() checks, and every op accepts its
\* arguments, in every round and after any worker stopped midway.
NoJobRefused == refused = {}

\* The weights of the constrained UB never leave the subspace S, through
\* the local steps, the mean over any quorum of deltas and the outer step
\* ("preserving the subspace invariant", pluralis_full.build_outer_graph_adam).
ConstrainedStaysInS ==
    task \in Constrained =>
        \A r \in 0..MaxRounds :
            <<"weights", r, 1>> \in DOMAIN store => store[<<"weights", r, 1>>].sp = <<"in", "S">>

\* A run reaches the evaluation of its last round, whichever quorum each
\* reduction saw and whichever output a stopped worker left unwritten: the
\* job is taken again because not all its outputs exist.
RoundsComplete == <>Evaluated
=============================================================================
