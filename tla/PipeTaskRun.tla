---------------------------- MODULE PipeTaskRun -----------------------------
(***************************************************************************)
(* Who sets up a streaming run: processes that bootstrap runs in a bucket  *)
(* and build the stage graphs from what they find there.  A process keeps  *)
(* gpt_pipe's module globals until it exits; a run keeps its config, its   *)
(* static blobs and its weights.  What an epoch then does with them, every *)
(* job through evaluate(), is the function EpochAccepted.                  *)
(***************************************************************************)
EXTENDS LegacyPipeTasks, FiniteSets

CONSTANTS Procs, Runs, TaskOf, Envs, Modes, MaxLaunches

VARIABLES
    proc,       \* per process: where it is, its run, mode, environment and globals
    store,      \* per run: config, static blobs, epoch-0 weights
    seeds,      \* history: the environments a run was seeded under
    handled,    \* history: the runs a process has handled
    launches
vars == <<proc, store, seeds, handled, launches>>

Empty == [cfg |-> << >>, blobs |-> << >>, W |-> << >>]
Down == [pc |-> "down", run |-> "none", mode |-> "none", env |-> << >>, g |-> Defaults, built |-> << >>]
V2(mode) == mode \in {"v2_bootstrap", "v2_orchestrator"}
\* pipe_train and pipe_demo read nothing from the environment.
EnvsOf(r) == IF TaskOf[r] = "gpt_pipe" THEN Envs ELSE {<< >>}

Init ==
    /\ proc = [p \in Procs |-> Down]
    /\ store = [r \in Runs |-> Empty]
    /\ seeds = [r \in Runs |-> {}]
    /\ handled = [p \in Procs |-> {}]
    /\ launches = 0

-----------------------------------------------------------------------------
(* Processes.                                                              *)

\* A process starts: the globals are those of a fresh import.
Launch(p, r, env, mode) ==
    /\ proc[p].pc = "down" /\ launches < MaxLaunches
    /\ proc' = [proc EXCEPT ![p] = [Down EXCEPT !.pc = "started", !.run = r, !.env = env, !.mode = mode]]
    /\ handled' = [handled EXCEPT ![p] = {r}]
    /\ launches' = launches + 1
    /\ UNCHANGED <<store, seeds>>

\* The same process launches another run, with another environment.
Relaunch(p, r, env) ==
    /\ proc[p].pc = "built" /\ launches < MaxLaunches
    /\ proc' = [proc EXCEPT ![p].pc = "started", ![p].run = r, ![p].env = env, ![p].built = << >>]
    /\ handled' = [handled EXCEPT ![p] = @ \cup {r}]
    /\ launches' = launches + 1
    /\ UNCHANGED <<store, seeds>>

\* The task's bootstrap(): the process's new globals and the run's new store.
Bootstrapped(task, mode, st, g, env) ==
    CASE task = "gpt_pipe" /\ ~V2(mode) -> GptBootstrap(st, g, env)
      [] task = "gpt_pipe" /\ V2(mode) -> V2GptBootstrap(st, g, env)
      [] task = "pipe_train" -> [g |-> g, st |-> IF V2(mode) THEN V2TrainBootstrap(st) ELSE TrainBootstrap(st)]
      [] task = "pipe_demo" -> [g |-> g, st |-> IF V2(mode) THEN V2DemoBootstrap(st) ELSE DemoBootstrap(st)]

\* The check for an existing run reads the v3 key of the run's config; the
\* streaming tasks write theirs at the v2 key.
Present(r) == "v3_config" \in DOMAIN store[r].blobs

\* StreamingRunManager.bootstrap up to build_streaming_inputs; a v2
\* orchestrator never bootstraps.
Skips(p) == proc[p].mode = "v2_orchestrator" \/ (proc[p].mode = "stress" /\ Present(proc[p].run))
Bootstrap(p) ==
    /\ proc[p].pc = "started"
    /\ LET r == proc[p].run
       IN  \/ /\ Skips(p)
              /\ proc' = [proc EXCEPT ![p].pc = "seeded"]
              /\ UNCHANGED <<store, seeds>>
           \/ /\ ~Skips(p)
              /\ \E b \in {Bootstrapped(TaskOf[r], proc[p].mode, store[r], proc[p].g, proc[p].env)} :
                     /\ store' = [store EXCEPT ![r] = b.st]
                     /\ proc' = [proc EXCEPT ![p].pc = "seeded", ![p].g = b.g]
              /\ seeds' = [seeds EXCEPT ![r] = @ \cup {<<V2(proc[p].mode), proc[p].env>>}]
    /\ UNCHANGED <<handled, launches>>

\* build_streaming_inputs(): the globals the graphs are built from.
Built(task, mode, g, cfg) ==
    CASE task = "gpt_pipe" -> IF V2(mode) THEN V2GptBuild(g, cfg) ELSE GptBuild(g, cfg)
      [] task = "pipe_train" -> IF V2(mode) THEN V2TrainBuild(cfg) ELSE TrainBuild(cfg)
      [] task = "pipe_demo" -> IF V2(mode) THEN V2DemoBuild(cfg) ELSE DemoBuild(cfg)
Build(p) ==
    /\ proc[p].pc = "seeded" /\ proc[p].mode # "v2_bootstrap"
    /\ LET r == proc[p].run
       IN  \E b \in {Built(TaskOf[r], proc[p].mode, proc[p].g, store[r].cfg)} :
               proc' = [proc EXCEPT ![p].pc = "built", ![p].built = b,
                                    ![p].g = IF TaskOf[r] = "gpt_pipe" THEN b.g ELSE @]
    /\ UNCHANGED <<store, seeds, handled, launches>>

Exit(p) ==
    /\ proc[p].pc = "built" \/ (proc[p].pc = "seeded" /\ proc[p].mode = "v2_bootstrap")
    /\ proc' = [proc EXCEPT ![p] = Down]
    /\ handled' = [handled EXCEPT ![p] = {}]
    /\ UNCHANGED <<store, seeds, launches>>

Next ==
    \E p \in Procs :
        \/ \E r \in Runs : \E env \in EnvsOf(r), mode \in Modes : Launch(p, r, env, mode)
        \/ \E r \in Runs : \E env \in EnvsOf(r) : Relaunch(p, r, env)
        \/ Bootstrap(p) \/ Build(p) \/ Exit(p)

Spec == Init /\ [][Next]_vars

-----------------------------------------------------------------------------
(* The jobs of an epoch over a store.  Every microbatch has the same       *)
(* shapes: one stands for all of them.                                     *)

Only(names, f) == [n \in names \cap DOMAIN f |-> f[n]]
\* The static inputs of a stage: tokens at the head and the tail, the target
\* at the tail.
StaticInputs(task, b, st, s) ==
    CASE task = "gpt_pipe" /\ (IsHead(s) \/ IsTail(b.g, s)) ->
             IF b.shared THEN "tokens" :> SharedCorpus ELSE Only({"tokens"}, st.blobs)
      [] task = "pipe_train" /\ IsTail(b.g, s) -> Only({"target"}, st.blobs)
      [] OTHER -> << >>
Weights(st, s) == IF s \in DOMAIN st.W THEN "W" :> st.W[s] ELSE << >>
Trains(task) == task # "pipe_demo"

Forward(task, v2, b, st, s, x) ==
    LET in == (IF s = 0 THEN << >> ELSE "x" :> x)
              @@ (IF Trains(task) THEN Weights(st, s) ELSE << >>) @@ StaticInputs(task, b, st, s)
        blobs == IF Trains(task) THEN st.blobs ELSE Weights(st, s)
        graph == CASE task = "gpt_pipe" -> IF v2 THEN V2FwdGraph(b.g, s, in, blobs) ELSE FwdGraph(b.g, s, in, blobs)
                   [] task = "pipe_train" -> IF v2 THEN V2TrainFwd(s, in) ELSE TrainFwd(s, in)
                   [] task = "pipe_demo" -> IF IsTail(b.g, s)
                                            THEN IF v2 THEN V2DemoDone(in, blobs) ELSE DemoDone(in, blobs)
                                            ELSE IF v2 THEN V2DemoStage(s, in, blobs) ELSE DemoStage(s, in, blobs)
        outputs == {"x"} \cup IF IsTail(b.g, s) THEN {IF Trains(task) THEN "loss" ELSE "done"} ELSE {}
    IN  Bind(graph, LAMBDA gr : [ok |-> outputs \subseteq DOMAIN gr.out /\ Evaluates(gr, in, blobs, {"mb_seed"}),
                                 out |-> gr.out])
Backward(task, v2, b, st, s, x_in, dx) ==
    LET in == Weights(st, s) @@ (IF s = 0 THEN << >> ELSE "x_in" :> x_in)
              @@ (IF IsTail(b.g, s) THEN << >> ELSE "dL_dx_out" :> dx) @@ StaticInputs(task, b, st, s)
        graph == CASE task = "gpt_pipe" -> IF v2 THEN V2BwdGraph(b.g, s, in, st.blobs) ELSE BwdGraph(b.g, s, in, st.blobs)
                   [] task = "pipe_train" -> IF v2 THEN V2TrainBwd(s, in) ELSE TrainBwd(s, in)
        outputs == {"dW"} \cup IF s = 0 THEN {} ELSE {"dL_dx_in"}
    IN  Bind(graph, LAMBDA gr : [ok |-> outputs \subseteq DOMAIN gr.out /\ Evaluates(gr, in, st.blobs, {"mb_seed"}),
                                 out |-> gr.out])
Outer(task, v2, b, st, s, dW) ==
    LET in == [n \in DwNames(b.M) |-> dW] @@ (IF s \in DOMAIN st.W THEN <<"W", 0>> :> st.W[s] ELSE << >>)
        graph == CASE task = "gpt_pipe" -> IF v2 THEN V2OuterGraph(b.g, s, b.M, in) ELSE OuterGraph(b.g, s, b.M, in)
                   [] task = "pipe_train" -> IF v2 THEN V2TrainOuter(b.M, in) ELSE TrainOuter(b.M, in)
    IN  Bind(graph, LAMBDA gr : [ok |-> Evaluates(gr, in, NoBlobs, {}), out |-> gr.out])

\* Forward through the stages, backward through them, then every outer step,
\* whose result must be weights the next epoch's jobs accept.
EpochAccepted(task, v2, b, st) ==
    LET stages == [i \in 1..b.g.N_STAGES |-> i - 1]
        fwd == Unroll(LAMBDA acc, s :
                          Bind(Forward(task, v2, b, st, s, IF s = 0 THEN Bad ELSE acc.xs[s]), LAMBDA f :
                              [ok |-> acc.ok /\ f.ok, xs |-> Append(acc.xs, Arg(f.out, "x"))]),
                      [ok |-> TRUE, xs |-> << >>], stages)
        bwd(xs) == Unroll(LAMBDA acc, s :
                              Bind(Backward(task, v2, b, st, s, IF s = 0 THEN Bad ELSE xs[s], acc.dx), LAMBDA k :
                                  [ok |-> acc.ok /\ k.ok, dx |-> Arg(k.out, "dL_dx_in"),
                                   dW |-> (s :> k.out["dW"]) @@ acc.dW]),
                          [ok |-> TRUE, dx |-> Bad, dW |-> << >>], Reverse(stages))
        stepped(dW) == \A s \in Range(stages) :
                           \E o \in {Outer(task, v2, b, st, s, dW[s])} : o.ok /\ Matches(st.W[s], o.out["W_new"])
    IN  \E f \in {fwd} : f.ok /\ (Trains(task) => \E k \in {bwd(f.xs)} : k.ok /\ stepped(k.dW))

-----------------------------------------------------------------------------
(* Properties.                                                             *)

\* The process has handled one run only, and that run was seeded under one
\* environment.
Undisturbed(p) == handled[p] = {proc[p].run} /\ Cardinality(seeds[proc[p].run]) = 1

\* Every job of an epoch passes evaluate(): the graphs that
\* build_streaming_inputs makes from a run's config fit the blobs and weights
\* bootstrap wrote, and one another, and the outer step gives weights the
\* next epoch accepts.  Process and run are undisturbed; bootstrapping the run
\* again under the same environment writes what is there.
BuildsRunnable ==
    \A p \in Procs :
        LET me == proc[p]
        IN  me.pc = "seeded" /\ proc'[p].pc = "built" /\ Undisturbed(p)
            => \E b \in {proc'[p].built} : EpochAccepted(TaskOf[me.run], V2(me.mode), b, store[me.run])
EpochRuns == [][BuildsRunnable]_vars

\* A process that bootstrap()ed nothing builds the run it finds: every
\* dimension and flag of the config reaches the globals of the process,
\* whatever environment it was started in (build_streaming_inputs reads the
\* config because "module globals don't survive across process boundaries").
BuildsConfigured ==
    \A p \in Procs :
        LET r == proc[p].run
        IN  /\ proc[p].pc = "seeded" /\ proc'[p].pc = "built"
            /\ Undisturbed(p) /\ TaskOf[r] = "gpt_pipe" /\ store[r].cfg # << >>
            => /\ proc'[p].built.M = store[r].cfg.N_MB
               /\ \A n \in DOMAIN Defaults \ {"N_MB"} : proc'[p].g[n] = store[r].cfg[n]
BuiltIsConfigured == [][BuildsConfigured]_vars

\* What _bootstrap_artifacts_present promises: a stress emitter that finds a
\* bootstrapped run attaches to it and leaves its config, blobs and weights.
AttachKeeps ==
    \A p \in Procs :
        LET r == proc[p].run
        IN  /\ proc[p].mode = "stress" /\ proc[p].pc = "started" /\ proc'[p].pc = "seeded"
            /\ store[r].cfg # << >>
            => store'[r] = store[r]
AttachKeepsRun == [][AttachKeeps]_vars
=============================================================================
