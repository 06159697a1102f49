--------------------------- MODULE MCStreamingSetup ---------------------------
(***************************************************************************)
(* StreamingRun and, beside it, the processes that set up streaming runs   *)
(* (PipeTaskRun): `part` says which of the two steps.                      *)
(***************************************************************************)
EXTENDS MCStreamingRun, TLC

CONSTANTS p1, p2

VARIABLES part, proc, artifacts, seeds, handled, launches

\* Environments that combine the knobs: ranks, int8 wires, tied embeddings,
\* blocks per stage, local steps, and the dimensions themselves.
PipeEnvs == {
    << >>,
    [K |-> 40, K_DY |-> 10, INT8 |-> TRUE, tokens_uri |-> TRUE],
    [K_INNER |-> 2, TIED |-> TRUE, N_BLOCKS |-> 2, K |-> 16],
    [D |-> 64, N_HEAD |-> 4, D_FF |-> 96, B |-> 2, T |-> 16, N_STAGES |-> 1, N_MB |-> 1,
     TIED |-> TRUE, K |-> 0],
    [D |-> 64, N_HEAD |-> 4, D_FF |-> 96, N_STAGES |-> 3, N_MB |-> 0, K |-> 8,
     INT8 |-> TRUE, TIED |-> TRUE]}

\* Two processes, native and v2, and a run of each task.
Pipes == INSTANCE PipeTaskRun WITH
    Procs <- {p1, p2}, Runs <- {"gpt", "train", "demo"}, Envs <- PipeEnvs,
    TaskOf <- [gpt |-> "gpt_pipe", train |-> "pipe_train", demo |-> "pipe_demo"],
    Modes <- {"train", "stress", "v2_bootstrap", "v2_orchestrator"}, MaxLaunches <- 2,
    store <- artifacts

pipes == <<proc, artifacts, seeds, handled, launches>>

MCInit == part \in {"run", "setup"} /\ Init /\ Pipes!Init

MCNext ==
    \/ part = "run" /\ Next /\ UNCHANGED <<part, pipes>>
    \/ part = "setup" /\ Pipes!Next /\ UNCHANGED <<part, vars>>

MCSpec == MCInit /\ [][MCNext]_<<part, vars, pipes>>

\* The fairness of StreamingRun, for the run in use.
MCFairSpec ==
    /\ MCSpec
    /\ WF_vars(part = "run" /\ Orchestrate)
    /\ WF_vars(part = "run" /\ Publish)
    /\ \A hk \in Hotkeys : WF_vars(part = "run" /\ Mining(hk))

\* The run gets to its end: its DAG has no cycle and newest-first never
\* starves an older job for good.
StreamingRunEnds == part = "run" => RunEnds

\* Every job of an epoch passes evaluate() on what bootstrap wrote.
EpochRuns == [][Pipes!BuildsRunnable]_pipes

\* A process that bootstrap()ed nothing builds the run it finds.
BuiltIsConfigured == [][Pipes!BuildsConfigured]_pipes

\* A stress emitter that finds a bootstrapped run leaves it as it is.
AttachKeepsRun == [][Pipes!AttachKeeps]_pipes
==============================================================================
