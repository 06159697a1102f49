------------------------------- MODULE MCRounds -------------------------------
(***************************************************************************)
(* The run managers that go round by round, for TLC: RoundRun with the     *)
(* constants of the configuration and, beside it, the v2 orchestrators     *)
(* over two workers.  `program` says which of them is run; MCLegacy's      *)
(* `mode` then says which v2 program.                                      *)
(***************************************************************************)
EXTENDS MCRoundRun

CONSTANT Nil

VARIABLES
    program,
    objects, value, manifests, index, round, beats, alive, l_doing, l_cache, receipts,
    verdicts, l_faults, l_pc, seen, l_at, grace, started, elapsed, interrupted,
    epochIndex, evicted, evictedFile, retries, tries, retriedNow, mode

V2 == INSTANCE MCLegacy WITH
    Workers <- {1, 2}, doing <- l_doing, cache <- l_cache, faults <- l_faults,
    pc <- l_pc, at <- l_at

v2 == <<objects, value, manifests, index, round, beats, alive, l_doing, l_cache, receipts,
        verdicts, l_faults, l_pc, seen, l_at, grace, started, elapsed, interrupted,
        epochIndex, evicted, evictedFile, retries, tries, retriedNow, mode>>

MCInit ==
    /\ program \in {"v3", "v2"} /\ Init /\ V2!Init
    /\ program = "v2" => on = {}
    /\ program = "v3" => mode = "long"

MCNext ==
    \/ program = "v3" /\ Next /\ UNCHANGED <<program, v2>>
    \/ program = "v2" /\ V2!Next /\ UNCHANGED <<program, vars>>

\* The fairness of both, for the one that is run.
MCSpec ==
    /\ MCInit /\ [][MCNext]_<<program, vars, v2>>
    /\ WF_vars(program = "v3" /\ Manage) /\ WF_vars(program = "v3" /\ Publish)
    /\ \A hk \in Hotkeys : WF_vars(program = "v3" /\ Mining(hk))
    /\ WF_v2(program = "v2" /\ V2!Orchestrate)
    /\ WF_v2(program = "v2" /\ V2!GraceEnds)
    /\ WF_v2(program = "v2" /\ V2!Elapse)
    /\ \A w \in {1, 2} : /\ WF_v2(program = "v2" /\ V2!LiveStep(w))
                         /\ WF_v2(program = "v2" /\ V2!DeadStep(w))

-----------------------------------------------------------------------------
\* Every manager implements DurableRun: the step of state.json is one whose
\* weights are all in the bucket, it moves on by one, and complete weights
\* neither vanish nor appear out of order (run_loop and wait_outputs; _tick and
\* _apply_resume of the v2 orchestrators).
Runs == INSTANCE DurableRun WITH
    step <- IF program = "v2" THEN round ELSE IF state < 0 THEN 0 ELSE state,
    frontier <- IF program = "v2" THEN V2!Frontier ELSE Frontier,
    mayResume <- program = "v2" /\ mode = "stream"
RunsAreDurable == Runs!Spec

\* While no tick of a v2 orchestrator was cut short, replays of honest receipts
\* pass (verify_receipt reads manifest, inputs and outputs again).
HonestReceiptsPass == V2!HonestReceiptsPass

\* After finitely many kills, timeouts and crashes a run gets to its end; a v2
\* run may stop instead, for one of the reasons listed under Stuck: a job
\* nobody takes over, a start time lost with the process, two PUTs of which one
\* was made, too few names for deltas, an evicted stage.
RunsEnd ==
    \/ <>(IF program = "v2" THEN V2!Ended ELSE pc = "done")
    \/ <>[](program = "v2" /\ V2!StuckNow)
==============================================================================
