------------------------------ MODULE MCLegacy ------------------------------
(***************************************************************************)
(* The two v2 orchestrators over one fleet, for TLC.  "mode" says which    *)
(* program runs: the synchronous one with a fault, the synchronous one     *)
(* over two rounds and two UBs without faults, or the streaming one.       *)
(***************************************************************************)
EXTENDS Naturals, TLC

CONSTANTS Workers, Nil

VARIABLES objects, value, manifests, index, round, beats, alive, doing, cache, receipts,
          verdicts, faults, pc, seen, at, grace, started, elapsed, interrupted,
          epochIndex, evicted, evictedFile, retries, tries, retriedNow, mode

Anywhere == [w \in Workers |-> {}]
ByName   == [w \in Workers |-> w]
AllStages == [w \in Workers |-> {0, 1}]

Faulty == INSTANCE LegacyRounds WITH MaxRounds <- 1, MaxFaults <- 1, NumUb <- 1,
              Replicas <- 2, Microbatches <- 1, Resident <- Anywhere, Cost <- ByName
Long   == INSTANCE LegacyRounds WITH MaxRounds <- 2, MaxFaults <- 0, NumUb <- 1,
              Replicas <- 1, Microbatches <- 1, Resident <- Anywhere, Cost <- ByName
Stream == INSTANCE LegacyStreaming WITH MaxRounds <- 1, MaxFaults <- 1, NumStages <- 2,
              Microbatches <- 1, Training <- TRUE, PipeStage <- AllStages, Cost <- ByName,
              Host <- ByName, MaxRetries <- 2, MaxPerTick <- 1, ResumeFrom <- {1}

streamVars == <<epochIndex, evicted, evictedFile, retries, tries, retriedNow>>
vars == <<objects, value, manifests, index, round, beats, alive, doing, cache, receipts,
          verdicts, faults, pc, seen, at, grace, started, elapsed, interrupted,
          streamVars, mode>>

Init ==
    /\ mode \in {"faulty", "long", "stream"}
    /\ mode = "faulty" => Faulty!Init
    /\ mode = "long" => Long!Init
    /\ mode = "stream" => Stream!Init /\ interrupted = FALSE
    /\ mode # "stream" => /\ epochIndex = {} /\ evicted = {} /\ evictedFile = {}
                          /\ retries = << >> /\ tries = << >> /\ retriedNow = 0

\* One of the three programs takes a step of the given kind.
Step(faulty, long, stream) ==
    /\ UNCHANGED mode
    /\ \/ mode = "faulty" /\ faulty /\ UNCHANGED streamVars
       \/ mode = "long" /\ long /\ UNCHANGED streamVars
       \/ mode = "stream" /\ stream /\ UNCHANGED interrupted

Next == Step(Faulty!Next, Long!Next, Stream!Next)

\* loop() ticks until the run is over and is started again after a crash; so
\* is each worker's loop while its process lives; time passes.
Orchestrate == Step(Faulty!Orchestrate, Long!Orchestrate, Stream!Orchestrate)
GraceEnds == Step(Faulty!GraceEnds, Long!GraceEnds, Stream!GraceEnds)
Elapse == Step(Faulty!Elapse, Long!Elapse, Stream!Elapse)
LiveStep(w) == Step(Faulty!LiveStep(w), Long!LiveStep(w), Stream!LiveStep(w))
DeadStep(w) == Step(Faulty!DeadStep(w), Long!DeadStep(w), Stream!DeadStep(w))

-----------------------------------------------------------------------------

\* The last round whose weights are complete.
Frontier == CASE mode = "faulty" -> Faulty!Frontier
              [] mode = "long"   -> Long!Frontier
              [] mode = "stream" -> Stream!Frontier

\* While no tick of the orchestrator was cut short, the replay of an honest
\* receipt passes: the manifest, the inputs and the outputs are still those of
\* the execution (verify_receipt reads all three again).
HonestReceiptsPass == ~ interrupted => \A rc \in DOMAIN verdicts : verdicts[rc] = "pass"

\* The run has come to its end, or has stopped for one of the reasons its module
\* names under Stuck.
Ended == round = IF mode = "long" THEN 2 ELSE 1
StuckNow == CASE mode = "faulty" -> Faulty!Stuck
              [] mode = "long"   -> Long!Stuck
              [] mode = "stream" -> Stream!Stuck
=============================================================================
