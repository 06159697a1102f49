-------------------------- MODULE LegacyStreaming --------------------------
(***************************************************************************)
(* The streaming v2 orchestrator (teuton_legacy_v2/streaming.py) over the  *)
(* workers of LegacyFleet: all jobs of an epoch are published at its start,*)
(* chained by the objects they read; a job that does not come forward is   *)
(* given to another worker of its stage, and a worker that is given up is  *)
(* evicted for good.                                                       *)
(*                                                                         *)
(* As in LegacyRounds, "pc" is the next bucket operation of a tick.  The   *)
(* static inputs (target, tokens) are written by the bootstrap and never   *)
(* change: they are left out of the manifests.                             *)
(***************************************************************************)
EXTENDS LegacyFleet

CONSTANTS NumStages, Microbatches, Training,
          PipeStage,    \* worker -> stages of its capability pipe_stage
          Cost,         \* worker -> rtt_to_bucket_ms
          Host,         \* worker -> hostname
          MaxRetries, MaxPerTick,
          ResumeFrom    \* values of --resume-from-epoch an operator may give

VARIABLES pc, seen, at, grace, started, elapsed,   \* as in LegacyRounds
          epochIndex,   \* epochs with a streaming/epoch=E/jobs_index.json
          evicted,      \* _evicted_workers
          evictedFile,  \* evicted_workers.json
          retries,      \* retries.json: job -> [attempts, assignees]
          tries,        \* ... as read, and changed, by this tick
          retriedNow

savedVars == <<epochIndex, evicted, evictedFile, retries>>
extraVars == <<savedVars, tries, retriedNow>>
orchVars == <<pc, seen, at, grace, started, elapsed, extraVars>>
vars == <<fleetVars, orchVars>>

Stages  == 0 .. NumStages - 1
MBs     == 0 .. Microbatches - 1
LastStage    == NumStages - 1
Weights(e) == {<<"weights", e, s>> : s \in Stages}
If(c, S)   == IF c THEN S ELSE {}

-----------------------------------------------------------------------------
(* Who gets which job.                                                     *)

Nth(q, i) == q[(i % Len(q)) + 1]

\* _list_workers_by_stage: fresh and not evicted, the nearest first.
ByStage(ws) == [s \in Stages |->
    SetToSortSeq({w \in ws : s \in PipeStage[w]},
                 LAMBDA v, w : Cost[v] < Cost[w] \/ (Cost[v] = Cost[w] /\ v < w))]

CoverageOk(ws) == \A s \in Stages : ByStage(ws)[s] # << >>

\* _pick_colocated_assignee: on the host of the previous stage if possible.
PickColocated(pinned, host, mb) ==
    LET same == SelectSeq(pinned, LAMBDA w : Host[w] = host)
    IN  Nth(IF same = << >> THEN pinned ELSE same, mb)

\* The forward assignees of one microbatch, stage after stage.
ForwardAssignees(ws, mb) ==
    LET pick[s \in Stages] ==
            IF s = 0 THEN Nth(ByStage(ws)[0], mb)
            ELSE PickColocated(ByStage(ws)[s], Host[pick[s - 1]], mb)
    IN  pick

ForwardJob(ws, e, s, mb) ==
    Manifest(e, ForwardAssignees(ws, mb)[s],
             If(s > 0, {<<"x", e, s - 1, mb>>}) \union If(Training, {<<"weights", e, s>>}),
             {<<"x", e, s, mb>>} \union If(s = LastStage, {<<"done", e, mb>>}), <<e, 0>>)

\* On the worker of its forward; it does not read the forward's own output.
BackwardJob(ws, e, s, mb) ==
    Manifest(e, ForwardAssignees(ws, mb)[s],
             {<<"weights", e, s>>} \union If(s > 0, {<<"x", e, s - 1, mb>>})
                 \union If(s < LastStage, {<<"dx", e, s + 1, mb>>}),
             {<<"dW", e, s, mb>>} \union If(s > 0, {<<"dx", e, s, mb>>}), <<e, 0>>)

OuterJob(ws, e, s) ==
    Manifest(e, ByStage(ws)[s][1], {<<"weights", e, s>>} \union {<<"dW", e, s, mb>> : mb \in MBs},
             {<<"weights", e + 1, s>>}, <<e, 0>>)

\* The order of the index: forwards, backwards from the tail, outers.
JobIds(e) ==
    LET pairs == [i \in 1 .. Microbatches * NumStages |->
                    <<(i - 1) \div NumStages, (i - 1) % NumStages>>]
    IN  [i \in DOMAIN pairs |-> <<"fwd", e, pairs[i][2], pairs[i][1]>>]
        \o (IF ~ Training THEN << >> ELSE
               [i \in DOMAIN pairs |-> <<"bwd", e, LastStage - pairs[i][2], pairs[i][1]>>]
               \o [i \in 1 .. NumStages |-> <<"outer", e, i - 1>>])

EmitEpochJobs(ws, e) ==
    [j \in Range(JobIds(e)) |->
        CASE j[1] = "fwd"   -> ForwardJob(ws, e, j[3], j[4])
          [] j[1] = "bwd"   -> BackwardJob(ws, e, j[3], j[4])
          [] j[1] = "outer" -> OuterJob(ws, e, j[3])]

-----------------------------------------------------------------------------
(* One tick.                                                               *)

Go(next) == pc' = next /\ UNCHANGED <<seen, at, tries, retriedNow>>
\* The tick is over, and with it what it has read.
Over(next) == pc' = next /\ seen' = {} /\ at' = <<0, 1>> /\ tries' = << >> /\ retriedNow' = 0
Published(ms) == manifests' = ms @@ manifests

\* loop(): the eviction list, then --resume-from-epoch, then the ticks.  A
\* resume without the weights of its epoch raises and starts nothing.
Start ==
    /\ pc = "down" /\ Go("idle")
    /\ evicted' = evictedFile
    /\ \/ UNCHANGED round
       \/ \E e \in ResumeFrom : /\ e > 0
                                /\ Training => Weights(e) \subseteq objects
                                /\ round' = e
    /\ UNCHANGED <<objects, value, manifests, index, beats, alive, doing, cache, receipts, verdicts, faults,
                   grace, started, elapsed, epochIndex, evictedFile, retries>>

GraceEnds ==
    /\ pc # "down" /\ ~ grace /\ grace' = TRUE
    /\ UNCHANGED <<fleetVars, pc, seen, at, started, elapsed, extraVars>>

\* retry_after_sec passes for an epoch whose start this process remembers.
Elapse ==
    /\ \E e \in started \ elapsed : elapsed' = elapsed \union {e}
    /\ UNCHANGED <<fleetVars, pc, seen, at, grace, started, extraVars>>

\* retries.json of the job, as the tick has read or changed it.
Attempts(t, j)  == IF j \in DOMAIN t THEN t[j].attempts ELSE 0
Assignees(t, j) == IF j \in DOMAIN t THEN t[j].assignees ELSE {}
\* An assignee that is alive is left alone unless this is the last attempt.
Retriable(t, ws, j) ==
    /\ Attempts(t, j) < MaxRetries
    /\ ~ Done(j) /\ Runnable(j)
    /\ manifests[j].to \notin ws \/ Attempts(t, j) + 1 >= MaxRetries

EpochComplete(e) ==
    /\ {<<"done", e, mb>> : mb \in MBs} \subseteq objects
    /\ Training => Weights(e + 1) \subseteq objects

\* A tick that finds nothing to do only reads: it is left out.
HasWork(ws, e) == \/ EpochComplete(e)
                  \/ e \in elapsed /\ \E j \in Range(JobIds(e)) : Retriable(retries, ws, j)

\* Without a worker for every stage the tick ends here, whatever is complete.
TickBegins ==
    /\ pc = "idle" /\ round < MaxRounds
    /\ round > 0 \/ grace
    /\ CoverageOk(beats \ evicted)
    /\ seen' = beats \ evicted /\ at' = <<round, 1>>
    /\ IF round \in epochIndex THEN HasWork(beats \ evicted, round) /\ pc' = "retry" /\ UNCHANGED manifests
       ELSE pc' = "epochIndex" /\ Published(EmitEpochJobs(beats \ evicted, round))
    /\ tries' = retries /\ retriedNow' = 0
    /\ UNCHANGED <<objects, value, index, round, beats, alive, doing, cache, receipts, verdicts, faults,
                   grace, started, elapsed, epochIndex, evicted, evictedFile, retries>>

\* The orchestrator's own index is written before the one the workers read.
PutEpochIndex ==
    /\ pc = "epochIndex" /\ Go("index")
    /\ epochIndex' = epochIndex \union {at[1]}
    /\ UNCHANGED <<fleetVars, grace, started, elapsed, evicted, evictedFile, retries>>

PutIndex ==
    /\ pc = "index" /\ Go("retry")
    /\ index' = [index EXCEPT ![at[1]] = JobIds(at[1])]
    /\ started' = started \union {at[1]} /\ elapsed' = elapsed \ {at[1]}
    /\ UNCHANGED <<objects, value, manifests, round, beats, alive, doing, cache, receipts, verdicts, faults,
                   grace, savedVars>>

\* The next job of the walk that is stale: on its last attempt its assignee
\* is evicted; then it goes to another worker of the stage, one that has not
\* had it if there is any.  The walk reads what is there when it gets there.
RetryJob ==
    LET e    == at[1]
        ids  == JobIds(e)
        next == {i \in at[2] .. Len(ids) : Retriable(tries, seen, ids[i])}
    IN  /\ pc = "retry" /\ e \in elapsed
        /\ next # {} /\ retriedNow < MaxPerTick
        /\ \E i \in next :
             LET j     == ids[i]
                 to    == manifests[j].to
                 other == SelectSeq(ByStage(seen)[j[3]], LAMBDA w : w # to)
                 fresh == SelectSeq(other, LAMBDA w : w \notin Assignees(tries, j))
                 new   == IF fresh # << >> THEN fresh[1] ELSE other[1]
                 last  == Attempts(tries, j) + 1 >= MaxRetries
             IN  /\ \A k \in next : i <= k
                 /\ at' = <<e, i + 1>>
                 /\ evicted' = evicted \union If(last, {to})
                 /\ evictedFile' = IF last /\ to \notin evicted THEN evicted' ELSE evictedFile
                 /\ IF other = << >> THEN UNCHANGED <<manifests, tries, retriedNow>>
                    ELSE /\ Published(j :> [manifests[j] EXCEPT
                               !.to = new, !.late = FALSE, !.batch = <<e, j, Attempts(tries, j) + 1>>])
                         /\ tries' = (j :> [attempts |-> Attempts(tries, j) + 1,
                                            assignees |-> Assignees(tries, j) \union {to, new}]) @@ tries
                         /\ retriedNow' = retriedNow + 1
        /\ UNCHANGED <<objects, value, index, round, beats, alive, doing, cache, receipts, verdicts, faults,
                       pc, seen, grace, started, elapsed, epochIndex, retries>>

\* The walk ends: retries.json, whose failed PUT is swallowed.
SaveRetries ==
    /\ pc = "retry"
    /\ \/ at[1] \notin elapsed
       \/ retriedNow >= MaxPerTick
       \/ \A i \in at[2] .. Len(JobIds(at[1])) : ~ Retriable(tries, seen, JobIds(at[1])[i])
    /\ Go("complete")
    /\ \/ retries' = (IF at[1] \in elapsed THEN tries ELSE retries) /\ UNCHANGED faults
       \/ UNCHANGED retries /\ Fault
    /\ UNCHANGED <<bucketVars, beats, alive, doing, cache, receipts, verdicts, grace, started, elapsed, epochIndex,
                   evicted, evictedFile>>

CompleteStep ==
    /\ pc = "complete"
    /\ IF EpochComplete(at[1]) /\ round = at[1]
       THEN round' = round + 1 /\ Go("telemetry")
       ELSE UNCHANGED round /\ Over("idle")
    /\ UNCHANGED <<objects, value, manifests, index, beats, alive, doing, cache, receipts, verdicts, faults,
                   grace, started, elapsed, savedVars>>

TelemetryStep ==
    /\ pc = "telemetry" /\ Over("idle")
    /\ objects' = objects \union {<<"telemetry", at[1]>>}
    /\ UNCHANGED <<value, manifests, index, round, beats, alive, doing, cache, receipts, verdicts, faults,
                   grace, started, elapsed, savedVars>>

TickFails ==
    /\ pc \notin {"down", "idle"} /\ Fault /\ Over("idle")
    /\ UNCHANGED <<objects, value, manifests, index, round, beats, alive, doing, cache, receipts, verdicts,
                   grace, started, elapsed, savedVars>>

Crash ==
    /\ pc # "down" /\ Fault /\ Over("down")
    /\ grace' = FALSE /\ started' = {} /\ elapsed' = {} /\ evicted' = {}
    /\ UNCHANGED <<objects, value, manifests, index, round, beats, alive, doing, cache, receipts, verdicts,
                   epochIndex, evictedFile, retries>>

Init ==
    /\ InitFleet(If(Training, Weights(0)))
    /\ pc = "down" /\ seen = {} /\ at = <<0, 1>>
    /\ grace = FALSE /\ started = {} /\ elapsed = {}
    /\ epochIndex = {} /\ evicted = {} /\ evictedFile = {}
    /\ retries = << >> /\ tries = << >> /\ retriedNow = 0

Orchestrate == \/ Start \/ TickBegins \/ PutEpochIndex \/ PutIndex \/ RetryJob
               \/ SaveRetries \/ CompleteStep \/ TelemetryStep

Next == \/ Orchestrate \/ GraceEnds \/ Elapse \/ TickFails \/ Crash
        \/ FleetNext /\ UNCHANGED orchVars

LiveStep(w) == WorkerStep(w) /\ UNCHANGED orchVars
DeadStep(w) == w \notin alive /\ GoesStale(w) /\ UNCHANGED orchVars

-----------------------------------------------------------------------------

Frontier == CHOOSE k \in AllRounds :
    /\ \A i \in 0 .. k : Weights(i) \subseteq objects
    /\ k + 1 \in AllRounds => ~ (Weights(k + 1) \subseteq objects)

\* The epoch's own index is there, the index the workers read is not.
IndexLost == round \in epochIndex /\ index[round] = << >>
\* Evictions and deaths have left a stage without a worker.
StageLost == \E s \in Stages : \A w \in alive \ evicted : s \notin PipeStage[w]
\* A job that its worker will not run and that no retry moves: the epoch's start
\* is forgotten, its attempts are used up, or its live worker is trusted with a
\* job whose deadline has passed.
JobLost == \E j \in DOMAIN manifests :
    /\ manifests[j].round = round /\ ~ Done(j)
    /\ manifests[j].late \/ manifests[j].to \notin alive
    /\ \/ round \notin started
       \/ Attempts(retries, j) >= MaxRetries
       \/ manifests[j].to \in alive /\ Attempts(retries, j) + 1 < MaxRetries
Stuck == IndexLost \/ StageLost \/ JobLost

=============================================================================
