---------------------------- MODULE LegacyRounds ----------------------------
(***************************************************************************)
(* The synchronous v2 orchestrator (teuton_legacy_v2/orchestrator.py) and  *)
(* the jobs of a round (schedule.py), over the workers of LegacyFleet.     *)
(*                                                                         *)
(* A round is forward -> inner replicas -> reduce -> outer -> next weights,*)
(* with eval beside it.  The forward and inner jobs are published at the   *)
(* start of the round, the reduce and the outer of a unique block (UB) when*)
(* enough deltas are there, the eval when the next weights are.  One tick  *)
(* of the orchestrator is a sequence of bucket operations with the         *)
(* workers running in between, and a crash or an exception may end it      *)
(* after any of them: "pc" is the operation that comes next.               *)
(***************************************************************************)
EXTENDS LegacyFleet

CONSTANTS NumUb, Replicas, Microbatches,
          Resident,     \* worker -> UBs of its capability resident_ub ({}: none)
          Cost          \* worker -> GPU class and RTT as one number

VARIABLES pc,           \* next operation of the orchestrator
          seen,         \* workers listed at the start of the tick
          at,           \* <<round of the tick, UB>>
          grace,        \* startup_grace_sec has passed
          started,      \* rounds whose start this process remembers
          elapsed,      \* ... and that are older than t_max
          interrupted   \* some tick did not run to its end

orchVars == <<pc, seen, at, grace, started, elapsed, interrupted>>
vars == <<fleetVars, orchVars>>

UBs == 0 .. NumUb - 1
MBs == 0 .. Microbatches - 1
Weights(r) == {<<"weights", r, ub>> : ub \in UBs}
Optim(r)   == {<<"optim", r, ub>> : ub \in UBs}
Marker(r, ub)  == <<"reduce_emitted", r, ub>>
EvalMarker(r)  == <<"eval_emitted", r>>
Deltas(r, ub)  == {o \in objects : o[1] = "delta" /\ o[2] = r /\ o[3] = ub}

-----------------------------------------------------------------------------
(* Who gets which job.                                                     *)

Sorted(S)  == SetToSortSeq(S, <)
ByCost(S)  == SetToSortSeq(S, LAMBDA v, w : Cost[v] < Cost[w] \/ (Cost[v] = Cost[w] /\ v < w))
Nth(q, i)  == q[(i % Len(q)) + 1]

\* _build_pin_table: residents by cost; a UB without one takes the unpinned
\* workers, each UB starting at another.
BuildPinTable(ws) ==
    LET free == Sorted({w \in ws : Resident[w] \intersect UBs = {}})
    IN  [ub \in UBs |->
            LET mine == {w \in ws : ub \in Resident[w]}
            IN  IF mine = {} THEN [i \in DOMAIN free |-> Nth(free, ub + i - 1)]
                ELSE ByCost(mine)]

\* pin.get(ub) or list(worker_ids)
Pinned(ws, ub) == IF BuildPinTable(ws)[ub] = << >> THEN Sorted(ws) ELSE BuildPinTable(ws)[ub]

CoverageOk(ws) == \A ub \in UBs : Len(BuildPinTable(ws)[ub]) >= Replicas

PickCriticalWorker(ws) == ByCost(ws)[1]

\* One forward per microbatch, spread over the cheapest workers.
ForwardJob(ws, r, mb) ==
    LET pool == SubSeq(ByCost(ws), 1, Microbatches)
    IN  Manifest(r, Nth(pool, mb), Weights(r), {<<"target", r, mb, ub>> : ub \in UBs}, <<r>>)

\* The name of a delta ends in its worker, not in its replica.
InnerJob(ws, r, mb, ub, rep) ==
    LET to == Nth(Pinned(ws, ub), mb * Replicas + rep)
    IN  Manifest(r, to, {<<"weights", r, ub>>, <<"target", r, mb, ub>>},
                 {<<"delta", r, ub, mb, to>>}, <<r>>)

InitialIds(r) ==
    LET inner == [i \in 1 .. NumUb * Microbatches * Replicas |->
            LET k == i - 1
            IN  <<"inner", r, (k \div Replicas) % Microbatches,
                  k \div (Replicas * Microbatches), k % Replicas>>]
    IN  [i \in 1 .. Microbatches |-> <<"fwd", r, i - 1>>] \o inner

BuildInitialRoundJobs(ws, r) ==
    [j \in Range(InitialIds(r)) |->
        IF j[1] = "fwd" THEN ForwardJob(ws, r, j[3])
        ELSE InnerJob(ws, r, j[3], j[4], j[5])]

\* On a worker that made one of the deltas, of the pinned ones if there is any.
ReduceAssignee(ws, r, ub) ==
    LET makers   == {o[5] : o \in Deltas(r, ub)}
        inPin    == SelectSeq(Pinned(ws, ub), LAMBDA w : w \in makers)
        firstMb  == CHOOSE mb \in {o[4] : o \in Deltas(r, ub)} :
                        \A o \in Deltas(r, ub) : mb <= o[4]
    IN  IF inPin # << >> THEN inPin[1]
        ELSE Sorted({o[5] : o \in {d \in Deltas(r, ub) : d[4] = firstMb}})[1]

BuildReduceJob(ws, r, ub) ==
    <<"reduce", r, ub>> :> Manifest(r, ReduceAssignee(ws, r, ub), Deltas(r, ub),
                                    {<<"reduced", r, ub>>}, <<"reduce", r, ub>>)

BuildOuterJob(r, ub) ==
    <<"outer", r, ub>> :> Manifest(r, manifests[<<"reduce", r, ub>>].to,
        {<<"weights", r, ub>>, <<"optim", r, ub>>, <<"reduced", r, ub>>},
        {<<"weights", r + 1, ub>>, <<"optim", r + 1, ub>>}, <<"outer", r, ub>>)

\* Round robin over the workers other than the critical one.
BuildEvalJob(ws, r) ==
    LET others == Sorted(ws \ {PickCriticalWorker(ws)})
        pool   == IF others = << >> THEN Sorted(ws) ELSE others
    IN  <<"eval", r>> :> Manifest(r, Nth(pool, r), Weights(r + 1), {<<"metrics", r>>}, <<"eval", r>>)

-----------------------------------------------------------------------------
(* One tick.                                                               *)

\* Enough deltas: the target, or half of the replicas once t_max has passed.
\* A round whose start this process does not know is always zero seconds old.
Quorum(r, ub) ==
    LET count == Cardinality(Deltas(r, ub))
    IN  \/ count >= Replicas * Microbatches
        \/ r \in elapsed /\ count >= ((Replicas + 1) \div 2) * Microbatches

Go(next) == pc' = next /\ UNCHANGED <<seen, at>>
\* The tick is over; what it knew of the workers is forgotten.
Over(next) == pc' = next /\ seen' = {} /\ at' = <<0, 0>>
UnchangedFleet == UNCHANGED fleetVars
Published(ms) == manifests' = ms @@ manifests

Start ==
    /\ pc = "down" /\ Go("idle")
    /\ UnchangedFleet /\ UNCHANGED <<grace, started, elapsed, interrupted>>

GraceEnds ==
    /\ pc # "down" /\ ~ grace /\ grace' = TRUE
    /\ UnchangedFleet /\ UNCHANGED <<pc, seen, at, started, elapsed, interrupted>>

Elapse ==
    /\ \E r \in started \ elapsed : elapsed' = elapsed \union {r}
    /\ UnchangedFleet /\ UNCHANGED <<pc, seen, at, grace, started, interrupted>>

RoundComplete(r) == Weights(r + 1) \subseteq objects

\* A tick that finds nothing to do only reads: it is left out.
HasWork(r) == \/ \E ub \in UBs : Marker(r, ub) \notin objects /\ Quorum(r, ub)
              \/ RoundComplete(r)

\* The beginning of _tick, up to the first PUT or the end of the emission test.
TickBegins ==
    /\ pc = "idle" /\ round < MaxRounds /\ beats # {}
    /\ seen' = beats /\ at' = <<round, 0>>
    /\ IF index[round] # << >> THEN HasWork(round) /\ pc' = "reduce" /\ UNCHANGED manifests
       ELSE /\ round > 0 \/ grace
            /\ pc' = "index" /\ Published(BuildInitialRoundJobs(beats, round))
    /\ UNCHANGED <<objects, value, index, round, beats, alive, doing, cache, receipts, verdicts, faults,
                   grace, started, elapsed, interrupted>>

\* The index ends _emit_initial_round.  A round emitted ahead ends its tick.
PutIndex ==
    /\ pc = "index"
    /\ index' = [index EXCEPT ![round] = InitialIds(round)]
    /\ started' = started \union {round} /\ elapsed' = elapsed \ {round}
    /\ IF at[1] = round THEN Go("reduce") ELSE Over("idle")
    /\ UNCHANGED <<objects, value, manifests, round, beats, alive, doing, cache, receipts, verdicts, faults,
                   grace, interrupted>>

\* _maybe_emit_reduces, one UB: the reduce job ...
ReduceStep ==
    LET r == at[1]  ub == at[2]
    IN  /\ pc = "reduce"
        /\ IF ub = NumUb THEN Go("eval") /\ UNCHANGED manifests
           ELSE IF Marker(r, ub) \in objects \/ ~ Quorum(r, ub)
           THEN at' = <<r, ub + 1>> /\ UNCHANGED <<manifests, pc, seen>>
           ELSE Published(BuildReduceJob(seen, r, ub)) /\ Go("mark")
        /\ UNCHANGED <<objects, value, index, round, beats, alive, doing, cache, receipts, verdicts, faults,
                       grace, started, elapsed, interrupted>>

\* Mutant: the marker is not written.
PutNoMarker ==
    /\ pc = "mark" /\ Go("outer")
    /\ UNCHANGED <<objects, value, manifests, index, round, beats, alive, doing, cache, receipts,
                   verdicts, faults, grace, started, elapsed, interrupted>>

\* ... its marker ...
PutMarker ==
    /\ pc = "mark" /\ Go("outer")
    /\ objects' = objects \union {Marker(at[1], at[2])}
    /\ UNCHANGED <<value, manifests, index, round, beats, alive, doing, cache, receipts, verdicts, faults,
                   grace, started, elapsed, interrupted>>

\* ... and the outer job.
PutOuter ==
    /\ pc = "outer" /\ pc' = "reduce" /\ UNCHANGED seen
    /\ Published(BuildOuterJob(at[1], at[2])) /\ at' = <<at[1], at[2] + 1>>
    /\ UNCHANGED <<objects, value, index, round, beats, alive, doing, cache, receipts, verdicts, faults,
                   grace, started, elapsed, interrupted>>

\* _maybe_emit_eval: once the next weights are there, and once only.
EvalStep ==
    /\ pc = "eval"
    /\ IF EvalMarker(at[1]) \in objects \/ ~ (Weights(at[1] + 1) \subseteq objects)
       THEN Go("complete") /\ UNCHANGED manifests
       ELSE Go("evalmark") /\ Published(BuildEvalJob(seen, at[1]))
    /\ UNCHANGED <<objects, value, index, round, beats, alive, doing, cache, receipts, verdicts, faults,
                   grace, started, elapsed, interrupted>>

PutEvalMarker ==
    /\ pc = "evalmark" /\ Go("complete")
    /\ objects' = objects \union {EvalMarker(at[1])}
    /\ UNCHANGED <<value, manifests, index, round, beats, alive, doing, cache, receipts, verdicts, faults,
                   grace, started, elapsed, interrupted>>

\* The state is read again before it is advanced.
CompleteStep ==
    /\ pc = "complete"
    /\ IF RoundComplete(at[1]) /\ round = at[1]
       THEN round' = round + 1 /\ Go("telemetry")
       ELSE UNCHANGED round /\ Over("idle")
    /\ UNCHANGED <<objects, value, manifests, index, beats, alive, doing, cache, receipts, verdicts, faults,
                   grace, started, elapsed, interrupted>>

\* Telemetry of the round, then the next round ahead of its tick if every UB
\* has enough workers.
TelemetryStep ==
    /\ pc = "telemetry"
    /\ objects' = objects \union {<<"telemetry", at[1]>>}
    /\ IF round < MaxRounds /\ index[round] = << >> /\ CoverageOk(seen)
       THEN Published(BuildInitialRoundJobs(seen, round)) /\ Go("index")
       ELSE UNCHANGED manifests /\ Over("idle")
    /\ UNCHANGED <<value, index, round, beats, alive, doing, cache, receipts, verdicts, faults,
                   grace, started, elapsed, interrupted>>

\* An operation raises: loop() logs it and the next tick starts over.
TickFails ==
    /\ pc \notin {"down", "idle"} /\ Fault /\ Over("idle") /\ interrupted' = TRUE
    /\ UNCHANGED <<objects, value, manifests, index, round, beats, alive, doing, cache, receipts, verdicts,
                   grace, started, elapsed>>

\* The process ends and forgets when its rounds began.
Crash ==
    /\ pc # "down" /\ Fault /\ Over("down") /\ interrupted' = TRUE
    /\ grace' = FALSE /\ started' = {} /\ elapsed' = {}
    /\ UNCHANGED <<objects, value, manifests, index, round, beats, alive, doing, cache, receipts, verdicts>>

Init ==
    /\ InitFleet(Weights(0) \union Optim(0))
    /\ pc = "down" /\ seen = {} /\ at = <<0, 0>>
    /\ grace = FALSE /\ started = {} /\ elapsed = {} /\ interrupted = FALSE

Orchestrate == \/ Start \/ TickBegins \/ PutIndex \/ ReduceStep \/ PutMarker \/ PutOuter
               \/ EvalStep \/ PutEvalMarker \/ CompleteStep \/ TelemetryStep

Next == \/ Orchestrate \/ GraceEnds \/ Elapse \/ TickFails \/ Crash
        \/ FleetNext /\ UNCHANGED orchVars

LiveStep(w) == WorkerStep(w) /\ UNCHANGED orchVars
DeadStep(w) == w \notin alive /\ GoesStale(w) /\ UNCHANGED orchVars

-----------------------------------------------------------------------------

\* The last round whose weights, and those of all rounds before it, are there.
Frontier == CHOOSE k \in AllRounds :
    /\ \A i \in 0 .. k : Weights(i) \subseteq objects
    /\ k + 1 \in AllRounds => ~ (Weights(k + 1) \subseteq objects)

\* A reduce whose outer was never published: the marker comes in between.
OuterLost == \E ub \in UBs : /\ Marker(round, ub) \in objects
                              /\ <<"outer", round, ub>> \notin DOMAIN manifests
\* No one takes over a job whose worker is gone or whose deadline is past.
JobLost == \E j \in DOMAIN manifests :
    /\ manifests[j].round <= round /\ ~ Done(j)
    /\ manifests[j].late \/ manifests[j].to \notin alive
\* Fewer deltas than the target, and a start time that a restart forgot; or
\* fewer names than half of the replicas.
BelowTarget == \E ub \in UBs :
    LET names == UNION {manifests[j].outs : j \in {k \in DOMAIN manifests :
                           k[1] = "inner" /\ k[2] = round /\ k[4] = ub}}
    IN  /\ index[round] # << >> /\ Marker(round, ub) \notin objects
        /\ IF round \in started THEN Cardinality(names) < ((Replicas + 1) \div 2) * Microbatches
           ELSE Cardinality(names) < Replicas * Microbatches
Stuck == OuterLost \/ JobLost \/ BelowTarget \/ alive = {}

=============================================================================
