---------------------------- MODULE LegacyFleet ----------------------------
(***************************************************************************)
(* The bucket and the workers of the preserved v2 runtime                  *)
(* (teuton_legacy_v2/worker.py).  Both v2 orchestrators, LegacyRounds and  *)
(* LegacyStreaming, publish job manifests, an index per round and          *)
(* state.json; a worker polls them, runs a job assigned to it whose inputs *)
(* exist and whose outputs do not, and PUTs the outputs in parallel.       *)
(*                                                                         *)
(* A bucket object is a tuple <<kind, round, ...>>.  Every writer of one   *)
(* name computes the same value, except that a reduce averages the deltas  *)
(* its manifest lists: "value" keeps, for a reduced delta and for what is  *)
(* computed from one, what went into it.  A manifest holds its assignee,   *)
(* the objects it reads and writes, and whether its deadline has passed:   *)
(* the manifests of one batch are built with one deadline and expire       *)
(* together.  The replay validator (validator.py) judges the receipts.     *)
(***************************************************************************)
EXTENDS Naturals, SequencesExt, Functions

CONSTANTS Workers,      \* worker ids; their order is that of their names
          Nil,          \* no job
          MaxRounds,    \* rounds (or epochs) of the run
          MaxFaults     \* kills, failures, expiries and restarts together

VARIABLES objects,      \* data objects in the bucket
          value,        \* object -> what it was computed from, where that may vary
          manifests,    \* job id -> manifest
          index,        \* round -> jobs/round=R/index.json (<<>>: absent)
          round,        \* state.json: current_round
          beats,        \* workers whose heartbeat is younger than 30 s
          alive,        \* worker processes
          doing,        \* worker -> the job under execution, or Nil
          cache,        \* worker -> _output_cache: what it wrote itself
          receipts,     \* <<job, worker>> -> the contents of its inputs
          verdicts,     \* <<job, worker>> -> pass, fail or inconclusive
          faults

bucketVars == <<objects, value, manifests, index, round>>
fleetVars == <<bucketVars, beats, alive, doing, cache, receipts, verdicts, faults>>

AllRounds == 0 .. MaxRounds

\* A fault of the environment, of which there are at most MaxFaults.
Fault == faults < MaxFaults /\ faults' = faults + 1

Manifest(r, to, ins, outs, batch) ==
    [round |-> r, to |-> to, ins |-> ins, outs |-> outs, batch |-> batch, late |-> FALSE]

InitFleet(bootstrapped) ==
    /\ objects = bootstrapped /\ value = << >>
    /\ manifests = << >>
    /\ index = [r \in AllRounds |-> << >>]
    /\ round = 0
    /\ beats = Workers /\ alive = Workers
    /\ doing = [w \in Workers |-> Nil] /\ cache = [w \in Workers |-> << >>]
    /\ receipts = << >> /\ verdicts = << >> /\ faults = 0

-----------------------------------------------------------------------------
(* What a worker does in one tick.                                         *)

Done(j) == manifests[j].outs \subseteq objects
Runnable(j) == manifests[j].ins \subseteq objects

\* _maybe_pickup: mine, not done, inputs there, before its deadline.
Eligible(w, j) ==
    /\ manifests[j].to = w
    /\ ~ Done(j) /\ Runnable(j)
    /\ ~ manifests[j].late

\* The rounds of one tick: the current one, the next, then three back.
RoundPlace(r) == IF r = round + 1 THEN 1 ELSE IF r = round THEN 0 ELSE 1 + round - r
Scanned(r) == r <= round + 1 /\ r + 3 >= round /\ index[r] # << >>

\* The manifests that are not in the index, in the order of LIST.
KeyRank(j) == CASE j[1] = "eval"   -> 0
                [] j[1] = "outer"  -> 2 * j[3] + 1
                [] j[1] = "reduce" -> 2 * j[3] + 2
                [] OTHER           -> 99

\* _handle_round: backward and outer jobs of the index, the other jobs of the
\* index, and the manifests that are not in it.  Sections are 100 wide.
Place(j) ==
    LET q   == index[manifests[j].round]
        pos == IF Contains(q, j) THEN CHOOSE i \in DOMAIN q : q[i] = j ELSE 200 + KeyRank(j)
    IN  1000 * RoundPlace(manifests[j].round) + pos
        + (IF Contains(q, j) /\ j[1] \notin {"bwd", "outer"} THEN 100 ELSE 0)

Picks(w) == {j \in DOMAIN manifests : Scanned(manifests[j].round) /\ Eligible(w, j)}
FirstPick(w) == CHOOSE j \in Picks(w) : \A k \in Picks(w) : Place(j) <= Place(k)

\* What a job that reads these objects now computes its outputs from.  Only the
\* values of what a judged job writes are told apart.
Contents(ins) == [i \in ins |-> {i} \union (IF i \in DOMAIN value THEN value[i] ELSE {})]

\* A tick that finds nothing: the heartbeat only.
Beat(w) ==
    /\ w \in alive \ beats /\ doing[w] = Nil /\ Picks(w) = {}
    /\ beats' = beats \union {w}
    /\ UNCHANGED <<bucketVars, alive, doing, cache, receipts, verdicts, faults>>

\* A tick that finds a job: it is executed as its manifest and inputs were
\* read, an input from _output_cache if it is still there.
Pickup(w) ==
    /\ w \in alive /\ doing[w] = Nil /\ Picks(w) # {}
    /\ LET j   == FirstPick(w)
           ins == manifests[j].ins
       IN  \E read \in {Contents(ins), Restrict(cache[w], ins \intersect DOMAIN cache[w]) @@ Contents(ins)} :
              doing' = [doing EXCEPT ![w] = [job |-> j, left |-> manifests[j].outs, read |-> read]]
    /\ beats' = beats \union {w}
    /\ UNCHANGED <<bucketVars, alive, cache, receipts, verdicts, faults>>

\* The jobs whose replay may come out differently: the others are not followed
\* past their last output.
Judged(j) == \E i \in manifests[j].ins : i[1] \in {"delta", "reduced"}

\* _execute: one of the parallel PUTs lands.
PutOutput(w) ==
    /\ doing[w] # Nil
    /\ \E o \in doing[w].left :
          /\ objects' = objects \union {o}
          /\ value' = IF Judged(doing[w].job)
                       THEN (o :> UNION Range(doing[w].read)) @@ value ELSE value
          /\ doing' = [doing EXCEPT ![w] = IF @.left = {o} /\ ~ Judged(@.job) THEN Nil
                                            ELSE [@ EXCEPT !.left = @ \ {o}]]
    /\ UNCHANGED <<manifests, index, round, beats, alive, cache, receipts, verdicts, faults>>

\* All outputs are there: the receipt, with digests of the inputs as they are
\* now.  Its failure is swallowed.
Finish(w) ==
    /\ doing[w] # Nil /\ doing[w].left = {}
    /\ doing' = [doing EXCEPT ![w] = Nil]
    /\ cache' = [cache EXCEPT ![w] =
          [o \in manifests[doing[w].job].outs \intersect DOMAIN value |->
              {o} \union UNION Range(doing[w].read)] @@ @]
    /\ \/ /\ receipts' = (<<doing[w].job, w>> :> Contents(DOMAIN doing[w].read)) @@ receipts
          /\ UNCHANGED faults
       \/ UNCHANGED receipts /\ Fault
    /\ UNCHANGED <<bucketVars, beats, alive, verdicts>>

\* A GET, the evaluation or a PUT raises: logged, and tried again by a later tick.
ExecuteFails(w) ==
    /\ doing[w] # Nil /\ Fault
    /\ doing' = [doing EXCEPT ![w] = Nil]
    /\ UNCHANGED <<bucketVars, beats, alive, cache, receipts, verdicts>>

Kill(w) ==
    /\ w \in alive /\ Fault
    /\ alive' = alive \ {w}
    /\ doing' = [doing EXCEPT ![w] = Nil] /\ cache' = [cache EXCEPT ![w] = << >>]
    /\ UNCHANGED <<bucketVars, beats, receipts, verdicts>>

\* A worker started again under its id writes a heartbeat first of all.
Revive(w) ==
    /\ w \notin alive
    /\ alive' = alive \union {w} /\ beats' = beats \union {w}
    /\ UNCHANGED <<bucketVars, doing, cache, receipts, verdicts, faults>>

\* WORKER_STALE_SEC without a heartbeat: the worker is dead, or its job is long.
GoesStale(w) ==
    /\ w \in beats
    /\ \/ w \notin alive /\ UNCHANGED faults
       \/ doing[w] # Nil /\ Fault
    /\ beats' = beats \ {w}
    /\ UNCHANGED <<bucketVars, alive, doing, cache, receipts, verdicts>>

\* The deadline of a batch of manifests passes.
Expire ==
    /\ \E b \in {manifests[j].batch : j \in {k \in DOMAIN manifests : ~ manifests[k].late}} :
          manifests' = [j \in DOMAIN manifests |->
              [manifests[j] EXCEPT !.late = @ \/ manifests[j].batch = b]]
    /\ Fault
    /\ UNCHANGED <<objects, value, index, round, beats, alive, doing, cache, receipts, verdicts>>

-----------------------------------------------------------------------------
(* The replay validator.                                                   *)

\* verify_receipt: the manifest as it is now is replayed on its inputs as they
\* are now, and compared with the outputs as they are now.  A reduce of other
\* deltas has another graph; an input whose digest is not that of the receipt
\* raises, which is inconclusive.
VerifyReceipt(rc) ==
    LET m      == manifests[rc[1]]
        inputs == Contents(m.ins)
    IN  IF m.ins # DOMAIN receipts[rc] THEN "fail"
        ELSE IF inputs # receipts[rc] THEN "inconclusive"
        ELSE IF \A o \in m.outs \intersect DOMAIN value : value[o] = UNION Range(inputs)
        THEN "pass" ELSE "fail"

\* run_once: one receipt without a verdict of this validator.
Validate ==
    /\ \E rc \in DOMAIN receipts \ DOMAIN verdicts :
          verdicts' = (rc :> VerifyReceipt(rc)) @@ verdicts
    /\ UNCHANGED <<bucketVars, beats, alive, doing, cache, receipts, faults>>

WorkerStep(w) == Beat(w) \/ Pickup(w) \/ PutOutput(w) \/ Finish(w)

FleetNext ==
    \/ \E w \in Workers : \/ WorkerStep(w) \/ ExecuteFails(w) \/ Kill(w)
                          \/ Revive(w) \/ GoesStale(w)
    \/ Expire \/ Validate

=============================================================================
