----------------------------- MODULE AuditPipeline -----------------------------
(***************************************************************************)
(* From receipt to verdict (teuton_validator): the audit-jobs pass that    *)
(* hands receipts out for replay, the auditors that replay them, and the   *)
(* validator pass that turns audits (mode "consume") or its own replays    *)
(* (mode "local") into verdicts and scores.  docker/entrypoint.sh restarts *)
(* both passes for ever.                                                   *)
(*                                                                         *)
(* Jobs form a chain: job j reads the artifact of job j - 1.  An artifact  *)
(* is the set of jobs whose computation was falsified on the way to it     *)
(* (the executor's fault_mode), so a replay of j on its input x yields x.  *)
(* Every emission of a job changes created_unix and with it the manifest   *)
(* hash, here a version number; 0 means not emitted.  A receipt id is      *)
(* <<miner, job>>: the attempt is 0 in every emission.                     *)
(*                                                                         *)
(* The auditors are the Hotkeys of Scheduler.  Miners are reduced to what  *)
(* the audit sees; StreamingRun has their full cycle.                      *)
(***************************************************************************)
EXTENDS Scheduler, Integers

CONSTANTS
    NumJobs,      \* length of the chain
    Miners,
    Faulty,       \* <<miner, job>> pairs for which the miner's fault_mode strikes
    Timelocked,   \* jobs whose artifact is sealed until a drand round
    AuditModes,   \* audit_mode values a validator pass may be started with
    MaxJobs,      \* --max-jobs of an audit-jobs pass
    MaxReceipts,  \* --max-receipts of a validator pass
    MaxFaults,    \* bound on re-emissions, crashes, failed calls, lapsed grants
    None

Jobs == 1..NumJobs
Auditors == Hotkeys
Receipts == Miners \X Jobs
JobOf(r) == r[2]

\* An artifact nobody can decode yet feeds no other job.
ASSUME AuditAssumption ==
    /\ NumJobs \in Nat \ {0}
    /\ IsFiniteSet(Miners) /\ Faulty \subseteq Receipts
    /\ Timelocked \subseteq {NumJobs}
    /\ AuditModes \subseteq {"local", "consume"}
    /\ MaxJobs \in Nat \ {0} /\ MaxReceipts \in Nat \ {0}
    /\ MaxFaults \in Nat

Artifact == SUBSET Jobs
Version == 0..(MaxFaults + 1)
Body == [hash : Version \ {0}, input : Artifact]
AuditManifest == [auditor : Auditors, body : Body, target : Version \ {0}]
Status == {"pass", "fail", "inconclusive"}
Option(S) == S \cup {None}

Execution == [job : Jobs, hash : Version \ {0}, value : Artifact]
Replaying == [id : Receipts, job : AuditManifest]
AuditResult == [hash : Version \ {0}, status : Status]
Verdict == [hash : Version \ {0}, audit : Version \ {0}, status : Status]

\* An absent object is told from every object.
ASSUME NoneAssumption ==
    /\ None \notin Miners /\ None \notin Auditors /\ \A x \in Artifact : x # None
    /\ None \notin Body /\ None \notin AuditManifest /\ None \notin Execution
    /\ None \notin Replaying /\ None \notin AuditResult /\ None \notin Verdict

VARIABLES
    manifest,   \* [hash, miner] of the job's manifest in the bucket
    output,     \* the job's artifact in the bucket
    receipt,    \* the receipt object: its manifest_hash and input digest
    doing,      \* doing[m]: the execution m is in
    revealed,   \* the drand round of the Timelocked jobs is out
    am,         \* the audit-jobs pass and its in-memory queue
    audits,     \* audit job manifests in the bucket
    queue,      \* the published audit queue: receipt to assigned auditor
    lapsed,     \* audit jobs whose grant has expired
    auditing,   \* auditing[a]: [id, job], the replay a is in
    audited,    \* audited[a]: completed_jobs of a
    result,     \* result[a][r]: the AuditResultV3 object
    val,        \* the validator pass
    verdict,    \* verdict objects
    faults      \* what is spent of MaxFaults

mining == <<manifest, output, receipt, doing, revealed>>
emitting == <<am, audits, queue, lapsed>>
replaying == <<auditing, audited, result>>
judging == <<val, verdict>>
vars == <<mining, emitting, replaying, judging, faults>>

NoReceipts == [r \in Receipts |-> None]
IdlePass == [pc |-> "idle", todo |-> NoReceipts, queue |-> NoReceipts,
             accounts |-> {}, inflight |-> [a \in Auditors |-> 0], emitted |-> 0]
IdleValidator == [pc |-> "idle", mode |-> None, todo |-> NoReceipts, checked |-> 0]

Init ==
    /\ manifest = [j \in Jobs |-> [hash |-> 0, miner |-> None]]
    /\ output = [j \in Jobs |-> None]
    /\ receipt = NoReceipts
    /\ doing = [m \in Miners |-> None]
    /\ revealed = FALSE
    /\ am = IdlePass /\ audits = NoReceipts /\ queue = NoReceipts /\ lapsed = {}
    /\ auditing = [a \in Auditors |-> None] /\ audited = [a \in Auditors |-> {}]
    /\ result = [a \in Auditors |-> NoReceipts]
    /\ val = IdleValidator /\ verdict = NoReceipts
    /\ faults = 0

Fault == faults < MaxFaults /\ faults' = faults + 1

------------------------------------------------------------------------------
\* Orchestrator and miners.

\* emit_job, upstream first: the manifest object of the job id is overwritten.
Emit(j, m) ==
    /\ j > 1 => manifest[j - 1].hash > 0
    /\ \/ manifest[j].hash = 0 /\ UNCHANGED faults
       \/ manifest[j].hash > 0 /\ Fault
    /\ manifest' = [manifest EXCEPT ![j] = [hash |-> @.hash + 1, miner |-> m]]
    /\ UNCHANGED <<output, receipt, doing, revealed, emitting, replaying, judging>>

Input(j) == IF j = 1 THEN {} ELSE output[j - 1]

Falsify(m, j, x) == IF <<m, j>> \in Faulty THEN x \cup {j} ELSE x

\* execute() up to the evaluation: the manifest and the inputs are read.  A
\* miner whose completed-jobs file names the job skips it, one that lost the
\* file does it again; the repetitions that would leave the same receipt
\* are left out.
StartJob(m, j) ==
    /\ doing[m] = None
    /\ manifest[j].hash > 0 /\ manifest[j].miner = m
    /\ Input(j) # None
    /\ receipt[<<m, j>>] # [hash |-> manifest[j].hash, input |-> Input(j)]
    /\ doing' = [doing EXCEPT ![m] = [job |-> j, hash |-> manifest[j].hash,
                                      value |-> Falsify(m, j, Input(j))]]
    /\ UNCHANGED <<manifest, output, receipt, revealed,
                   emitting, replaying, judging, faults>>

\* The outputs are PUT; the input digests are taken only now; the receipt.
FinishJob(m) ==
    /\ doing[m] # None
    /\ LET j == doing[m].job
       IN  /\ output' = [output EXCEPT ![j] = doing[m].value]
           /\ receipt' = [receipt EXCEPT ![<<m, j>>] =
                            [hash |-> doing[m].hash, input |-> Input(j)]]
    /\ doing' = [doing EXCEPT ![m] = None]
    /\ UNCHANGED <<manifest, revealed, emitting, replaying, judging, faults>>

\* drand publishes the round.
Reveal ==
    /\ ~revealed /\ revealed' = TRUE
    /\ UNCHANGED <<manifest, output, receipt, doing,
                   emitting, replaying, judging, faults>>

------------------------------------------------------------------------------
\* AuditReplayRunner.run: body is the receipt, target the hash of the manifest
\* that came with it.  Artifacts are read from the bucket as they are now.

\* Mutant: a sealed artifact counts as a wrong one.
ReplayPendingFails(r, body, target) ==
    LET j == JobOf(r) IN
    IF target # body.hash \/ body.input # Input(j) THEN "fail"
    ELSE IF j \in Timelocked /\ ~revealed THEN "fail"
    ELSE IF output[j] = Input(j) THEN "pass" ELSE "fail"

Replay(r, body, target) ==
    LET j == JobOf(r) IN
    IF target # body.hash \/ body.input # Input(j) THEN "fail"
    ELSE IF j \in Timelocked /\ ~revealed THEN "inconclusive"
    ELSE IF output[j] = Input(j) THEN "pass" ELSE "fail"

\* Any other exception on the way makes the audit inconclusive.
ReplayOutcome(r, body, target, status) ==
    \/ status = Replay(r, body, target) /\ UNCHANGED faults
    \/ status = "inconclusive" /\ Fault

------------------------------------------------------------------------------
\* The audit-jobs pass: AuditJobManager(...).run_once(max_jobs).

\* The queue is reconciled from the bucket, the live auditors are found and
\* the receipts are listed and read.  A heartbeat may be missed.
AuditStart ==
    /\ am.pc = "idle"
    /\ \E seen \in SUBSET Auditors :
        /\ IF seen = Auditors THEN UNCHANGED faults ELSE Fault
        /\ am' = [IdlePass EXCEPT !.pc = "scan", !.todo = receipt,
                                  !.queue = queue, !.accounts = seen]
    /\ UNCHANGED <<mining, audits, queue, lapsed, replaying, judging>>

Scanning(r) == am.pc = "scan" /\ am.todo[r] # None /\ am.emitted < MaxJobs

\* The receipts of the listing are visited one by one, in a shuffled order.
\* What is skipped as handled stays handled, so the skips need no steps.

\* Mutant: nobody looks whether the audit job was emitted before.
HandledUnlessAnswered(r) ==
    verdict[r] # None \/ \E a \in Auditors : result[a][r] # None

Handled(r) ==
    \/ verdict[r] # None
    \/ \E a \in Auditors : result[a][r] # None
    \/ audits[r] # None

NoDepth == [a \in Auditors |-> 0]
Pickable == Candidates(am.accounts, am.inflight, NoDepth)
Picked == PickWorker(Pickable, am.inflight)

NewAudit(r) == [auditor |-> Picked, body |-> am.todo[r], target |-> manifest[JobOf(r)].hash]

\* emit_audit_job: manifest and grant are PUT, the entry stays in memory.
AuditEmit(r) ==
    /\ Scanning(r) /\ ~Handled(r) /\ Pickable # {}
    /\ audits' = [audits EXCEPT ![r] = NewAudit(r)]
    /\ am' = [am EXCEPT !.todo[r] = None, !.queue[r] = Picked, !.emitted = @ + 1,
                        !.inflight = Reserve(@, Picked)]
    /\ UNCHANGED <<mining, queue, lapsed, replaying, judging, faults>>

\* pick_worker finds nobody, or the grant cannot be made after the manifest
\* was PUT.  The pass is over; finally: publishes what it emitted.
AuditRaise(r) ==
    /\ Scanning(r) /\ ~Handled(r)
    /\ IF Pickable = {} THEN UNCHANGED <<audits, faults>>
       ELSE Fault /\ audits' = [audits EXCEPT ![r] = NewAudit(r)]
    /\ am' = [am EXCEPT !.todo = NoReceipts]
    /\ UNCHANGED <<mining, queue, lapsed, replaying, judging>>

\* Mutant: a pass that emitted a single job publishes nothing.
AuditFlushSkips ==
    /\ am.pc = "scan"
    /\ am.emitted = MaxJobs \/ \A r \in Receipts : am.todo[r] # None => Handled(r)
    /\ queue' = IF am.emitted > 1 THEN am.queue ELSE queue
    /\ am' = IdlePass
    /\ UNCHANGED <<mining, audits, lapsed, replaying, judging, faults>>

AuditFlush ==
    /\ am.pc = "scan"
    /\ am.emitted = MaxJobs \/ \A r \in Receipts : am.todo[r] # None => Handled(r)
    /\ queue' = IF am.emitted > 0 THEN am.queue ELSE queue
    /\ am' = IdlePass
    /\ UNCHANGED <<mining, audits, lapsed, replaying, judging, faults>>

AuditCrash ==
    /\ am.pc # "idle" /\ Fault
    /\ am' = IdlePass
    /\ UNCHANGED <<mining, audits, queue, lapsed, replaying, judging>>

------------------------------------------------------------------------------
\* The auditors: _tick_audit_jobs of an audit-eligible miner.

\* Queue entry, manifest and grant are read and found to be for a.
BeginAudit(a, r) ==
    /\ auditing[a] = None
    /\ queue[r] = a /\ r \notin audited[a]
    /\ audits[r] # None /\ audits[r].auditor = a
    /\ r \notin lapsed
    /\ auditing' = [auditing EXCEPT ![a] = [id |-> r, job |-> audits[r]]]
    /\ UNCHANGED <<mining, emitting, audited, result, judging, faults>>

EndAudit(a) ==
    /\ auditing[a] # None
    /\ LET r == auditing[a].id
           job == auditing[a].job
       IN  /\ \E s \in Status :
                /\ ReplayOutcome(r, job.body, job.target, s)
                /\ result' = [result EXCEPT ![a][r] = [hash |-> job.body.hash, status |-> s]]
           /\ audited' = [audited EXCEPT ![a] = @ \cup {r}]
    /\ auditing' = [auditing EXCEPT ![a] = None]
    /\ UNCHANGED <<mining, emitting, judging>>

\* The auditor comes back on a host without its completed-jobs file.
AuditorRestart(a) ==
    /\ (auditing[a] # None \/ audited[a] # {}) /\ Fault
    /\ auditing' = [auditing EXCEPT ![a] = None]
    /\ audited' = [audited EXCEPT ![a] = {}]
    /\ UNCHANGED <<mining, emitting, result, judging>>

\* expires_unix passes before the auditor came to it.
GrantLapses(r) ==
    /\ audits[r] # None /\ r \notin lapsed /\ Fault
    /\ lapsed' = lapsed \cup {r}
    /\ UNCHANGED <<mining, am, audits, queue, replaying, judging>>

------------------------------------------------------------------------------
\* The validator pass: ValidatorNeuron(...).run_once(max_receipts).

ValidatorStart ==
    /\ val.pc = "idle"
    /\ \E mode \in AuditModes :
        val' = [pc |-> "scan", mode |-> mode, todo |-> receipt, checked |-> 0]
    /\ UNCHANGED <<mining, emitting, replaying, verdict, faults>>

Checking(r) == val.pc = "scan" /\ val.todo[r] # None /\ val.checked < MaxReceipts

Write(r, v) ==
    /\ verdict' = [verdict EXCEPT ![r] = v]
    /\ val' = [val EXCEPT !.todo[r] = None, !.checked = @ + 1]

\* verify: audit is the hash of the receipt that was replayed.
Verify(r) ==
    /\ Checking(r) /\ val.mode = "local" /\ verdict[r] = None
    /\ LET body == val.todo[r] IN
       \E s \in Status :
        /\ ReplayOutcome(r, body, manifest[JobOf(r)].hash, s)
        /\ Write(r, [hash |-> body.hash, audit |-> body.hash, status |-> s])
    /\ UNCHANGED <<mining, emitting, replaying>>

\* find_audit_result: the listing is sorted by auditor hotkey.
Answers(r) == {a \in Auditors : result[a][r] # None}
FirstAnswer(r) ==
    result[CHOOSE a \in Answers(r) : \A b \in Answers(r) : a <= b][r]

\* Mutant: any signed result for the receipt id is taken.
UsableUnchecked(r) == Answers(r) # {}

\* find_audit_result and verify_audit_result.
Usable(r) == Answers(r) # {} /\ FirstAnswer(r).hash = val.todo[r].hash

Consume(r) ==
    /\ Checking(r) /\ val.mode = "consume" /\ verdict[r] = None /\ Usable(r)
    /\ Write(r, [hash |-> val.todo[r].hash, audit |-> FirstAnswer(r).hash,
                 status |-> FirstAnswer(r).status])
    /\ UNCHANGED <<mining, emitting, replaying, faults>>

\* Nothing usable to judge from, this time.  A receipt skipped because it has
\* a verdict keeps it: those skips need no steps.
Pass(r) ==
    /\ Checking(r) /\ val.mode = "consume" /\ verdict[r] = None /\ ~Usable(r)
    /\ val' = [val EXCEPT !.todo[r] = None]
    /\ UNCHANGED <<mining, emitting, replaying, verdict, faults>>

\* summarize_scores, with one compute unit per receipt.  unsampled_cu is
\* counted in halves, so that an inconclusive verdict keeps half a unit.
Judged(m, s) == Cardinality({r \in Receipts : /\ r[1] = m /\ receipt[r] # None
                                              /\ verdict[r] # None /\ verdict[r].status = s})
Unjudged(m) == Cardinality({r \in Receipts : /\ r[1] = m /\ receipt[r] # None
                                             /\ verdict[r] = None})
HalfUnits(m) == 2 * Unjudged(m) + Judged(m, "inconclusive")

AtLeastZero(n) == IF n < 0 THEN 0 ELSE n

\* Mutant: failures do not lower the trust.
TrustDespiteFailures(p, f) ==
    IF p + f = 0 THEN [num |-> 1, den |-> 4] ELSE [num |-> 1, den |-> 1]

\* trust_multiplier, a fraction.
Trust(p, f) ==
    IF p + f = 0 THEN [num |-> 1, den |-> 4]
    ELSE IF f > 0 THEN [num |-> AtLeastZero(p - 2 * f), den |-> p + f]
    ELSE [num |-> 1, den |-> 1]

\* score = pass_cu + unsampled_cu * trust_multiplier.  Every pass computes it
\* from the bucket and publishes it; no part of the pipeline reads it back.
Score(m) ==
    LET p == Judged(m, "pass")
        t == Trust(p, Judged(m, "fail"))
    IN  [num |-> 2 * p * t.den + HalfUnits(m) * t.num, den |-> 2 * t.den]

ValidatorEnd ==
    /\ val.pc = "scan"
    /\ \/ val.checked = MaxReceipts
       \/ \A r \in Receipts : val.todo[r] # None => verdict[r] # None
    /\ val' = IdleValidator
    /\ UNCHANGED <<mining, emitting, replaying, verdict, faults>>

ValidatorCrash ==
    /\ val.pc # "idle" /\ Fault
    /\ val' = IdleValidator
    /\ UNCHANGED <<mining, emitting, replaying, verdict>>

------------------------------------------------------------------------------
AuditPass ==
    \/ AuditStart \/ AuditFlush
    \/ \E r \in Receipts : AuditEmit(r) \/ AuditRaise(r)

Auditor(a) == EndAudit(a) \/ \E r \in Receipts : BeginAudit(a, r)

ValidatorPass ==
    \/ ValidatorStart \/ ValidatorEnd
    \/ \E r \in Receipts : Verify(r) \/ Consume(r) \/ Pass(r)

Next ==
    \/ \E j \in Jobs, m \in Miners : Emit(j, m) \/ StartJob(m, j)
    \/ \E m \in Miners : FinishJob(m)
    \/ Reveal
    \/ AuditPass \/ AuditCrash \/ \E r \in Receipts : GrantLapses(r)
    \/ \E a \in Auditors : Auditor(a) \/ AuditorRestart(a)
    \/ ValidatorPass \/ ValidatorCrash

Spec == Init /\ [][Next]_vars

\* entrypoint.sh starts both passes again and again, and auditors poll.
Fairness ==
    /\ WF_vars(AuditPass) /\ WF_vars(ValidatorPass)
    /\ \A a \in Auditors : WF_vars(Auditor(a))

FairSpec == Spec /\ Fairness

------------------------------------------------------------------------------
\* Type invariant.
TypeOK ==
    /\ manifest \in [Jobs -> [hash : Version, miner : Option(Miners)]]
    /\ output \in [Jobs -> Option(Artifact)]
    /\ receipt \in [Receipts -> Option(Body)]
    /\ doing \in [Miners -> Option(Execution)]
    /\ revealed \in BOOLEAN
    /\ am \in [pc : {"idle", "scan"}, todo : [Receipts -> Option(Body)],
               queue : [Receipts -> Option(Auditors)], accounts : SUBSET Auditors,
               inflight : [Auditors -> 0..MaxJobs], emitted : 0..MaxJobs]
    /\ audits \in [Receipts -> Option(AuditManifest)]
    /\ queue \in [Receipts -> Option(Auditors)]
    /\ lapsed \subseteq Receipts
    /\ auditing \in [Auditors -> Option(Replaying)]
    /\ audited \in [Auditors -> SUBSET Receipts]
    /\ result \in [Auditors -> [Receipts -> Option(AuditResult)]]
    /\ val \in [pc : {"idle", "scan"}, mode : Option(AuditModes),
                todo : [Receipts -> Option(Body)], checked : 0..MaxReceipts]
    /\ verdict \in [Receipts -> Option(Verdict)]
    /\ faults \in 0..MaxFaults

\* A verdict rests on an audit of the very receipt it judges, the one with
\* the same manifest hash, even when the miner has meanwhile replaced the
\* receipt under the same id (verify_audit_result).
VerdictOnOwnAudit ==
    \A r \in Receipts : verdict[r] # None => verdict[r].hash = verdict[r].audit

\* As long as no job of the chain up to this one was emitted twice, no verdict
\* is wrong: an honest miner never fails, one that falsified its output never
\* passes, sealed artifacts and failed reads included (AuditReplayRunner.run
\* and its exception handlers).  A second emission of any job upstream may
\* replace the artifact between execution and replay.
JudgedOnMerit ==
    \A r \in Receipts :
        verdict[r] # None /\ (\A j \in 1..JobOf(r) : manifest[j].hash = 1)
        => verdict[r].status # (IF r \in Faulty THEN "pass" ELSE "fail")

\* No receipt is replayed by two auditors, whatever passes start, crash or
\* start again before the first has answered (run_once's exists() test).
AuditedOnce ==
    \A r \in Receipts : Cardinality(Answers(r)) <= 1

\* A published audit entry names the auditor that its manifest names;
\* otherwise the auditor would skip it as not eligible for ever.
EntryMatchesManifest ==
    \A r \in Receipts :
        queue[r] # None => audits[r] # None /\ audits[r].auditor = queue[r]

\* x <= y for fractions with positive denominators.
AtMost(x, y) == x.num * y.den <= y.num * x.den

\* Judging a receipt moves its miner's score the right way: a pass never
\* lowers it, and a failed or inconclusive replay never raises it, through
\* the trust put in the miner's other receipts either (summarize_scores).
VerdictMovesScore ==
    [][\A r \in Receipts : verdict[r] = None /\ verdict'[r] # None =>
          IF verdict'[r].status = "pass" THEN AtMost(Score(r[1]), Score(r[1])')
                                         ELSE AtMost(Score(r[1])', Score(r[1]))]_vars

\* Every receipt gets a verdict, unless something failed on the way or its
\* job was emitted again (the two supervised loops of entrypoint.sh).
ReceiptsJudged ==
    \A r \in Receipts :
        receipt[r] # None ~> verdict[r] # None \/ faults > 0
==============================================================================
