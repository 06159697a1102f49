------------------------- MODULE AuditPipeline_proofs -------------------------
(***************************************************************************)
(* Lemmas about AuditPipeline, for every value of the constants: what its  *)
(* steps do, and that they keep the inductive invariant AInv as long as    *)
(* pick_worker returns an auditor (PicksAuditor).  AuditMerit_proofs shows *)
(* that it does, and has the theorems.                                     *)
(***************************************************************************)
EXTENDS AuditPipeline, TLAPS

\* A leaf that names no prover is tried with SMT, with SMT and more time, and
\* with Zenon.
USE SMT, SMTT(30), Zenon

\* What the types need: the version of a job is bounded by what was spent, an
\* object of a job exists only once the job was emitted, an execution has its
\* input, and a pass has reserved no more than it emitted.
Emitted(j) == manifest[j].hash > 0
Grounded ==
    /\ \A j \in Jobs : /\ manifest[j].hash <= faults + 1
                       /\ output[j] # None => Emitted(j)
                       /\ Emitted(j) => \A i \in 1..j : Emitted(i)
    /\ \A r \in Receipts :
          /\ receipt[r] # None => Emitted(JobOf(r)) /\ Input(JobOf(r)) # None
          /\ am.todo[r] # None => receipt[r] # None
          /\ val.todo[r] # None => receipt[r] # None
          /\ audits[r] # None => receipt[r] # None
          /\ verdict[r] # None => receipt[r] # None
    /\ \A m \in Miners : doing[m] # None => Emitted(doing[m].job) /\ Input(doing[m].job) # None
    /\ \A a \in Auditors : am.inflight[a] <= am.emitted

\* One audit per receipt, and everything that comes of it is its auditor's.
Owned ==
    \A r \in Receipts :
        /\ queue[r] # None => audits[r] # None /\ audits[r].auditor = queue[r]
        /\ am.queue[r] # None => audits[r] # None /\ audits[r].auditor = am.queue[r]
        /\ \A a \in Auditors :
              /\ result[a][r] # None => audits[r] # None /\ audits[r].auditor = a
              /\ auditing[a] # None /\ auditing[a].id = r =>
                    audits[r] # None /\ audits[r].auditor = a /\ auditing[a].job = audits[r]

-----------------------------------------------------------------------------
(* Types.                                                                  *)

\* The state of a pass of AuditJobManager and of ValidatorNeuron.
PassState == [pc : {"idle", "scan"}, todo : [Receipts -> Option(Body)],
              queue : [Receipts -> Option(Auditors)], accounts : SUBSET Auditors,
              inflight : [Auditors -> 0..MaxJobs], emitted : 0..MaxJobs]
ValidatorState == [pc : {"idle", "scan"}, mode : Option(AuditModes),
                   todo : [Receipts -> Option(Body)], checked : 0..MaxReceipts]

\* An idle pass and an idle validator hold nothing.
LEMMA IdleTypes ==
  /\ NoReceipts \in [Receipts -> Option(Body)] /\ NoReceipts \in [Receipts -> Option(Auditors)]
  /\ IdlePass \in PassState /\ IdleValidator \in ValidatorState
  <1>1. /\ NoReceipts \in [Receipts -> Option(Body)]
        /\ NoReceipts \in [Receipts -> Option(Auditors)]
    BY Zenon DEF NoReceipts, Option
  <1>2. 0 \in 0..MaxJobs /\ 0 \in 0..MaxReceipts /\ None \in Option(AuditModes)
    BY AuditAssumption DEF Option
  <1> QED
    BY Zenon, <1>1, <1>2 DEF IdlePass, IdleValidator, PassState, ValidatorState

\* A receipt names its miner and a job of the chain.
LEMMA ReceiptParts ==
  ASSUME NEW r \in Receipts
  PROVE  r[1] \in Miners /\ JobOf(r) \in Jobs /\ r = <<r[1], JobOf(r)>>
  BY DEF Receipts, JobOf

\* The first state is typed and grounded.
LEMMA TypesInit == Init => TypeOK /\ Grounded
  <1> SUFFICES ASSUME Init PROVE TypeOK /\ Grounded
    BY Zenon
  <1>1. TypeOK
    <2>1. 0 \in Version /\ 0 \in 0..MaxFaults
      BY AuditAssumption DEF Version
    <2>2. /\ manifest \in [Jobs -> [hash : Version, miner : Option(Miners)]]
          /\ output \in [Jobs -> Option(Artifact)] /\ receipt \in [Receipts -> Option(Body)]
          /\ doing \in [Miners -> Option(Execution)] /\ revealed \in BOOLEAN
      BY Zenon, <2>1 DEF Init, Option, NoReceipts
    <2>3. am \in PassState /\ val \in ValidatorState
      BY Zenon, IdleTypes DEF Init
    <2>4. /\ audits \in [Receipts -> Option(AuditManifest)]
          /\ queue \in [Receipts -> Option(Auditors)] /\ lapsed \subseteq Receipts
          /\ auditing \in [Auditors -> Option(Replaying)]
          /\ audited \in [Auditors -> SUBSET Receipts]
          /\ result \in [Auditors -> [Receipts -> Option(AuditResult)]]
          /\ verdict \in [Receipts -> Option(Verdict)] /\ faults \in 0..MaxFaults
      BY Zenon, <2>1 DEF Init, Option, NoReceipts
    <2> QED
      BY Zenon, <2>2, <2>3, <2>4 DEF TypeOK, PassState, ValidatorState
  <1>2. Grounded
    <2>1. \A j \in Jobs : manifest[j].hash = 0 /\ output[j] = None
      BY Zenon DEF Init
    <2>2. \A j \in Jobs : manifest[j].hash <= faults + 1 /\ ~Emitted(j)
      BY <2>1 DEF Init, Emitted
    <2>3. \A r \in Receipts : /\ receipt[r] = None /\ am.todo[r] = None /\ val.todo[r] = None
                              /\ audits[r] = None /\ verdict[r] = None
      BY Zenon DEF Init, NoReceipts, IdlePass, IdleValidator
    <2>4. \A m \in Miners : doing[m] = None
      BY Zenon DEF Init
    <2>5. \A a \in Auditors : am.inflight[a] <= am.emitted
      BY DEF Init, IdlePass
    <2> QED
      BY Zenon, <2>1, <2>2, <2>3, <2>4, <2>5 DEF Grounded
  <1> QED
    BY Zenon, <1>1, <1>2

\* A fault budget that is not exceeded.
LEMMA FaultType ==
  ASSUME TypeOK, Fault \/ UNCHANGED faults
  PROVE  faults' \in 0..MaxFaults /\ faults <= faults' /\ faults' \in Nat /\ faults \in Nat
  BY AuditAssumption DEF TypeOK, Fault

\* An input that is there is an artifact.
LEMMA InputType ==
  ASSUME TypeOK, NEW j \in Jobs, Input(j) # None
  PROVE  Input(j) \in Artifact
  <1>1. CASE j = 1
    BY Zenon, <1>1 DEF Input, Artifact
  <1>2. CASE j # 1
    <2>1. j - 1 \in Jobs
      BY <1>2, AuditAssumption DEF Jobs
    <2> QED
      BY Zenon, <1>2, <2>1 DEF Input, TypeOK, Option
  <1> QED
    BY Zenon, <1>1, <1>2

\* pick_worker returns one of the candidates, if there is one.
PicksAuditor == Pickable # {} => Picked \in Auditors

\* The audit job that emit_audit_job makes for a receipt of the listing.
LEMMA NewAuditType ==
  ASSUME TypeOK, Grounded, PicksAuditor, NEW r \in Receipts, am.todo[r] # None, Pickable # {}
  PROVE  Picked \in Auditors /\ NewAudit(r) \in AuditManifest
  <1>1. am \in PassState
    BY Zenon DEF TypeOK, PassState
  <1>2. Picked \in Auditors
    BY Zenon DEF PicksAuditor
  <1>3. am.todo[r] \in Body
    BY Zenon, <1>1 DEF PassState, Option
  <1>4. manifest[JobOf(r)].hash \in Version \ {0}
    <2>1. Emitted(JobOf(r)) /\ JobOf(r) \in Jobs
      BY Zenon, ReceiptParts DEF Grounded
    <2> QED
      BY <2>1, AuditAssumption DEF TypeOK, Version, Emitted
  <1> QED
    BY Zenon, <1>2, <1>3, <1>4 DEF NewAudit, AuditManifest

\* With one audit per receipt, find_audit_result has one answer to choose.
LEMMA OneAnswer ==
  ASSUME Owned, NEW r \in Receipts, Answers(r) # {}
  PROVE  \E a \in Auditors : Answers(r) = {a} /\ FirstAnswer(r) = result[a][r] /\ result[a][r] # None
  <1>1. PICK a \in Auditors : result[a][r] # None
    BY Zenon DEF Answers
  <1>2. \A b \in Auditors : result[b][r] # None => b = a
    BY <1>1 DEF Owned
  <1>3. Answers(r) = {a}
    BY Zenon, <1>1, <1>2 DEF Answers
  <1>4. a <= a
    BY SchedulerAssumption DEF Auditors
  <1>5. (CHOOSE c \in Answers(r) : \A b \in Answers(r) : c <= b) = a
    BY Zenon, <1>3, <1>4
  <1> QED
    BY Zenon, <1>1, <1>3, <1>5 DEF FirstAnswer

\* The steps of the orchestrator with the miners, and of the audit-jobs pass.
MinerSteps ==
    \/ \E j \in Jobs, m \in Miners : Emit(j, m) \/ StartJob(m, j)
    \/ \E m \in Miners : FinishJob(m)
    \/ Reveal
PassSteps == AuditPass \/ AuditCrash \/ \E r \in Receipts : GrantLapses(r)

\* TypeOK by the parts of the state.
MiningOK ==
    /\ manifest \in [Jobs -> [hash : Version, miner : Option(Miners)]]
    /\ output \in [Jobs -> Option(Artifact)] /\ receipt \in [Receipts -> Option(Body)]
    /\ doing \in [Miners -> Option(Execution)] /\ revealed \in BOOLEAN
EmittingOK ==
    /\ am \in PassState /\ audits \in [Receipts -> Option(AuditManifest)]
    /\ queue \in [Receipts -> Option(Auditors)] /\ lapsed \in SUBSET Receipts
ReplayingOK ==
    /\ auditing \in [Auditors -> Option(Replaying)]
    /\ audited \in [Auditors -> SUBSET Receipts]
    /\ result \in [Auditors -> [Receipts -> Option(AuditResult)]]
JudgingOK ==
    val \in ValidatorState /\ verdict \in [Receipts -> Option(Verdict)]

\* TypeOK is what its parts say together.
LEMMA TypeParts ==
  /\ TypeOK <=> MiningOK /\ EmittingOK /\ ReplayingOK /\ JudgingOK /\ faults \in 0..MaxFaults
  /\ TypeOK' <=> MiningOK' /\ EmittingOK' /\ ReplayingOK' /\ JudgingOK' /\ faults' \in 0..MaxFaults
  BY Zenon DEF TypeOK, MiningOK, EmittingOK, ReplayingOK, JudgingOK, PassState, ValidatorState

\* A step that leaves a part of the state alone leaves its types.
LEMMA Untouched ==
  /\ MiningOK /\ UNCHANGED mining => MiningOK'
  /\ EmittingOK /\ UNCHANGED emitting => EmittingOK'
  /\ ReplayingOK /\ UNCHANGED replaying => ReplayingOK'
  /\ JudgingOK /\ UNCHANGED judging => JudgingOK'
  BY Zenon DEF MiningOK, EmittingOK, ReplayingOK, JudgingOK, mining, emitting, replaying, judging

\* The orchestrator's and the miners' steps keep the types.
LEMMA MiningTypes ==
  ASSUME TypeOK, Grounded, MinerSteps
  PROVE  TypeOK'
  <1>1. MiningOK /\ EmittingOK /\ ReplayingOK /\ JudgingOK /\ faults \in 0..MaxFaults
    BY Zenon, TypeParts
  <1>2. /\ \A j \in Jobs : manifest[j] \in [hash : Version, miner : Option(Miners)]
        /\ MaxFaults \in Nat
    BY Zenon, <1>1, AuditAssumption DEF MiningOK
  <1>3. ASSUME NEW j \in Jobs, NEW m \in Miners, Emit(j, m) PROVE TypeOK'
    <2>1. faults' \in 0..MaxFaults /\ UNCHANGED <<emitting, replaying, judging>>
      BY Zenon, <1>3, FaultType DEF Emit
    <2>2. manifest[j].hash + 1 \in Version
      BY <1>1, <1>2, <1>3 DEF Emit, Fault, Version, Grounded
    <2>3. manifest' \in [Jobs -> [hash : Version, miner : Option(Miners)]]
      BY Zenon, <1>1, <1>3, <2>2 DEF Emit, MiningOK, Option
    <2>4. MiningOK'
      BY Zenon, <1>1, <1>3, <2>3 DEF Emit, MiningOK
    <2> QED
      BY Zenon, <1>1, <2>1, <2>4, TypeParts, Untouched
  <1>4. ASSUME NEW j \in Jobs, NEW m \in Miners, StartJob(m, j) PROVE TypeOK'
    <2>1. UNCHANGED <<emitting, replaying, judging, faults>>
      BY Zenon, <1>4 DEF StartJob
    <2>2. Input(j) \in Artifact /\ manifest[j].hash \in Version \ {0}
      BY <1>2, <1>4, InputType DEF StartJob, Version
    <2>3. Falsify(m, j, Input(j)) \in Artifact
      BY Zenon, <2>2 DEF Falsify, Artifact
    <2>4. doing' \in [Miners -> Option(Execution)]
      BY Zenon, <1>1, <1>4, <2>2, <2>3 DEF StartJob, MiningOK, Option, Execution
    <2>5. MiningOK'
      BY Zenon, <1>1, <1>4, <2>4 DEF StartJob, MiningOK
    <2> QED
      BY Zenon, <1>1, <2>1, <2>5, TypeParts, Untouched
  <1>5. ASSUME NEW m \in Miners, FinishJob(m) PROVE TypeOK'
    <2> DEFINE k == doing[m].job
    <2>1. UNCHANGED <<manifest, revealed, emitting, replaying, judging, faults>>
      BY Zenon, <1>5 DEF FinishJob
    <2>2. doing[m] \in Execution
      BY Zenon, <1>1, <1>5 DEF FinishJob, MiningOK, Option
    <2>3. k \in Jobs /\ doing[m].hash \in Version \ {0} /\ doing[m].value \in Artifact
      BY Zenon, <2>2 DEF Execution
    <2>4. Input(k) \in Artifact
      BY Zenon, <1>5, <2>3, InputType DEF FinishJob, Grounded
    <2>5. output' \in [Jobs -> Option(Artifact)]
      BY Zenon, <1>1, <1>5, <2>3 DEF FinishJob, MiningOK, Option
    <2>6. receipt' \in [Receipts -> Option(Body)]
      BY Zenon, <1>1, <1>5, <2>3, <2>4 DEF FinishJob, MiningOK, Option, Body
    <2>7. doing' \in [Miners -> Option(Execution)]
      BY Zenon, <1>1, <1>5 DEF FinishJob, MiningOK, Option
    <2>8. MiningOK'
      BY Zenon, <1>1, <2>1, <2>5, <2>6, <2>7 DEF MiningOK
    <2> QED
      BY Zenon, <1>1, <2>1, <2>8, TypeParts, Untouched
  <1>6. CASE Reveal
    <2>1. MiningOK' /\ UNCHANGED <<emitting, replaying, judging, faults>>
      BY Zenon, <1>1, <1>6 DEF Reveal, MiningOK
    <2> QED
      BY Zenon, <1>1, <2>1, TypeParts, Untouched
  <1> QED
    BY Zenon, <1>3, <1>4, <1>5, <1>6 DEF MinerSteps

\* What an emitted audit job changes in the pass.
LEMMA EmitFields ==
  ASSUME am \in PassState, NEW r \in Receipts, AuditEmit(r), Picked \in Auditors
  PROVE  /\ am'.pc = am.pc /\ am'.todo = [am.todo EXCEPT ![r] = None]
         /\ am'.queue = [am.queue EXCEPT ![r] = Picked] /\ am'.accounts = am.accounts
         /\ am'.emitted = am.emitted + 1 /\ am'.inflight = [am.inflight EXCEPT ![Picked] = @ + 1]
         /\ am' = [pc |-> am'.pc, todo |-> am'.todo, queue |-> am'.queue, accounts |-> am'.accounts,
                   inflight |-> am'.inflight, emitted |-> am'.emitted]
  BY Zenon DEF AuditEmit, PassState, Reserve

\* The audit-jobs pass keeps the types.
LEMMA EmittingTypes ==
  ASSUME TypeOK, Grounded, PicksAuditor, PassSteps
  PROVE  TypeOK'
  <1>1. MiningOK /\ EmittingOK /\ ReplayingOK /\ JudgingOK /\ faults \in 0..MaxFaults
    BY Zenon, TypeParts
  <1>2. UNCHANGED <<mining, replaying, judging>>
    BY Zenon DEF PassSteps, AuditPass, AuditStart, AuditFlush, AuditCrash, AuditEmit, AuditRaise, GrantLapses
  <1>3. faults' \in 0..MaxFaults
    <2>1. Fault \/ UNCHANGED faults
      BY Zenon DEF PassSteps, AuditPass, AuditStart, AuditFlush, AuditCrash, AuditEmit, AuditRaise, GrantLapses
    <2> QED
      BY Zenon, <2>1, FaultType
  <1>4. SUFFICES EmittingOK'
    BY Zenon, <1>1, <1>2, <1>3, TypeParts, Untouched
  <1>5. /\ am \in PassState /\ am.todo \in [Receipts -> Option(Body)]
        /\ am.queue \in [Receipts -> Option(Auditors)] /\ am.accounts \in SUBSET Auditors
        /\ am.inflight \in [Auditors -> 0..MaxJobs] /\ am.emitted \in 0..MaxJobs
        /\ am.pc \in {"idle", "scan"} /\ MaxJobs \in Nat
    BY Zenon, <1>1, AuditAssumption DEF EmittingOK, PassState
  <1>6. CASE AuditStart
    <2>1. PICK seen \in SUBSET Auditors :
            am' = [IdlePass EXCEPT !.pc = "scan", !.todo = receipt, !.queue = queue, !.accounts = seen]
      BY Zenon, <1>6 DEF AuditStart
    <2>2. am' \in PassState
      BY Zenon, <1>1, <2>1, IdleTypes DEF MiningOK, EmittingOK, PassState
    <2> QED
      BY Zenon, <1>1, <1>6, <2>2 DEF AuditStart, EmittingOK
  <1>7. CASE AuditFlush
    BY Zenon, <1>1, <1>5, <1>7, IdleTypes DEF AuditFlush, EmittingOK
  <1>8. CASE AuditCrash
    BY Zenon, <1>1, <1>8, IdleTypes DEF AuditCrash, EmittingOK
  <1>9. ASSUME NEW r \in Receipts, AuditEmit(r) PROVE EmittingOK'
    <2>1. Picked \in Auditors /\ NewAudit(r) \in AuditManifest
      BY Zenon, <1>9, NewAuditType DEF AuditEmit, Scanning
    <2>2. audits' \in [Receipts -> Option(AuditManifest)]
      BY Zenon, <1>1, <1>9, <2>1 DEF AuditEmit, EmittingOK, Option
    <2>3. /\ am'.pc = am.pc /\ am'.todo = [am.todo EXCEPT ![r] = None]
          /\ am'.queue = [am.queue EXCEPT ![r] = Picked] /\ am'.accounts = am.accounts
          /\ am'.emitted = am.emitted + 1 /\ am'.inflight = [am.inflight EXCEPT ![Picked] = @ + 1]
          /\ am' = [pc |-> am'.pc, todo |-> am'.todo, queue |-> am'.queue, accounts |-> am'.accounts,
                    inflight |-> am'.inflight, emitted |-> am'.emitted]
      BY ZenonT(40), <1>5, <1>9, <2>1, EmitFields
    <2>4. am'.todo \in [Receipts -> Option(Body)] /\ am'.queue \in [Receipts -> Option(Auditors)]
      BY Zenon, <1>5, <2>1, <2>3 DEF Option
    <2>5. am'.emitted \in 0..MaxJobs
      BY <1>5, <1>9, <2>3 DEF AuditEmit, Scanning
    <2>6. am.inflight[Picked] + 1 \in 0..MaxJobs
      BY <1>5, <1>9, <2>1 DEF AuditEmit, Scanning, Grounded
    <2>7. am'.inflight \in [Auditors -> 0..MaxJobs]
      BY Zenon, <1>5, <2>3, <2>6
    <2>8. am' \in PassState
      BY Zenon, <1>5, <2>3, <2>4, <2>5, <2>7 DEF PassState
    <2> QED
      BY Zenon, <1>1, <1>9, <2>2, <2>8 DEF AuditEmit, EmittingOK
  <1>10. ASSUME NEW r \in Receipts, AuditRaise(r) PROVE EmittingOK'
    <2>1. am' \in PassState
      BY Zenon, <1>5, <1>10, IdleTypes DEF AuditRaise, PassState
    <2>2. audits' \in [Receipts -> Option(AuditManifest)]
      <3>1. CASE Pickable = {}
        BY Zenon, <1>1, <1>10, <3>1 DEF AuditRaise, EmittingOK
      <3>2. CASE Pickable # {}
        <4>1. NewAudit(r) \in AuditManifest
          BY Zenon, <1>10, <3>2, NewAuditType DEF AuditRaise, Scanning
        <4> QED
          BY Zenon, <1>1, <1>10, <3>2, <4>1 DEF AuditRaise, EmittingOK, Option
      <3> QED
        BY Zenon, <3>1, <3>2
    <2> QED
      BY Zenon, <1>1, <1>10, <2>1, <2>2 DEF AuditRaise, EmittingOK
  <1>11. ASSUME NEW r \in Receipts, GrantLapses(r) PROVE EmittingOK'
    BY Zenon, <1>1, <1>11 DEF GrantLapses, EmittingOK
  <1> QED
    BY Zenon, <1>6, <1>7, <1>8, <1>9, <1>10, <1>11 DEF PassSteps, AuditPass

\* The auditors keep the types.
LEMMA ReplayingTypes ==
  ASSUME TypeOK, NEW a \in Auditors, Auditor(a) \/ AuditorRestart(a)
  PROVE  TypeOK'
  <1>1. MiningOK /\ EmittingOK /\ ReplayingOK /\ JudgingOK /\ faults \in 0..MaxFaults
    BY Zenon, TypeParts
  <1>2. UNCHANGED <<mining, emitting, judging>>
    BY Zenon DEF Auditor, BeginAudit, EndAudit, AuditorRestart
  <1>3. faults' \in 0..MaxFaults
    <2>1. Fault \/ UNCHANGED faults
      BY Zenon DEF Auditor, BeginAudit, EndAudit, AuditorRestart, ReplayOutcome
    <2> QED
      BY Zenon, <2>1, FaultType
  <1>4. SUFFICES ReplayingOK'
    BY Zenon, <1>1, <1>2, <1>3, TypeParts, Untouched
  <1>5. ASSUME NEW r \in Receipts, BeginAudit(a, r) PROVE ReplayingOK'
    <2>1. audits[r] \in AuditManifest
      BY Zenon, <1>1, <1>5 DEF BeginAudit, EmittingOK, Option
    <2>2. auditing' \in [Auditors -> Option(Replaying)]
      BY Zenon, <1>1, <1>5, <2>1 DEF BeginAudit, ReplayingOK, Option, Replaying
    <2> QED
      BY Zenon, <1>1, <1>5, <2>2 DEF BeginAudit, ReplayingOK
  <1>6. CASE EndAudit(a)
    <2>1. auditing[a] \in Replaying
      BY Zenon, <1>1, <1>6 DEF EndAudit, ReplayingOK, Option
    <2>2. auditing[a].id \in Receipts /\ auditing[a].job.body.hash \in Version \ {0}
      BY Zenon, <2>1 DEF Replaying, AuditManifest, Body
    <2>3. PICK s \in Status : result' = [result EXCEPT ![a][auditing[a].id] =
                                 [hash |-> auditing[a].job.body.hash, status |-> s]]
      BY Zenon, <1>6 DEF EndAudit
    <2>4. [hash |-> auditing[a].job.body.hash, status |-> s] \in Option(AuditResult)
      BY Zenon, <2>2 DEF AuditResult, Option
    <2>5. result' \in [Auditors -> [Receipts -> Option(AuditResult)]]
      BY Zenon, <1>1, <2>2, <2>3, <2>4 DEF ReplayingOK
    <2>6. audited' \in [Auditors -> SUBSET Receipts] /\ auditing' \in [Auditors -> Option(Replaying)]
      BY Zenon, <1>1, <1>6, <2>2 DEF EndAudit, ReplayingOK, Option
    <2> QED
      BY Zenon, <2>5, <2>6 DEF ReplayingOK
  <1>7. CASE AuditorRestart(a)
    BY Zenon, <1>1, <1>7 DEF AuditorRestart, ReplayingOK, Option
  <1> QED
    BY Zenon, <1>5, <1>6, <1>7 DEF Auditor

\* The validator pass keeps the types.
LEMMA JudgingTypes ==
  ASSUME TypeOK, Owned, ValidatorPass \/ ValidatorCrash
  PROVE  TypeOK'
  <1>1. MiningOK /\ EmittingOK /\ ReplayingOK /\ JudgingOK /\ faults \in 0..MaxFaults
    BY Zenon, TypeParts
  <1>2. UNCHANGED <<mining, emitting, replaying>>
    BY Zenon DEF ValidatorPass, ValidatorStart, ValidatorEnd, ValidatorCrash, Verify, Consume, Pass
  <1>3. faults' \in 0..MaxFaults
    <2>1. Fault \/ UNCHANGED faults
      BY Zenon DEF ValidatorPass, ValidatorStart, ValidatorEnd, ValidatorCrash, Verify, Consume, Pass, ReplayOutcome
    <2> QED
      BY Zenon, <2>1, FaultType
  <1>4. SUFFICES JudgingOK'
    BY Zenon, <1>1, <1>2, <1>3, TypeParts, Untouched
  <1>5. /\ val \in ValidatorState /\ verdict \in [Receipts -> Option(Verdict)]
        /\ val.checked \in 0..MaxReceipts /\ MaxReceipts \in Nat
        /\ val.todo \in [Receipts -> Option(Body)]
    BY Zenon, <1>1, AuditAssumption DEF JudgingOK, ValidatorState
  <1>6. CASE ValidatorStart
    <2>1. PICK mode \in AuditModes :
            val' = [pc |-> "scan", mode |-> mode, todo |-> receipt, checked |-> 0]
      BY Zenon, <1>6 DEF ValidatorStart
    <2>2. val' \in ValidatorState
      BY <1>1, <1>5, <2>1 DEF MiningOK, ValidatorState, Option
    <2> QED
      BY Zenon, <1>5, <1>6, <2>2 DEF ValidatorStart, JudgingOK
  <1>7. CASE ValidatorEnd \/ ValidatorCrash
    BY Zenon, <1>5, <1>7, IdleTypes DEF ValidatorEnd, ValidatorCrash, JudgingOK
  <1>8. ASSUME NEW r \in Receipts, Pass(r) PROVE JudgingOK'
    <2>1. val' \in ValidatorState
      BY Zenon, <1>5, <1>8 DEF Pass, ValidatorState, Option
    <2> QED
      BY Zenon, <1>5, <1>8, <2>1 DEF Pass, JudgingOK
  <1>9. ASSUME NEW r \in Receipts, NEW v \in Verdict, Checking(r), Write(r, v) PROVE JudgingOK'
    <2>1. val' \in ValidatorState
      <3>1. val.checked + 1 \in 0..MaxReceipts
        BY <1>5, <1>9 DEF Checking
      <3>2. [val.todo EXCEPT ![r] = None] \in [Receipts -> Option(Body)]
        BY Zenon, <1>5 DEF Option
      <3>3. val' = [val EXCEPT !.todo = [val.todo EXCEPT ![r] = None], !.checked = val.checked + 1]
        BY Zenon, <1>5, <1>9 DEF Write, ValidatorState
      <3> QED
        BY Zenon, <1>5, <3>1, <3>2, <3>3 DEF ValidatorState
    <2>2. verdict' \in [Receipts -> Option(Verdict)]
      BY Zenon, <1>5, <1>9 DEF Write, Option
    <2> QED
      BY Zenon, <2>1, <2>2 DEF JudgingOK
  <1>10. ASSUME NEW r \in Receipts, Checking(r) PROVE val.todo[r].hash \in Version \ {0}
    <2>1. val.todo[r] \in Body
      BY Zenon, <1>5, <1>10 DEF Checking, Option
    <2> QED
      BY Zenon, <2>1 DEF Body
  <1>11. ASSUME NEW r \in Receipts, Verify(r) PROVE JudgingOK'
    <2>1. Checking(r)
      BY Zenon, <1>11 DEF Verify
    <2>2. PICK s \in Status :
            Write(r, [hash |-> val.todo[r].hash, audit |-> val.todo[r].hash, status |-> s])
      BY Zenon, <1>11 DEF Verify
    <2>3. [hash |-> val.todo[r].hash, audit |-> val.todo[r].hash, status |-> s] \in Verdict
      BY Zenon, <1>10, <2>1 DEF Verdict
    <2> QED
      BY Zenon, <1>9, <2>1, <2>2, <2>3
  <1>12. ASSUME NEW r \in Receipts, Consume(r) PROVE JudgingOK'
    <2>1. Checking(r) /\ Answers(r) # {}
      BY Zenon, <1>12 DEF Consume, Usable
    <2>2. FirstAnswer(r) \in AuditResult
      BY <1>1, <2>1, OneAnswer DEF ReplayingOK, Option
    <2>3. [hash |-> val.todo[r].hash, audit |-> FirstAnswer(r).hash,
           status |-> FirstAnswer(r).status] \in Verdict
      BY Zenon, <1>10, <2>1, <2>2 DEF AuditResult, Verdict
    <2> QED
      BY Zenon, <1>9, <1>12, <2>1, <2>3 DEF Consume
  <1> QED
    BY Zenon, <1>6, <1>7, <1>8, <1>11, <1>12 DEF ValidatorPass

\* Every step is of one of the four parties.
LEMMA Parties ==
  ASSUME [Next]_vars
  PROVE  \/ MinerSteps \/ PassSteps \/ ValidatorPass \/ ValidatorCrash \/ UNCHANGED vars
         \/ \E a \in Auditors : Auditor(a) \/ AuditorRestart(a)
  BY Zenon DEF Next, MinerSteps, PassSteps

\* Every step keeps the types.
LEMMA TypesStep ==
  ASSUME TypeOK, Grounded, Owned, PicksAuditor, [Next]_vars
  PROVE  TypeOK'
  <1>1. CASE UNCHANGED vars
    <2>1. MiningOK /\ EmittingOK /\ ReplayingOK /\ JudgingOK /\ faults \in 0..MaxFaults
      BY Zenon, TypeParts
    <2> QED
      BY Zenon, <1>1, <2>1, TypeParts, Untouched DEF vars
  <1> QED
    BY Zenon, <1>1, Parties, MiningTypes, EmittingTypes, ReplayingTypes, JudgingTypes

-----------------------------------------------------------------------------
(* What a step may do to the objects of a receipt.                         *)

\* The two listings come from the receipts in the bucket.
ListStep(r) ==
    /\ am'.todo[r] \in {None, am.todo[r], receipt[r]}
    /\ val'.todo[r] \in {None, val.todo[r], receipt[r]}

\* An audit job is made once, from the listing, before any answer.
AuditStep(r) ==
    \/ audits'[r] = audits[r] /\ am'.queue[r] \in {None, am.queue[r], queue[r]}
    \/ /\ ~Handled(r) /\ am.todo[r] # None /\ audits'[r] # None
       /\ audits'[r].body = am.todo[r] /\ audits'[r].target = manifest[JobOf(r)].hash
       /\ am'.queue[r] \in {am.queue[r], audits'[r].auditor}

\* The published queue is an old one or the pass's own.
QueueStep(r) == queue'[r] \in {queue[r], am.queue[r]}

\* An auditor starts on a job of its own and answers for the job it is on.
AuditorStep(a) ==
    /\ \/ auditing'[a] \in {None, auditing[a]}
       \/ \E r \in Receipts : /\ audits[r] # None /\ audits[r].auditor = a
                              /\ auditing'[a] = [id |-> r, job |-> audits[r]]
    /\ \A r \in Receipts : result'[a][r] # result[a][r] =>
          /\ auditing[a] # None /\ auditing[a].id = r
          /\ result'[a][r].status \in
                {"inconclusive", Replay(r, auditing[a].job.body, auditing[a].job.target)}

\* A verdict is written once, for a receipt of the listing, from a replay of
\* it or from an answer for the same manifest hash.
VerdictStep(r) ==
    \/ verdict'[r] = verdict[r]
    \/ /\ verdict[r] = None /\ val.todo[r] # None
       /\ verdict'[r].hash = verdict'[r].audit
       /\ \/ verdict'[r].status \in
                {"inconclusive", Replay(r, val.todo[r], manifest[JobOf(r)].hash)}
          \/ \E a \in Auditors : result[a][r] # None /\ verdict'[r].status = result[a][r].status

\* An audit pass touches only its own state, and a receipt's part of it only as
\* ListStep, AuditStep and QueueStep say.
LEMMA PassKeeps ==
  ASSUME TypeOK, Grounded, PicksAuditor, PassSteps, NEW r \in Receipts
  PROVE  UNCHANGED <<mining, replaying, judging>> /\ ListStep(r) /\ AuditStep(r) /\ QueueStep(r)
  <1>1. UNCHANGED <<mining, replaying, judging>>
    BY Zenon DEF PassSteps, AuditPass, AuditStart, AuditFlush, AuditCrash, AuditEmit, AuditRaise, GrantLapses
  <1>2. /\ am \in PassState /\ am.todo \in [Receipts -> Option(Body)]
        /\ am.queue \in [Receipts -> Option(Auditors)]
        /\ audits \in [Receipts -> Option(AuditManifest)]
    BY Zenon, TypeParts DEF EmittingOK, PassState
  <1>3. val'.todo[r] \in {None, val.todo[r], receipt[r]}
    BY Zenon, <1>1 DEF judging
  <1>4. ASSUME am' = IdlePass PROVE am'.todo[r] = None /\ am'.queue[r] = None
    BY Zenon, <1>4 DEF IdlePass, NoReceipts
  <1>5. CASE AuditStart
    <2>1. am'.todo = receipt /\ am'.queue = queue /\ UNCHANGED <<audits, queue>>
      BY Zenon, <1>5 DEF AuditStart, IdlePass
    <2> QED
      BY Zenon, <1>1, <1>3, <2>1 DEF ListStep, AuditStep, QueueStep
  <1>6. CASE AuditFlush
    <2>1. am' = IdlePass /\ audits' = audits /\ queue' \in {queue, am.queue}
      BY Zenon, <1>6 DEF AuditFlush
    <2> QED
      BY Zenon, <1>1, <1>3, <1>4, <2>1 DEF ListStep, AuditStep, QueueStep
  <1>7. CASE AuditCrash
    <2>1. am' = IdlePass /\ audits' = audits /\ queue' = queue
      BY Zenon, <1>7 DEF AuditCrash
    <2> QED
      BY Zenon, <1>1, <1>3, <1>4, <2>1 DEF ListStep, AuditStep, QueueStep
  <1>8. ASSUME NEW q \in Receipts, am.todo[q] # None, Pickable # {}
        PROVE  /\ NewAudit(q) # None /\ NewAudit(q).auditor = Picked
               /\ NewAudit(q).body = am.todo[q] /\ NewAudit(q).target = manifest[JobOf(q)].hash
    <2>1. NewAudit(q) # None
      BY Zenon, <1>8, NewAuditType, NoneAssumption
    <2> QED
      BY Zenon, <2>1 DEF NewAudit
  <1>9. ASSUME NEW q \in Receipts, AuditEmit(q)
        PROVE  ListStep(r) /\ AuditStep(r) /\ QueueStep(r)
    <2>1. Picked \in Auditors /\ am.todo[q] # None /\ Pickable # {} /\ ~Handled(q)
      BY Zenon, <1>9, NewAuditType DEF AuditEmit, Scanning
    <2>2. /\ am'.todo = [am.todo EXCEPT ![q] = None] /\ am'.queue = [am.queue EXCEPT ![q] = Picked]
          /\ audits' = [audits EXCEPT ![q] = NewAudit(q)] /\ queue' = queue
      BY Zenon, <1>2, <1>9, <2>1, EmitFields DEF AuditEmit
    <2>3. ListStep(r) /\ QueueStep(r)
      BY Zenon, <1>2, <1>3, <2>2 DEF ListStep, QueueStep
    <2>4. CASE r = q
      BY Zenon, <1>2, <1>8, <2>1, <2>2, <2>3, <2>4 DEF AuditStep
    <2>5. CASE r # q
      BY Zenon, <1>2, <2>2, <2>3, <2>5 DEF AuditStep
    <2> QED
      BY Zenon, <2>3, <2>4, <2>5
  <1>10. ASSUME NEW q \in Receipts, AuditRaise(q)
         PROVE  ListStep(r) /\ AuditStep(r) /\ QueueStep(r)
    <2>1. am.todo[q] # None /\ ~Handled(q)
      BY Zenon, <1>10 DEF AuditRaise, Scanning
    <2>2. am'.todo = NoReceipts /\ am'.queue = am.queue /\ queue' = queue
      BY Zenon, <1>2, <1>10 DEF AuditRaise, PassState
    <2>3. \/ audits' = audits
          \/ Pickable # {} /\ audits' = [audits EXCEPT ![q] = NewAudit(q)]
      BY Zenon, <1>10 DEF AuditRaise
    <2>4. ListStep(r) /\ QueueStep(r)
      BY Zenon, <1>3, <2>2 DEF ListStep, QueueStep, NoReceipts
    <2>5. CASE r = q
      BY Zenon, <1>2, <1>8, <2>1, <2>2, <2>3, <2>4, <2>5 DEF AuditStep
    <2>6. CASE r # q
      BY Zenon, <1>2, <2>2, <2>3, <2>4, <2>6 DEF AuditStep
    <2> QED
      BY Zenon, <2>4, <2>5, <2>6
  <1>11. ASSUME NEW q \in Receipts, GrantLapses(q)
         PROVE  ListStep(r) /\ AuditStep(r) /\ QueueStep(r)
    <2>1. UNCHANGED <<am, audits, queue>>
      BY Zenon, <1>11 DEF GrantLapses
    <2> QED
      BY Zenon, <1>3, <2>1 DEF ListStep, AuditStep, QueueStep
  <1> QED
    BY Zenon, <1>1, <1>5, <1>6, <1>7, <1>9, <1>10, <1>11 DEF PassSteps, AuditPass

\* Auditors touch only their replays and results, as AuditorStep says.
LEMMA AuditorsKeep ==
  ASSUME TypeOK, NEW b \in Auditors, Auditor(b) \/ AuditorRestart(b), NEW a \in Auditors
  PROVE  UNCHANGED <<mining, emitting, judging>> /\ AuditorStep(a)
  <1>1. UNCHANGED <<mining, emitting, judging>>
    BY Zenon DEF Auditor, BeginAudit, EndAudit, AuditorRestart
  <1>2. /\ auditing \in [Auditors -> Option(Replaying)]
        /\ result \in [Auditors -> [Receipts -> Option(AuditResult)]]
    BY Zenon, TypeParts DEF ReplayingOK
  <1>3. ASSUME NEW r \in Receipts, BeginAudit(b, r) PROVE AuditorStep(a)
    <2>1. /\ auditing' = [auditing EXCEPT ![b] = [id |-> r, job |-> audits[r]]] /\ result' = result
          /\ audits[r] # None /\ audits[r].auditor = b
      BY Zenon, <1>3 DEF BeginAudit
    <2> QED
      BY Zenon, <1>2, <2>1 DEF AuditorStep
  <1>4. CASE EndAudit(b)
    <2> DEFINE r == auditing[b].id  job == auditing[b].job
    <2>1. PICK s \in Status :
            /\ ReplayOutcome(r, job.body, job.target, s)
            /\ result' = [result EXCEPT ![b][r] = [hash |-> job.body.hash, status |-> s]]
      BY Zenon, <1>4 DEF EndAudit
    <2>2. s \in {"inconclusive", Replay(r, job.body, job.target)}
      BY Zenon, <2>1 DEF ReplayOutcome
    <2>3. auditing[b] # None /\ auditing' = [auditing EXCEPT ![b] = None]
      BY Zenon, <1>4 DEF EndAudit
    <2>4. auditing[b] \in Replaying
      BY Zenon, <1>2, <2>3 DEF Option
    <2>5. r \in Receipts
      BY Zenon, <2>4 DEF Replaying
    <2>6. ASSUME NEW q \in Receipts, result'[a][q] # result[a][q]
          PROVE  a = b /\ q = r /\ result'[a][q].status = s
      BY Zenon, <1>2, <2>1, <2>5, <2>6
    <2>7. auditing'[a] \in {None, auditing[a]}
      BY Zenon, <1>2, <2>3
    <2> QED
      BY Zenon, <1>1, <2>2, <2>3, <2>6, <2>7 DEF AuditorStep
  <1>5. CASE AuditorRestart(b)
    BY Zenon, <1>2, <1>5 DEF AuditorRestart, AuditorStep
  <1> QED
    BY Zenon, <1>1, <1>3, <1>4, <1>5 DEF Auditor

\* The validator touches only its list and the verdicts, as ListStep and
\* VerdictStep say.
LEMMA ValidatorKeeps ==
  ASSUME TypeOK, Owned, ValidatorPass \/ ValidatorCrash, NEW r \in Receipts
  PROVE  UNCHANGED <<mining, emitting, replaying>> /\ ListStep(r) /\ VerdictStep(r)
  <1>1. UNCHANGED <<mining, emitting, replaying>>
    BY Zenon DEF ValidatorPass, ValidatorStart, ValidatorEnd, ValidatorCrash, Verify, Consume, Pass
  <1>2. /\ val \in ValidatorState /\ val.todo \in [Receipts -> Option(Body)]
        /\ verdict \in [Receipts -> Option(Verdict)]
    BY Zenon, TypeParts DEF JudgingOK, ValidatorState
  <1>3. am'.todo[r] \in {None, am.todo[r], receipt[r]}
    BY Zenon, <1>1 DEF emitting
  <1>4. CASE ValidatorStart
    <2>1. val'.todo = receipt /\ verdict' = verdict
      BY <1>4 DEF ValidatorStart
    <2> QED
      BY Zenon, <1>1, <1>3, <2>1 DEF ListStep, VerdictStep
  <1>5. CASE ValidatorEnd \/ ValidatorCrash
    <2>1. val'.todo[r] = None /\ verdict' = verdict
      BY <1>5 DEF ValidatorEnd, ValidatorCrash, IdleValidator, NoReceipts
    <2> QED
      BY Zenon, <1>1, <1>3, <2>1 DEF ListStep, VerdictStep
  <1>6. ASSUME NEW q \in Receipts, Pass(q) PROVE ListStep(r) /\ VerdictStep(r)
    <2>1. val'.todo = [val.todo EXCEPT ![q] = None] /\ verdict' = verdict
      BY Zenon, <1>2, <1>6 DEF Pass, ValidatorState
    <2> QED
      BY Zenon, <1>2, <1>3, <2>1 DEF ListStep, VerdictStep
  <1>7. ASSUME NEW q \in Receipts, NEW v, Write(q, v)
        PROVE  ListStep(r) /\ verdict' = [verdict EXCEPT ![q] = v]
    <2>1. val'.todo = [val.todo EXCEPT ![q] = None] /\ verdict' = [verdict EXCEPT ![q] = v]
      BY Zenon, <1>2, <1>7 DEF Write, ValidatorState
    <2> QED
      BY Zenon, <1>2, <1>3, <2>1 DEF ListStep
  <1>8. ASSUME NEW q \in Receipts, Verify(q) PROVE ListStep(r) /\ VerdictStep(r)
    <2> DEFINE h == val.todo[q].hash
    <2>1. verdict[q] = None /\ val.todo[q] # None
      BY Zenon, <1>8 DEF Verify, Checking
    <2>2. PICK s \in Status :
            /\ ReplayOutcome(q, val.todo[q], manifest[JobOf(q)].hash, s)
            /\ Write(q, [hash |-> h, audit |-> h, status |-> s])
      BY Zenon, <1>8 DEF Verify
    <2>3. s \in {"inconclusive", Replay(q, val.todo[q], manifest[JobOf(q)].hash)}
      BY Zenon, <2>2 DEF ReplayOutcome
    <2>4. ListStep(r) /\ verdict' = [verdict EXCEPT ![q] = [hash |-> h, audit |-> h, status |-> s]]
      BY Zenon, <1>7, <2>2
    <2>5. CASE r = q
      BY Zenon, <1>2, <2>1, <2>3, <2>4, <2>5 DEF VerdictStep
    <2>6. CASE r # q
      BY Zenon, <1>2, <2>4, <2>6 DEF VerdictStep
    <2> QED
      BY Zenon, <2>5, <2>6
  <1>9. ASSUME NEW q \in Receipts, Consume(q) PROVE ListStep(r) /\ VerdictStep(r)
    <2> DEFINE v == [hash |-> val.todo[q].hash, audit |-> FirstAnswer(q).hash,
                     status |-> FirstAnswer(q).status]
    <2>1. /\ verdict[q] = None /\ val.todo[q] # None /\ Answers(q) # {}
          /\ FirstAnswer(q).hash = val.todo[q].hash
      BY Zenon, <1>9 DEF Consume, Checking, Usable
    <2>2. PICK a \in Auditors : FirstAnswer(q) = result[a][q] /\ result[a][q] # None
      BY Zenon, <2>1, OneAnswer
    <2>3. v.hash = v.audit /\ v.status = result[a][q].status
      BY Zenon, <2>1, <2>2
    <2>4. Write(q, v)
      BY Zenon, <1>9 DEF Consume
    <2> HIDE DEF v
    <2>5. ListStep(r) /\ verdict' = [verdict EXCEPT ![q] = v]
      BY Zenon, <1>7, <2>4
    <2>6. CASE r = q
      BY Zenon, <1>2, <2>1, <2>2, <2>3, <2>5, <2>6 DEF VerdictStep
    <2>7. CASE r # q
      BY Zenon, <1>2, <2>5, <2>7 DEF VerdictStep
    <2> QED
      BY Zenon, <2>6, <2>7
  <1> QED
    BY Zenon, <1>1, <1>4, <1>5, <1>6, <1>8, <1>9 DEF ValidatorPass

\* All of it, for any step; the orchestrator and the miners touch none of it.
LEMMA StepEffects ==
  ASSUME TypeOK, Grounded, Owned, PicksAuditor, [Next]_vars
  PROVE  /\ MinerSteps \/ UNCHANGED mining
         /\ MinerSteps => UNCHANGED <<emitting, replaying, judging>>
         /\ \A r \in Receipts : ListStep(r) /\ AuditStep(r) /\ QueueStep(r) /\ VerdictStep(r)
         /\ \A a \in Auditors : AuditorStep(a)
         /\ UNCHANGED <<audits, result>> \/ UNCHANGED verdict
  <1>1. ASSUME UNCHANGED emitting, NEW r \in Receipts
        PROVE  am'.todo[r] = am.todo[r] /\ AuditStep(r) /\ QueueStep(r)
    BY Zenon, <1>1 DEF emitting, AuditStep, QueueStep
  <1>2. ASSUME UNCHANGED judging, NEW r \in Receipts
        PROVE  val'.todo[r] = val.todo[r] /\ VerdictStep(r)
    BY Zenon, <1>2 DEF judging, VerdictStep
  <1>3. ASSUME UNCHANGED replaying, NEW a \in Auditors PROVE AuditorStep(a)
    BY Zenon, <1>3 DEF replaying, AuditorStep
  <1>4. ASSUME UNCHANGED <<emitting, judging>>, NEW r \in Receipts PROVE ListStep(r)
    BY Zenon, <1>1, <1>2, <1>4 DEF ListStep
  <1>5. ASSUME MinerSteps PROVE UNCHANGED <<emitting, replaying, judging>>
    BY Zenon, <1>5 DEF MinerSteps, Emit, StartJob, FinishJob, Reveal
  <1>6. CASE MinerSteps \/ UNCHANGED vars
    <2>1. UNCHANGED <<emitting, replaying, judging>> /\ (MinerSteps \/ UNCHANGED mining)
      BY Zenon, <1>5, <1>6 DEF vars
    <2>2. UNCHANGED verdict
      BY Zenon, <2>1 DEF judging
    <2> QED
      BY Zenon, <1>1, <1>2, <1>3, <1>4, <2>1, <2>2
  <1>7. CASE PassSteps /\ ~MinerSteps
    <2>1. ASSUME NEW r \in Receipts
          PROVE  UNCHANGED <<mining, replaying, judging>> /\ ListStep(r) /\ AuditStep(r) /\ QueueStep(r)
      BY Zenon, <1>7, PassKeeps
    <2>2. UNCHANGED <<mining, replaying, judging>>
      BY Zenon, <1>7 DEF PassSteps, AuditPass, AuditStart, AuditFlush, AuditCrash, AuditEmit, AuditRaise, GrantLapses
    <2>3. UNCHANGED verdict
      BY Zenon, <2>2 DEF judging
    <2> QED
      BY Zenon, <1>2, <1>3, <1>7, <2>1, <2>2, <2>3
  <1>8. CASE (ValidatorPass \/ ValidatorCrash) /\ ~MinerSteps
    <2>1. ASSUME NEW r \in Receipts PROVE ListStep(r) /\ VerdictStep(r)
      BY Zenon, <1>8, ValidatorKeeps
    <2>2. UNCHANGED <<mining, emitting, replaying>>
      BY Zenon, <1>8 DEF ValidatorPass, ValidatorStart, ValidatorEnd, ValidatorCrash, Verify, Consume, Pass
    <2>3. UNCHANGED <<audits, result>>
      BY Zenon, <2>2 DEF emitting, replaying
    <2> QED
      BY Zenon, <1>1, <1>3, <1>8, <2>1, <2>2, <2>3
  <1>9. ASSUME NEW b \in Auditors, Auditor(b) \/ AuditorRestart(b), ~MinerSteps
        PROVE  /\ UNCHANGED <<mining, emitting, judging>>
               /\ \A a \in Auditors : AuditorStep(a)
    BY Zenon, <1>9, AuditorsKeep
  <1>10. CASE ~MinerSteps /\ \E b \in Auditors : Auditor(b) \/ AuditorRestart(b)
    <2>1. UNCHANGED <<mining, emitting, judging>> /\ \A a \in Auditors : AuditorStep(a)
      BY Zenon, <1>9, <1>10
    <2>2. UNCHANGED verdict
      BY Zenon, <2>1 DEF judging
    <2> QED
      BY Zenon, <1>1, <1>2, <1>4, <1>10, <2>1, <2>2
  <1> QED
    BY Zenon, <1>6, <1>7, <1>8, <1>10, Parties

-----------------------------------------------------------------------------
(* Grounded, Owned and the three invariants that follow from them.         *)

\* At the start there is nothing to own.
LEMMA OwnedInit == Init => Owned
  <1> SUFFICES ASSUME Init PROVE Owned
    BY Zenon
  <1>1. \A r \in Receipts : queue[r] = None /\ am.queue[r] = None
    BY Zenon DEF Init, NoReceipts, IdlePass
  <1>2. \A a \in Auditors : auditing[a] = None /\ \A r \in Receipts : result[a][r] = None
    BY Zenon DEF Init, NoReceipts
  <1> QED
    BY Zenon, <1>1, <1>2 DEF Owned

\* Every step keeps Owned.
LEMMA OwnedStep ==
  ASSUME TypeOK, Grounded, Owned, PicksAuditor, [Next]_vars
  PROVE  Owned'
  <1>1. SUFFICES ASSUME NEW r \in Receipts
                 PROVE  /\ queue'[r] # None => audits'[r] # None /\ audits'[r].auditor = queue'[r]
                        /\ am'.queue[r] # None => audits'[r] # None /\ audits'[r].auditor = am'.queue[r]
                        /\ \A a \in Auditors :
                              /\ result'[a][r] # None => audits'[r] # None /\ audits'[r].auditor = a
                              /\ auditing'[a] # None /\ auditing'[a].id = r =>
                                    /\ audits'[r] # None /\ audits'[r].auditor = a
                                    /\ auditing'[a].job = audits'[r]
    BY Zenon DEF Owned, Receipts, Jobs, Auditors
  <1>2. AuditStep(r) /\ QueueStep(r) /\ \A a \in Auditors : AuditorStep(a)
    BY Zenon, StepEffects
  <1>3. /\ queue[r] # None => audits[r] # None /\ audits[r].auditor = queue[r]
        /\ am.queue[r] # None => audits[r] # None /\ audits[r].auditor = am.queue[r]
        /\ \A a \in Auditors :
              /\ result[a][r] # None => audits[r] # None /\ audits[r].auditor = a
              /\ auditing[a] # None /\ auditing[a].id = r =>
                    audits[r] # None /\ audits[r].auditor = a /\ auditing[a].job = audits[r]
    BY Zenon DEF Owned
  <1>4. ASSUME NEW a \in Auditors
        PROVE  /\ result'[a][r] # None =>
                     result[a][r] # None \/ (auditing[a] # None /\ auditing[a].id = r)
               /\ auditing'[a] # None /\ auditing'[a].id = r =>
                     \/ auditing'[a] = auditing[a]
                     \/ audits[r] # None /\ audits[r].auditor = a /\ auditing'[a].job = audits[r]
    <2>1. AuditorStep(a)
      BY Zenon, <1>2
    <2>2. result'[a][r] # result[a][r] => auditing[a] # None /\ auditing[a].id = r
      BY Zenon, <2>1 DEF AuditorStep
    <2>3. \/ auditing'[a] \in {None, auditing[a]}
          \/ \E q \in Receipts : /\ audits[q] # None /\ audits[q].auditor = a
                                 /\ auditing'[a] = [id |-> q, job |-> audits[q]]
      BY Zenon, <2>1 DEF AuditorStep
    <2>4. ASSUME NEW q \in Receipts, auditing'[a] = [id |-> q, job |-> audits[q]], auditing'[a].id = r
          PROVE  q = r /\ auditing'[a].job = audits[r]
      BY <2>4
    <2> QED
      BY Zenon, <2>2, <2>3, <2>4
  <1>5. CASE audits'[r] = audits[r] /\ am'.queue[r] \in {None, am.queue[r], queue[r]}
    BY Zenon, <1>2, <1>3, <1>4, <1>5 DEF QueueStep
  <1>6. CASE /\ ~Handled(r) /\ audits'[r] # None
             /\ am'.queue[r] \in {am.queue[r], audits'[r].auditor}
    <2>1. audits[r] = None
      BY Zenon, <1>6 DEF Handled
    <2> QED
      BY Zenon, <1>2, <1>3, <1>4, <1>6, <2>1 DEF QueueStep
  <1> QED
    BY Zenon, <1>2, <1>5, <1>6 DEF AuditStep

\* Nothing that was emitted, produced or receipted goes away.
LEMMA MiningGrows ==
  ASSUME TypeOK, Grounded, [Next]_vars
  PROVE  /\ \A j \in Jobs : /\ Emitted(j) => Emitted(j)'
                            /\ output[j] # None => output'[j] # None
                            /\ Input(j) # None => Input(j)' # None
         /\ \A r \in Receipts : receipt[r] # None => receipt'[r] # None
         /\ faults <= faults' /\ faults \in Nat /\ faults' \in Nat
  <1> USE DEF Emitted
  <1>1. MiningOK /\ \A j \in Jobs : manifest[j].hash \in Nat
    BY TypeParts, AuditAssumption DEF MiningOK, Version
  <1>2. faults <= faults' /\ faults \in Nat /\ faults' \in Nat
    <2>1. Fault \/ UNCHANGED faults
      <3>1. CASE MinerSteps
        BY Zenon, <3>1 DEF MinerSteps, Emit, StartJob, FinishJob, Reveal
      <3>2. CASE PassSteps
        BY Zenon, <3>2 DEF PassSteps, AuditPass, AuditStart, AuditFlush, AuditCrash, AuditEmit, AuditRaise,
                    GrantLapses
      <3>3. CASE ValidatorPass \/ ValidatorCrash
        BY Zenon, <3>3 DEF ValidatorPass, ValidatorStart, ValidatorEnd, ValidatorCrash, Verify, Consume,
                    Pass, ReplayOutcome
      <3>4. ASSUME NEW a \in Auditors, Auditor(a) \/ AuditorRestart(a) PROVE Fault \/ UNCHANGED faults
        BY Zenon, <3>4 DEF Auditor, BeginAudit, EndAudit, AuditorRestart, ReplayOutcome
      <3>5. CASE UNCHANGED vars
        BY Zenon, <3>5 DEF vars
      <3> QED
        BY Zenon, <3>1, <3>2, <3>3, <3>4, <3>5, Parties
    <2> QED
      BY Zenon, <2>1, FaultType
  <1>3. /\ \A j \in Jobs : Emitted(j) => Emitted(j)'
        /\ \A j \in Jobs : output[j] # None => output'[j] # None
        /\ \A r \in Receipts : receipt[r] # None => receipt'[r] # None
    <2>1. CASE UNCHANGED mining
      BY Zenon, <2>1 DEF mining
    <2>2. ASSUME NEW j \in Jobs, NEW m \in Miners, Emit(j, m)
          PROVE  UNCHANGED <<output, receipt>> /\ \A k \in Jobs : Emitted(k) => Emitted(k)'
      BY <1>1, <2>2 DEF Emit, MiningOK
    <2>3. ASSUME NEW j \in Jobs, NEW m \in Miners, StartJob(m, j) PROVE UNCHANGED <<manifest, output, receipt>>
      BY Zenon, <2>3 DEF StartJob
    <2>4. ASSUME NEW m \in Miners, FinishJob(m)
          PROVE  /\ UNCHANGED manifest
                 /\ \A j \in Jobs : output[j] # None => output'[j] # None
                 /\ \A r \in Receipts : receipt[r] # None => receipt'[r] # None
      <3> DEFINE k == doing[m].job  b == [hash |-> doing[m].hash, input |-> Input(k)]
      <3>1. /\ output' = [output EXCEPT ![k] = doing[m].value]
            /\ receipt' = [receipt EXCEPT ![<<m, k>>] = b] /\ manifest' = manifest
        BY Zenon, <2>4 DEF FinishJob
      <3>2. doing[m] \in Execution
        BY Zenon, <1>1, <2>4 DEF FinishJob, MiningOK, Option
      <3>3. doing[m].value \in Artifact /\ k \in Jobs /\ doing[m].hash \in Version \ {0}
        BY Zenon, <3>2 DEF Execution
      <3>4. b \in Body
        BY Zenon, <2>4, <3>3, InputType DEF FinishJob, Grounded, Body
      <3>5. doing[m].value # None /\ b # None
        BY Zenon, <3>3, <3>4, NoneAssumption
      <3> HIDE DEF b
      <3> QED
        BY Zenon, <1>1, <3>1, <3>5 DEF MiningOK
    <2>5. CASE Reveal
      BY Zenon, <2>5 DEF Reveal
    <2>6. MinerSteps \/ UNCHANGED mining
      <3>1. ASSUME NEW a \in Auditors, Auditor(a) \/ AuditorRestart(a) PROVE UNCHANGED mining
        BY Zenon, <3>1 DEF Auditor, BeginAudit, EndAudit, AuditorRestart
      <3>2. PassSteps => UNCHANGED mining
        BY Zenon DEF PassSteps, AuditPass, AuditStart, AuditFlush, AuditCrash, AuditEmit, AuditRaise, GrantLapses
      <3>3. ValidatorPass \/ ValidatorCrash => UNCHANGED mining
        BY Zenon DEF ValidatorPass, ValidatorStart, ValidatorEnd, ValidatorCrash, Verify, Consume, Pass
      <3> QED
        BY Zenon, <3>1, <3>2, <3>3, Parties DEF vars
    <2>7. CASE MinerSteps
      BY Zenon, <2>2, <2>3, <2>4, <2>5, <2>7 DEF MinerSteps
    <2> QED
      BY Zenon, <2>1, <2>6, <2>7
  <1>4. ASSUME NEW j \in Jobs, Input(j) # None PROVE Input(j)' # None
    <2>1. CASE j = 1
      BY Zenon, <1>4, <2>1 DEF Input
    <2>2. CASE j # 1
      <3>1. j - 1 \in Jobs
        BY <2>2, AuditAssumption DEF Jobs
      <3> QED
        BY Zenon, <1>3, <1>4, <2>2, <3>1 DEF Input
    <2> QED
      BY Zenon, <2>1, <2>2
  <1> QED
    BY Zenon, <1>2, <1>3, <1>4

\* Every step keeps Grounded.
LEMMA GroundedStep ==
  ASSUME TypeOK, Grounded, Owned, PicksAuditor, [Next]_vars
  PROVE  Grounded'
  <1> DEFINE Jb(j) == /\ manifest'[j].hash <= faults' + 1
                      /\ output'[j] # None => Emitted(j)'
                      /\ Emitted(j)' => \A i \in 1..j : Emitted(i)'
             Mn(m) == doing'[m] # None => Emitted(doing[m].job)' /\ Input(doing[m].job)' # None
             Rc(r) == receipt'[r] # None => Emitted(JobOf(r))' /\ Input(JobOf(r))' # None
  <1>1. MiningOK /\ EmittingOK /\ \A j \in Jobs : manifest[j].hash \in Nat
    BY TypeParts, AuditAssumption DEF MiningOK, Version
  <1>2. /\ \A j \in Jobs : /\ Emitted(j) => Emitted(j)'
                           /\ output[j] # None => output'[j] # None
                           /\ Input(j) # None => Input(j)' # None
        /\ \A r \in Receipts : receipt[r] # None => receipt'[r] # None
        /\ faults <= faults' /\ faults \in Nat /\ faults' \in Nat
    BY Zenon, MiningGrows
  <1>3. /\ \A j \in Jobs : /\ manifest[j].hash <= faults + 1
                           /\ output[j] # None => Emitted(j)
                           /\ Emitted(j) => \A i \in 1..j : Emitted(i)
        /\ \A r \in Receipts : receipt[r] # None => Emitted(JobOf(r)) /\ Input(JobOf(r)) # None
        /\ \A m \in Miners : doing[m] # None => Emitted(doing[m].job) /\ Input(doing[m].job) # None
        /\ \A m \in Miners : doing[m] # None => doing[m].job \in Jobs
    <2>1. \A m \in Miners : doing[m] # None => doing[m].job \in Jobs
      BY Zenon, <1>1 DEF MiningOK, Option, Execution
    <2> QED
      BY Zenon, <2>1 DEF Grounded
  <1>4. ASSUME UNCHANGED mining
        PROVE  (\A j \in Jobs : Jb(j)) /\ (\A m \in Miners : Mn(m)) /\ (\A r \in Receipts : Rc(r))
    <2>1. UNCHANGED <<manifest, output, receipt, doing>>
      BY Zenon, <1>4 DEF mining
    <2>2. \A j \in Jobs : Emitted(j)' <=> Emitted(j)
      BY Zenon, <2>1 DEF Emitted
    <2>3. ASSUME NEW j \in Jobs PROVE \A i \in 1..j : i \in Jobs
      BY AuditAssumption DEF Jobs
    <2>4. \A j \in Jobs : Jb(j)
      BY <1>1, <1>2, <1>3, <2>1, <2>2, <2>3
    <2>5. \A r \in Receipts : Rc(r)
      BY Zenon, <1>2, <1>3, <2>1, ReceiptParts
    <2> QED
      BY Zenon, <1>2, <1>3, <2>1, <2>4, <2>5
  <1>5. ASSUME NEW j \in Jobs, NEW m \in Miners, Emit(j, m)
        PROVE  (\A k \in Jobs : Jb(k)) /\ (\A n \in Miners : Mn(n)) /\ (\A r \in Receipts : Rc(r))
    <2>1. /\ manifest' = [manifest EXCEPT ![j] = [hash |-> @.hash + 1, miner |-> m]]
          /\ UNCHANGED <<output, receipt, doing>> /\ (j > 1 => Emitted(j - 1))
      BY Zenon, <1>5 DEF Emit, Emitted
    <2>2. manifest'[j].hash = manifest[j].hash + 1 /\ \A k \in Jobs \ {j} : manifest'[k] = manifest[k]
      BY Zenon, <1>1, <2>1 DEF MiningOK
    <2>3. manifest'[j].hash <= faults' + 1
      BY <1>1, <1>2, <1>3, <1>5, <2>2 DEF Emit, Fault
    <2>4. Emitted(j)' /\ \A k \in Jobs \ {j} : Emitted(k)' <=> Emitted(k)
      BY <1>1, <2>2 DEF Emitted
    <2>5. ASSUME NEW k \in Jobs PROVE Jb(k)
      <3>1. manifest'[k].hash <= faults' + 1
        BY <1>1, <1>2, <1>3, <2>2, <2>3
      <3>2. output'[k] # None => Emitted(k)'
        BY Zenon, <1>3, <2>1, <2>4
      <3>3. ASSUME Emitted(k)', NEW i \in 1..k PROVE Emitted(i)'
        <4>1. i \in Jobs
          BY AuditAssumption DEF Jobs
        <4>2. CASE k # j
          BY Zenon, <1>2, <1>3, <2>4, <3>3, <4>1, <4>2
        <4>3. CASE k = j /\ i # j
          <5>1. j > 1 /\ j - 1 \in Jobs /\ i \in 1..(j - 1)
            BY <4>3, AuditAssumption DEF Jobs
          <5>2. Emitted(i)
            BY Zenon, <1>3, <2>1, <5>1
          <5> QED
            BY Zenon, <1>2, <4>1, <5>2
        <4> QED
          BY Zenon, <2>4, <4>2, <4>3
      <3> QED
        BY Zenon, <3>1, <3>2, <3>3
    <2>6. \A r \in Receipts : Rc(r)
      BY Zenon, <1>2, <1>3, <2>1, ReceiptParts
    <2> QED
      BY Zenon, <1>2, <1>3, <2>1, <2>5, <2>6
  <1>6. ASSUME NEW j \in Jobs, NEW m \in Miners, StartJob(m, j)
        PROVE  (\A k \in Jobs : Jb(k)) /\ (\A n \in Miners : Mn(n)) /\ (\A r \in Receipts : Rc(r))
    <2>1. /\ UNCHANGED <<manifest, output, receipt, faults>> /\ Input(j) # None /\ Emitted(j)
          /\ doing' = [doing EXCEPT ![m] = [job |-> j, hash |-> manifest[j].hash,
                                            value |-> Falsify(m, j, Input(j))]]
      BY Zenon, <1>6 DEF StartJob, Emitted
    <2>2. \A k \in Jobs : Emitted(k)' <=> Emitted(k)
      BY Zenon, <2>1 DEF Emitted
    <2>3. ASSUME NEW k \in Jobs PROVE \A i \in 1..k : i \in Jobs
      BY AuditAssumption DEF Jobs
    <2>4. \A k \in Jobs : Jb(k)
      BY Zenon, <1>3, <2>1, <2>2, <2>3
    <2>5. \A r \in Receipts : Rc(r)
      BY Zenon, <1>2, <1>3, <2>1, ReceiptParts
    <2>6. ASSUME NEW n \in Miners PROVE Mn(n)
      <3>1. CASE n = m
        <4>1. doing'[n].job = j
          BY Zenon, <1>1, <2>1, <3>1 DEF MiningOK
        <4> QED
          BY Zenon, <1>2, <2>1, <4>1
      <3>2. CASE n # m
        <4>1. doing'[n] = doing[n]
          BY Zenon, <1>1, <2>1, <3>2 DEF MiningOK
        <4> QED
          BY Zenon, <1>2, <1>3, <4>1
      <3> QED
        BY Zenon, <3>1, <3>2
    <2> QED
      BY Zenon, <2>4, <2>5, <2>6
  <1>7. ASSUME NEW m \in Miners, FinishJob(m)
        PROVE  (\A j \in Jobs : Jb(j)) /\ (\A n \in Miners : Mn(n)) /\ (\A r \in Receipts : Rc(r))
    <2> DEFINE k == doing[m].job  b == [hash |-> doing[m].hash, input |-> Input(k)]
    <2>1. /\ output' = [output EXCEPT ![k] = doing[m].value]
          /\ receipt' = [receipt EXCEPT ![<<m, k>>] = b]
          /\ doing' = [doing EXCEPT ![m] = None] /\ UNCHANGED <<manifest, faults>>
          /\ k \in Jobs /\ Emitted(k) /\ Input(k) # None
      BY Zenon, <1>3, <1>7 DEF FinishJob
    <2> HIDE DEF k, b
    <2>2. \A j \in Jobs : Emitted(j)' <=> Emitted(j)
      BY Zenon, <2>1 DEF Emitted
    <2>3. ASSUME NEW j \in Jobs PROVE \A i \in 1..j : i \in Jobs
      BY AuditAssumption DEF Jobs
    <2>4. \A j \in Jobs : output'[j] # None => Emitted(j)
      BY Zenon, <1>1, <1>3, <2>1 DEF MiningOK
    <2>5. \A j \in Jobs : Jb(j)
      BY Zenon, <1>3, <2>1, <2>2, <2>3, <2>4
    <2>6. ASSUME NEW r \in Receipts PROVE Rc(r)
      <3>1. receipt'[r] = receipt[r] \/ r = <<m, k>>
        BY Zenon, <1>1, <2>1 DEF MiningOK
      <3>2. r = <<m, k>> => JobOf(r) = k
        BY DEF JobOf
      <3> QED
        BY Zenon, <1>2, <1>3, <2>1, <3>1, <3>2, ReceiptParts
    <2>7. ASSUME NEW n \in Miners PROVE Mn(n)
      <3>1. doing'[n] \in {None, doing[n]}
        BY Zenon, <1>1, <2>1 DEF MiningOK
      <3> QED
        BY Zenon, <1>2, <1>3, <3>1
    <2> QED
      BY Zenon, <2>5, <2>6, <2>7
  <1>8. ASSUME Reveal
        PROVE  (\A j \in Jobs : Jb(j)) /\ (\A m \in Miners : Mn(m)) /\ (\A r \in Receipts : Rc(r))
    <2>1. UNCHANGED <<manifest, output, receipt, doing>>
      BY Zenon, <1>8 DEF Reveal
    <2>2. \A j \in Jobs : Emitted(j)' <=> Emitted(j)
      BY Zenon, <2>1 DEF Emitted
    <2>3. ASSUME NEW j \in Jobs PROVE \A i \in 1..j : i \in Jobs
      BY AuditAssumption DEF Jobs
    <2>4. \A j \in Jobs : Jb(j)
      BY <1>1, <1>2, <1>3, <2>1, <2>2, <2>3
    <2>5. \A r \in Receipts : Rc(r)
      BY Zenon, <1>2, <1>3, <2>1, ReceiptParts
    <2> QED
      BY Zenon, <1>2, <1>3, <2>1, <2>4, <2>5
  <1>9. (\A j \in Jobs : Jb(j)) /\ (\A m \in Miners : Mn(m)) /\ (\A r \in Receipts : Rc(r))
    <2>1. MinerSteps \/ UNCHANGED mining
      BY Zenon, StepEffects
    <2> QED
      BY Zenon, <1>4, <1>5, <1>6, <1>7, <1>8, <2>1 DEF MinerSteps
  <1>10. ASSUME NEW r \in Receipts
         PROVE  /\ am'.todo[r] # None => receipt'[r] # None
                /\ val'.todo[r] # None => receipt'[r] # None
                /\ audits'[r] # None => receipt'[r] # None
                /\ verdict'[r] # None => receipt'[r] # None
    <2>1. ListStep(r) /\ AuditStep(r) /\ VerdictStep(r)
      BY Zenon, StepEffects
    <2>2. /\ am.todo[r] # None => receipt[r] # None
          /\ val.todo[r] # None => receipt[r] # None
          /\ audits[r] # None => receipt[r] # None
          /\ verdict[r] # None => receipt[r] # None
      BY Zenon DEF Grounded
    <2> QED
      BY Zenon, <1>2, <2>1, <2>2 DEF ListStep, AuditStep, VerdictStep
  <1>11. ASSUME NEW a \in Auditors PROVE am'.inflight[a] <= am'.emitted
    <2>1. /\ am \in PassState /\ am.inflight \in [Auditors -> 0..MaxJobs] /\ am.emitted \in 0..MaxJobs
          /\ am.inflight[a] <= am.emitted /\ MaxJobs \in Nat
      BY Zenon, <1>1, AuditAssumption DEF EmittingOK, PassState, Grounded
    <2>2. CASE am' = am
      BY Zenon, <2>1, <2>2
    <2>3. CASE am' = IdlePass
      BY <2>3 DEF IdlePass
    <2>4. CASE AuditStart
      <3>1. am'.inflight[a] = 0 /\ am'.emitted = 0
        BY <2>4 DEF AuditStart, IdlePass
      <3> QED
        BY <3>1
    <2>5. ASSUME NEW r \in Receipts, AuditEmit(r) PROVE am'.inflight[a] <= am'.emitted
      <3>1. Picked \in Auditors
        BY Zenon, <2>5, NewAuditType DEF AuditEmit, Scanning
      <3>2. am'.emitted = am.emitted + 1 /\ am'.inflight = [am.inflight EXCEPT ![Picked] = @ + 1]
        BY Zenon, <2>1, <2>5, <3>1, EmitFields
      <3> QED
        BY <2>1, <3>1, <3>2
    <2>6. ASSUME NEW r \in Receipts, AuditRaise(r) PROVE am'.inflight[a] <= am'.emitted
      BY Zenon, <2>1, <2>6 DEF AuditRaise, PassState
    <2>7. CASE PassSteps
      BY Zenon, <2>2, <2>3, <2>4, <2>5, <2>6, <2>7 DEF PassSteps, AuditPass, AuditFlush, AuditCrash, GrantLapses
    <2>8. CASE MinerSteps
      BY Zenon, <2>2, <2>8, StepEffects DEF emitting
    <2>9. CASE ValidatorPass \/ ValidatorCrash
      BY Zenon, <2>2, <2>9 DEF ValidatorPass, ValidatorStart, ValidatorEnd, ValidatorCrash, Verify, Consume,
                        Pass, emitting
    <2>10. ASSUME NEW b \in Auditors, Auditor(b) \/ AuditorRestart(b) PROVE am' = am
      BY Zenon, <2>10 DEF Auditor, BeginAudit, EndAudit, AuditorRestart, emitting
    <2> QED
      BY Zenon, <2>2, <2>7, <2>8, <2>9, <2>10, Parties DEF vars, emitting
  <1> QED
    BY Zenon, <1>9, <1>10, <1>11 DEF Grounded, Jobs, Receipts, JobOf, Auditors

\* The inductive invariant.  VerdictOnOwnAudit needs the one answer of Owned.
AInv == TypeOK /\ Grounded /\ Owned /\ VerdictOnOwnAudit

\* AInv holds at the start.
LEMMA AInvInit == Init => AInv
  <1>1. Init => VerdictOnOwnAudit
    BY Zenon DEF Init, NoReceipts, VerdictOnOwnAudit
  <1> QED
    BY Zenon, <1>1, TypesInit, OwnedInit DEF AInv

\* Every step keeps AInv.
LEMMA AInvStep ==
  ASSUME AInv, PicksAuditor, [Next]_vars
  PROVE  AInv'
  <1>1. TypeOK /\ Grounded /\ Owned
    BY Zenon DEF AInv
  <1>2. ASSUME NEW r \in Receipts, verdict'[r] # None PROVE verdict'[r].hash = verdict'[r].audit
    <2>1. VerdictStep(r)
      BY Zenon, <1>1, StepEffects
    <2> QED
      BY Zenon, <1>2, <2>1 DEF VerdictStep, AInv, VerdictOnOwnAudit
  <1>3. VerdictOnOwnAudit'
    BY Zenon, <1>2 DEF VerdictOnOwnAudit, Receipts, Jobs
  <1> QED
    BY Zenon, <1>1, <1>3, TypesStep, GroundedStep, OwnedStep DEF AInv
===============================================================================
