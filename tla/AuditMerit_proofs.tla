-------------------------- MODULE AuditMerit_proofs ---------------------------
(***************************************************************************)
(* Proofs about what the verdicts of AuditPipeline say and what they do to *)
(* a miner's score, for every value of the constants.                      *)
(***************************************************************************)
EXTENDS AuditPipeline_proofs, Scheduler_proofs

\* A leaf that names no prover is tried with SMT, with SMT and more time, and
\* with Zenon.
USE SMT, SMTT(30), Zenon

\* pick_worker's choice among the accounts of the pass is an auditor.
LEMMA PickIsAuditor ==
  ASSUME TypeOK
  PROVE  PicksAuditor
  <1>1. am \in PassState
    BY Zenon DEF TypeOK, PassState
  <1>2. am.accounts \in SUBSET Hotkeys /\ am.inflight \in [Hotkeys -> Nat]
    BY <1>1, AuditAssumption DEF PassState, Auditors
  <1> QED
    BY Zenon, <1>2, PickIsCandidate DEF PicksAuditor, Picked, Pickable, Auditors

\* The inductive invariant holds in every state.
LEMMA AuditInductive == Spec => []AInv
  <1>1. AInv /\ [Next]_vars => AInv'
    BY Zenon, AInvStep, PickIsAuditor DEF AInv
  <1> QED
    BY <1>1, AInvInit, PTL DEF Spec

\* The types hold, and with them the bounds on versions, on what a pass emits
\* and on what a validator pass checks.
THEOREM AuditTypes == Spec => []TypeOK
  BY AuditInductive, PTL DEF AInv

\* A verdict rests on an audit of the receipt version it judges, however the
\* receipt under the same id is replaced meanwhile.
THEOREM VerdictsRestOnOwnAudit == Spec => []VerdictOnOwnAudit
  BY AuditInductive, PTL DEF AInv

\* A published audit entry names the auditor of its manifest, through crashes
\* of the pass between the manifest's PUT and the queue's.
THEOREM EntriesMatchManifests == Spec => []EntryMatchesManifest
  <1>1. AInv => EntryMatchesManifest
    BY Zenon DEF AInv, Owned, EntryMatchesManifest
  <1> QED
    BY <1>1, AuditInductive, PTL

\* No receipt is ever answered by two auditors.
THEOREM ReceiptsAuditedOnce == Spec => []AuditedOnce
  <1>1. ASSUME AInv, NEW r \in Receipts PROVE Cardinality(Answers(r)) <= 1
    <2>1. CASE Answers(r) = {}
      BY <2>1, FS_EmptySet
    <2>2. CASE Answers(r) # {}
      <3>1. PICK a \in Auditors : Answers(r) = {a}
        BY Zenon, <1>1, <2>2, OneAnswer DEF AInv
      <3> QED
        BY <3>1, FS_Singleton
    <2> QED
      BY Zenon, <2>1, <2>2
  <1>2. AInv => AuditedOnce
    BY Zenon, <1>1 DEF AuditedOnce
  <1> QED
    BY <1>2, AuditInductive, PTL

-----------------------------------------------------------------------------
(* Verdicts on the merits.                                                 *)

\* The jobs up to k were emitted once; Right(k) is then the artifact of k.
Chain(k) == \A i \in 1..k : manifest[i].hash = 1
Right(k) == {i \in 1..k : <<manifest[i].miner, i>> \in Faulty}
Wrong(r) == IF r \in Faulty THEN "pass" ELSE "fail"

GoodBody(r, b) ==
    /\ r[1] = manifest[JobOf(r)].miner
    /\ b.hash = 1 /\ b.input = Right(JobOf(r) - 1)
    /\ Input(JobOf(r)) = Right(JobOf(r) - 1) /\ output[JobOf(r)] = Right(JobOf(r))

\* The artifact of a job, an execution of job k with the value x under the
\* hash h, and the objects of a receipt.
OutputRight(k) == Chain(k) => output[k] \in {None, Right(k)}
RunRight(m, k, h, x) ==
    Chain(k) => /\ m = manifest[k].miner /\ h = 1
                /\ Input(k) = Right(k - 1) /\ x = Right(k)
ObjectsRight(r) ==
    Chain(JobOf(r)) =>
        /\ receipt[r] # None => GoodBody(r, receipt[r])
        /\ am.todo[r] # None => GoodBody(r, am.todo[r])
        /\ val.todo[r] # None => GoodBody(r, val.todo[r])
        /\ audits[r] # None => GoodBody(r, audits[r].body) /\ audits[r].target = 1
        /\ \A a \in Auditors : result[a][r] # None => result[a][r].status # Wrong(r)
        /\ verdict[r] # None => verdict[r].status # Wrong(r)

\* The inductive invariant behind JudgedOnMerit.
Merit ==
    /\ \A k \in Jobs : OutputRight(k)
    /\ \A m \in Miners : doing[m] # None => RunRight(m, doing[m].job, doing[m].hash, doing[m].value)
    /\ \A r \in Receipts : ObjectsRight(r)

\* At the start nothing is executed and nothing is judged.
LEMMA MeritInit == Init => Merit
  <1> SUFFICES ASSUME Init PROVE Merit
    BY Zenon
  <1>1. \A k \in Jobs : output[k] = None
    BY Zenon DEF Init
  <1>2. \A m \in Miners : doing[m] = None
    BY Zenon DEF Init
  <1>3. \A r \in Receipts : /\ receipt[r] = None /\ am.todo[r] = None /\ val.todo[r] = None
                            /\ audits[r] = None /\ verdict[r] = None
                            /\ \A a \in Auditors : result[a][r] = None
    BY Zenon DEF Init, NoReceipts, IdlePass, IdleValidator
  <1> QED
    BY Zenon, <1>1, <1>2, <1>3 DEF Merit, OutputRight, ObjectsRight

\* A replay of a receipt whose body and artifacts are right is never wrong
\* about its miner.
LEMMA ReplayOnMerit ==
  ASSUME NEW r \in Receipts, NEW b, GoodBody(r, b)
  PROVE  Replay(r, b, 1) # Wrong(r) /\ "inconclusive" # Wrong(r)
  <1> DEFINE k == JobOf(r)
  <1>1. k \in Jobs /\ r = <<r[1], k>> /\ r[1] = manifest[k].miner
    BY Zenon, ReceiptParts DEF GoodBody
  <1>2. b.hash = 1 /\ b.input = Input(k) /\ Input(k) = Right(k - 1) /\ output[k] = Right(k)
    BY Zenon DEF GoodBody
  <1>3. Right(k) = Right(k - 1) <=> r \notin Faulty
    <2>1. k \in Right(k) <=> r \in Faulty
      BY <1>1, AuditAssumption DEF Right, Jobs
    <2>2. k \notin Right(k - 1) /\ Right(k) \subseteq Right(k - 1) \cup {k}
            /\ Right(k - 1) \subseteq Right(k)
      BY <1>1, AuditAssumption DEF Right, Jobs
    <2> QED
      BY Zenon, <2>1, <2>2
  <1>4. Replay(r, b, 1) = IF k \in Timelocked /\ ~revealed THEN "inconclusive"
                          ELSE IF output[k] = Input(k) THEN "pass" ELSE "fail"
    BY Zenon, <1>2 DEF Replay
  <1> QED
    BY Zenon, <1>2, <1>3, <1>4 DEF Wrong

\* Steps after the mining: the artifacts stay, and what is written is right.
LEMMA DownstreamMerit ==
  ASSUME AInv, Merit, [Next]_vars, UNCHANGED mining
  PROVE  Merit'
  <1>1. TypeOK /\ Grounded /\ Owned /\ UNCHANGED <<manifest, output, receipt, doing, revealed>>
    BY Zenon DEF AInv, mining
  <1>2. \A k : Chain(k)' <=> Chain(k)
    BY Zenon, <1>1 DEF Chain
  <1>3. \A k : Right(k)' = Right(k) /\ Input(k)' = Input(k)
    BY Zenon, <1>1 DEF Right, Input
  <1>4. ASSUME NEW r \in Receipts, NEW b PROVE GoodBody(r, b)' <=> GoodBody(r, b)
    BY Zenon, <1>1, <1>3 DEF GoodBody
  <1>5. ASSUME NEW k \in Jobs PROVE OutputRight(k)'
    BY Zenon, <1>1, <1>2, <1>3 DEF OutputRight, Merit
  <1>6. ASSUME NEW m \in Miners, doing'[m] # None
        PROVE  RunRight(m, doing[m].job, doing[m].hash, doing[m].value)'
    BY Zenon, <1>1, <1>2, <1>3, <1>6 DEF RunRight, Merit
  <1>7. ASSUME NEW r \in Receipts, Chain(JobOf(r))
        PROVE  /\ receipt'[r] # None => GoodBody(r, receipt'[r])
               /\ am'.todo[r] # None => GoodBody(r, am'.todo[r])
               /\ val'.todo[r] # None => GoodBody(r, val'.todo[r])
               /\ audits'[r] # None => GoodBody(r, audits'[r].body) /\ audits'[r].target = 1
               /\ \A a \in Auditors : result'[a][r] # None => result'[a][r].status # Wrong(r)
               /\ verdict'[r] # None => verdict'[r].status # Wrong(r)
    <2>1. /\ receipt[r] # None => GoodBody(r, receipt[r])
          /\ am.todo[r] # None => GoodBody(r, am.todo[r])
          /\ val.todo[r] # None => GoodBody(r, val.todo[r])
          /\ audits[r] # None => GoodBody(r, audits[r].body) /\ audits[r].target = 1
          /\ \A a \in Auditors : result[a][r] # None => result[a][r].status # Wrong(r)
          /\ verdict[r] # None => verdict[r].status # Wrong(r)
      BY Zenon, <1>7 DEF Merit, ObjectsRight
    <2>2. ListStep(r) /\ AuditStep(r) /\ VerdictStep(r) /\ \A a \in Auditors : AuditorStep(a)
      BY Zenon, <1>1, StepEffects, PickIsAuditor
    <2>3. manifest[JobOf(r)].hash = 1
      BY <1>7, ReceiptParts, AuditAssumption DEF Chain, Jobs
    <2>4. /\ am'.todo[r] # None => GoodBody(r, am'.todo[r])
          /\ val'.todo[r] # None => GoodBody(r, val'.todo[r])
      BY Zenon, <2>1, <2>2 DEF ListStep
    <2>5. audits'[r] # None => GoodBody(r, audits'[r].body) /\ audits'[r].target = 1
      BY Zenon, <2>1, <2>2, <2>3 DEF AuditStep
    <2>6. ASSUME NEW a \in Auditors, result'[a][r] # None PROVE result'[a][r].status # Wrong(r)
      <3>1. CASE result'[a][r] = result[a][r]
        BY Zenon, <2>1, <2>6, <3>1
      <3>2. CASE result'[a][r] # result[a][r]
        <4>1. /\ auditing[a] # None /\ auditing[a].id = r
              /\ result'[a][r].status \in
                    {"inconclusive", Replay(r, auditing[a].job.body, auditing[a].job.target)}
          BY Zenon, <2>2, <3>2 DEF AuditorStep
        <4>2. audits[r] # None /\ auditing[a].job = audits[r]
          BY Zenon, <1>1, <4>1 DEF Owned
        <4>3. GoodBody(r, audits[r].body) /\ audits[r].target = 1
          BY Zenon, <2>1, <4>2
        <4>4. Replay(r, audits[r].body, 1) # Wrong(r) /\ "inconclusive" # Wrong(r)
          BY Zenon, <4>3, ReplayOnMerit
        <4> QED
          BY Zenon, <4>1, <4>2, <4>3, <4>4
      <3> QED
        BY Zenon, <3>1, <3>2
    <2>7. ASSUME verdict'[r] # None PROVE verdict'[r].status # Wrong(r)
      <3>1. CASE verdict'[r] = verdict[r]
        BY Zenon, <2>1, <2>7, <3>1
      <3>2. ASSUME val.todo[r] # None
            PROVE  Replay(r, val.todo[r], manifest[JobOf(r)].hash) # Wrong(r) /\ "inconclusive" # Wrong(r)
        BY Zenon, <2>1, <2>3, <3>2, ReplayOnMerit
      <3> QED
        BY Zenon, <2>1, <2>2, <3>1, <3>2 DEF VerdictStep
    <2> QED
      BY Zenon, <1>1, <2>1, <2>4, <2>5, <2>6, <2>7
  <1>8. ASSUME NEW r \in Receipts PROVE ObjectsRight(r)'
    BY Zenon, <1>2, <1>4, <1>7 DEF ObjectsRight, Wrong, JobOf, Auditors
  <1> QED
    BY Zenon, <1>5, <1>6, <1>8 DEF Merit, Jobs, Receipts

\* Where the manifests up to k stay, so does what they say of the artifacts.
LEMMA SameChain ==
  ASSUME NEW k \in Jobs, \A i \in 1..k : manifest'[i] = manifest[i]
  PROVE  /\ Chain(k)' <=> Chain(k)
         /\ Right(k)' = Right(k) /\ Right(k - 1)' = Right(k - 1)
         /\ manifest'[k] = manifest[k]
  <1>1. k \in 1..k /\ 1..(k - 1) \subseteq 1..k
    BY AuditAssumption DEF Jobs
  <1> QED
    BY <1>1 DEF Chain, Right

\* A second emission breaks the chain from its job on; a first one finds
\* nothing of its job in the bucket.
LEMMA EmitMerit ==
  ASSUME AInv, Merit, NEW j \in Jobs, NEW m \in Miners, Emit(j, m)
  PROVE  Merit'
  <1>1. MiningOK /\ Grounded /\ Owned /\ \A k \in Jobs : manifest[k].hash \in Nat
    BY TypeParts, AuditAssumption DEF AInv, MiningOK, Version
  <1>2. /\ manifest' = [manifest EXCEPT ![j] = [hash |-> @.hash + 1, miner |-> m]]
        /\ UNCHANGED <<output, receipt, doing, emitting, replaying, judging>>
    BY Zenon DEF Emit
  <1>3. manifest'[j].hash = manifest[j].hash + 1 /\ \A k \in Jobs \ {j} : manifest'[k] = manifest[k]
    BY Zenon, <1>1, <1>2 DEF MiningOK
  <1>4. ASSUME NEW k \in Jobs, Chain(k)'
        PROVE  ~Emitted(k) \/ \A i \in 1..k : manifest'[i] = manifest[i]
    <2>1. CASE j \in 1..k
      <3>1. manifest'[j].hash = 1 /\ manifest'[k].hash = 1
        BY <1>4, <2>1, AuditAssumption DEF Chain, Jobs
      <3>2. ~Emitted(j)
        BY <1>1, <1>3, <3>1 DEF Emitted
      <3> QED
        BY Zenon, <1>1, <2>1, <3>2 DEF Grounded
    <2>2. CASE j \notin 1..k
      <3>1. \A i \in 1..k : i \in Jobs \ {j}
        BY <2>2, AuditAssumption DEF Jobs
      <3> QED
        BY Zenon, <1>3, <3>1
    <2> QED
      BY Zenon, <2>1, <2>2
  <1>5. ASSUME NEW k \in Jobs PROVE OutputRight(k)'
    <2> SUFFICES ASSUME Chain(k)' PROVE output'[k] \in {None, Right(k)'}
      BY Zenon DEF OutputRight
    <2>1. CASE ~Emitted(k)
      BY Zenon, <1>1, <1>2, <2>1 DEF Grounded
    <2>2. CASE \A i \in 1..k : manifest'[i] = manifest[i]
      BY Zenon, <1>2, <2>2, SameChain DEF Merit, OutputRight
    <2> QED
      BY Zenon, <1>4, <2>1, <2>2
  <1>6. ASSUME NEW n \in Miners, doing'[n] # None
        PROVE  RunRight(n, doing[n].job, doing[n].hash, doing[n].value)'
    <2>1. doing'[n] = doing[n] /\ doing[n].job \in Jobs /\ Emitted(doing[n].job)
      BY Zenon, <1>1, <1>2, <1>6 DEF MiningOK, Option, Execution, Grounded
    <2>2. RunRight(n, doing[n].job, doing[n].hash, doing[n].value)
      BY Zenon, <1>6, <2>1 DEF Merit
    <2>3. ASSUME NEW k \in Jobs, Emitted(k), Chain(k)'
          PROVE  /\ Chain(k) /\ manifest'[k] = manifest[k] /\ Input(k)' = Input(k)
                 /\ Right(k)' = Right(k) /\ Right(k - 1)' = Right(k - 1)
      BY Zenon, <1>2, <1>4, <2>3, SameChain DEF Input
    <2> QED
      BY Zenon, <2>1, <2>2, <2>3 DEF RunRight
  <1>7. ASSUME NEW r \in Receipts PROVE ObjectsRight(r)'
    <2> DEFINE k == JobOf(r)
    <2>1. k \in Jobs /\ Input(k)' = Input(k)
      BY Zenon, <1>2, ReceiptParts DEF Input
    <2>2. UNCHANGED <<am, audits, result, val, verdict>>
      BY Zenon, <1>2 DEF emitting, replaying, judging
    <2>3. CASE ~Emitted(k)
      <3>1. /\ receipt[r] = None /\ am.todo[r] = None /\ val.todo[r] = None
            /\ audits[r] = None /\ verdict[r] = None
            /\ \A a \in Auditors : result[a][r] = None
        BY Zenon, <1>1, <2>3 DEF Grounded, Owned
      <3> QED
        BY Zenon, <1>2, <2>2, <3>1 DEF ObjectsRight, Auditors
    <2>4. CASE \A i \in 1..k : manifest'[i] = manifest[i]
      <3>1. /\ Chain(k)' <=> Chain(k)
            /\ Right(k)' = Right(k) /\ Right(k - 1)' = Right(k - 1)
            /\ manifest'[k] = manifest[k]
        BY Zenon, <2>1, <2>4, SameChain
      <3>2. ASSUME NEW b PROVE GoodBody(r, b)' <=> GoodBody(r, b)
        BY Zenon, <1>2, <2>1, <3>1 DEF GoodBody, JobOf
      <3>3. ObjectsRight(r)
        BY Zenon DEF Merit
      <3> QED
        BY Zenon, <1>2, <2>2, <3>1, <3>2, <3>3 DEF ObjectsRight, Wrong, JobOf, Auditors
    <2>5. CASE ~Chain(k)'
      BY Zenon, <2>5 DEF ObjectsRight, JobOf
    <2> QED
      BY Zenon, <1>4, <2>1, <2>3, <2>4, <2>5
  <1> QED
    BY Zenon, <1>5, <1>6, <1>7 DEF Merit, Jobs, Receipts

\* An execution starts from the right input ...
LEMMA StartMerit ==
  ASSUME AInv, Merit, NEW j \in Jobs, NEW m \in Miners, StartJob(m, j)
  PROVE  Merit'
  <1>1. MiningOK
    BY Zenon, TypeParts DEF AInv
  <1>2. /\ UNCHANGED <<manifest, output, receipt, emitting, replaying, judging>>
        /\ doing' = [doing EXCEPT ![m] = [job |-> j, hash |-> manifest[j].hash,
                                          value |-> Falsify(m, j, Input(j))]]
        /\ manifest[j].miner = m /\ Input(j) # None
    BY Zenon DEF StartJob
  <1>3. \A k : /\ Chain(k)' <=> Chain(k)
               /\ Right(k)' = Right(k) /\ Input(k)' = Input(k)
    BY Zenon, <1>2 DEF Chain, Right, Input
  <1>4. \A r, b : GoodBody(r, b)' <=> GoodBody(r, b)
    BY Zenon, <1>2, <1>3 DEF GoodBody
  <1>5. ASSUME NEW k \in Jobs PROVE OutputRight(k)'
    BY Zenon, <1>2, <1>3 DEF OutputRight, Merit
  <1>6. ASSUME Chain(j)
        PROVE  /\ m = manifest[j].miner /\ manifest[j].hash = 1
               /\ Input(j) = Right(j - 1) /\ Falsify(m, j, Input(j)) = Right(j)
    <2>1. manifest[j].hash = 1
      BY <1>6, AuditAssumption DEF Chain, Jobs
    <2>2. Input(j) = Right(j - 1)
      <3>1. CASE j = 1
        BY <3>1 DEF Input, Right
      <3>2. CASE j # 1
        <4>1. j - 1 \in Jobs /\ 1..(j - 1) \subseteq 1..j
          BY <3>2, AuditAssumption DEF Jobs
        <4>2. Chain(j - 1)
          BY Zenon, <1>6, <4>1 DEF Chain
        <4> QED
          BY Zenon, <1>2, <3>2, <4>1, <4>2 DEF Input, Merit, OutputRight
      <3> QED
        BY Zenon, <3>1, <3>2
    <2>3. Right(j) = Right(j - 1) \cup {i \in {j} : <<m, i>> \in Faulty}
      <3>1. 1..j = 1..(j - 1) \cup {j}
        BY AuditAssumption DEF Jobs
      <3> QED
        BY Zenon, <1>2, <3>1 DEF Right
    <2> QED
      BY Zenon, <1>2, <2>1, <2>2, <2>3 DEF Falsify
  <1>7. ASSUME NEW n \in Miners, doing'[n] # None
        PROVE  RunRight(n, doing[n].job, doing[n].hash, doing[n].value)'
    <2>1. CASE n = m
      <3>1. doing'[n].job = j /\ doing'[n].hash = manifest[j].hash
              /\ doing'[n].value = Falsify(m, j, Input(j))
        BY Zenon, <1>1, <1>2, <2>1 DEF MiningOK
      <3> QED
        BY Zenon, <1>2, <1>3, <1>6, <2>1, <3>1 DEF RunRight
    <2>2. CASE n # m
      <3>1. doing'[n] = doing[n]
        BY Zenon, <1>1, <1>2, <2>2 DEF MiningOK
      <3> QED
        BY Zenon, <1>2, <1>3, <1>7, <3>1 DEF RunRight, Merit
    <2> QED
      BY Zenon, <2>1, <2>2
  <1>8. ASSUME NEW r \in Receipts PROVE ObjectsRight(r)'
    <2>1. UNCHANGED <<receipt, am, audits, result, val, verdict>> /\ ObjectsRight(r)
      BY Zenon, <1>2 DEF emitting, replaying, judging, Merit
    <2> QED
      BY Zenon, <1>3, <1>4, <2>1 DEF ObjectsRight, Wrong, JobOf, Auditors
  <1> QED
    BY Zenon, <1>5, <1>7, <1>8 DEF Merit, Jobs, Receipts

\* ... and ends with the right artifact and a receipt that says so.
LEMMA FinishMerit ==
  ASSUME AInv, Merit, NEW m \in Miners, FinishJob(m)
  PROVE  Merit'
  <1> DEFINE j == doing[m].job
  <1>1. MiningOK /\ doing[m] # None
    BY Zenon, TypeParts DEF AInv, FinishJob
  <1>2. /\ output' = [output EXCEPT ![j] = doing[m].value]
        /\ receipt' = [receipt EXCEPT ![<<m, j>>] = [hash |-> doing[m].hash, input |-> Input(j)]]
        /\ doing' = [doing EXCEPT ![m] = None]
        /\ UNCHANGED <<manifest, emitting, replaying, judging>>
    BY Zenon DEF FinishJob
  <1>3. j \in Jobs /\ RunRight(m, j, doing[m].hash, doing[m].value)
    BY Zenon, <1>1 DEF MiningOK, Option, Execution, Merit
  <1> HIDE DEF j
  <1>4. \A k : (Chain(k)' <=> Chain(k)) /\ Right(k)' = Right(k)
    BY Zenon, <1>2 DEF Chain, Right
  <1>5. ASSUME NEW k \in Jobs, Chain(k)
        PROVE  /\ output'[k] \in {output[k], Right(k)}
               /\ k = j => output'[k] = Right(k)
    BY Zenon, <1>1, <1>2, <1>3, <1>5 DEF MiningOK, RunRight
  <1>6. ASSUME NEW k \in Jobs PROVE OutputRight(k)'
    BY Zenon, <1>4, <1>5 DEF OutputRight, Merit
  <1>7. ASSUME NEW k \in Jobs, Chain(k), Input(k) = Right(k - 1) PROVE Input(k)' = Right(k - 1)
    <2>1. CASE k = 1
      BY Zenon, <1>7, <2>1 DEF Input
    <2>2. CASE k # 1
      <3>1. k - 1 \in Jobs /\ 1..(k - 1) \subseteq 1..k
        BY <2>2, AuditAssumption DEF Jobs
      <3>2. Chain(k - 1)
        BY Zenon, <1>7, <3>1 DEF Chain
      <3> QED
        BY Zenon, <1>5, <1>7, <2>2, <3>1, <3>2 DEF Input
    <2> QED
      BY Zenon, <2>1, <2>2
  <1>8. ASSUME NEW n \in Miners, doing'[n] # None
        PROVE  RunRight(n, doing[n].job, doing[n].hash, doing[n].value)'
    <2>1. doing'[n] = doing[n]
      BY Zenon, <1>1, <1>2, <1>8 DEF MiningOK
    <2>2. doing[n].job \in Jobs /\ RunRight(n, doing[n].job, doing[n].hash, doing[n].value)
      BY Zenon, <1>1, <1>8, <2>1 DEF MiningOK, Option, Execution, Merit
    <2> QED
      BY Zenon, <1>2, <1>4, <1>7, <2>1, <2>2 DEF RunRight
  <1>9. ASSUME NEW r \in Receipts, NEW b, Chain(JobOf(r)), GoodBody(r, b) PROVE GoodBody(r, b)'
    <2>1. JobOf(r) \in Jobs /\ Input(JobOf(r))' = Right(JobOf(r) - 1)
      BY Zenon, <1>7, <1>9, ReceiptParts DEF GoodBody
    <2>2. output'[JobOf(r)] = Right(JobOf(r))
      BY Zenon, <1>5, <1>9, <2>1 DEF GoodBody
    <2> QED
      BY Zenon, <1>2, <1>4, <1>9, <2>1, <2>2 DEF GoodBody, JobOf
  <1>10. ASSUME NEW r \in Receipts, NEW b, Chain(JobOf(r)), b = receipt'[r], b # None
         PROVE  GoodBody(r, b)'
    <2>1. CASE r = <<m, j>>
      <3>1. JobOf(r) = j /\ r[1] = m /\ b = [hash |-> doing[m].hash, input |-> Input(j)]
        BY Zenon, <1>1, <1>2, <1>3, <1>10, <2>1 DEF JobOf, MiningOK
      <3>2. /\ r[1] = manifest[JobOf(r)].miner /\ b.hash = 1 /\ JobOf(r) \in Jobs
            /\ b.input = Right(JobOf(r) - 1) /\ Input(JobOf(r)) = Right(JobOf(r) - 1)
        BY <1>3, <1>10, <3>1 DEF RunRight
      <3>3. Input(JobOf(r))' = Right(JobOf(r) - 1) /\ output'[JobOf(r)] = Right(JobOf(r))
        BY Zenon, <1>5, <1>7, <1>10, <3>1, <3>2
      <3> QED
        BY Zenon, <1>2, <1>4, <3>2, <3>3 DEF GoodBody, JobOf
    <2>2. CASE r # <<m, j>>
      <3>1. receipt'[r] = receipt[r]
        BY Zenon, <1>1, <1>2, <2>2 DEF MiningOK
      <3>2. GoodBody(r, b)
        BY Zenon, <1>10, <3>1 DEF Merit, ObjectsRight
      <3> QED
        BY Zenon, <1>9, <1>10, <3>2
    <2> QED
      BY Zenon, <2>1, <2>2
  <1>11. ASSUME NEW r \in Receipts PROVE ObjectsRight(r)'
    <2>1. UNCHANGED <<am, audits, result, val, verdict>> /\ ObjectsRight(r)
      BY Zenon, <1>2 DEF emitting, replaying, judging, Merit
    <2>2. ASSUME Chain(JobOf(r)), receipt'[r] # None PROVE GoodBody(r, receipt[r])'
      <3>1. PICK b : b = receipt'[r]
        BY Zenon
      <3>2. GoodBody(r, b)'
        BY Zenon, <1>10, <2>2, <3>1
      <3> QED
        BY Zenon, <3>1, <3>2 DEF GoodBody
    <2> QED
      BY Zenon, <1>4, <1>9, <2>1, <2>2 DEF ObjectsRight, Wrong, JobOf, Auditors
  <1> QED
    BY Zenon, <1>6, <1>8, <1>11 DEF Merit, Jobs, Receipts

\* Every step keeps Merit.
LEMMA MeritStep == AInv /\ Merit /\ [Next]_vars => Merit'
  <1> SUFFICES ASSUME AInv, Merit, [Next]_vars PROVE Merit'
    BY Zenon
  <1>1. MinerSteps \/ UNCHANGED mining
    BY Zenon, StepEffects, PickIsAuditor DEF AInv
  <1>2. CASE Reveal
    <2>1. UNCHANGED <<manifest, output, receipt, doing, emitting, replaying, judging>>
      BY Zenon, <1>2 DEF Reveal
    <2>2. \A k : (Chain(k)' <=> Chain(k)) /\ Right(k)' = Right(k) /\ Input(k)' = Input(k)
      BY Zenon, <2>1 DEF Chain, Right, Input
    <2>3. \A r, b : GoodBody(r, b)' <=> GoodBody(r, b)
      BY Zenon, <2>1, <2>2 DEF GoodBody
    <2>4. ASSUME NEW k \in Jobs PROVE OutputRight(k)'
      BY Zenon, <2>1, <2>2 DEF OutputRight, Merit
    <2>5. ASSUME NEW m \in Miners, doing'[m] # None
          PROVE  RunRight(m, doing[m].job, doing[m].hash, doing[m].value)'
      BY Zenon, <2>1, <2>2, <2>5 DEF RunRight, Merit
    <2>6. ASSUME NEW r \in Receipts PROVE ObjectsRight(r)'
      <3>1. UNCHANGED <<receipt, am, audits, result, val, verdict>> /\ ObjectsRight(r)
        BY Zenon, <2>1 DEF emitting, replaying, judging, Merit
      <3> QED
        BY Zenon, <2>2, <2>3, <3>1 DEF ObjectsRight, Wrong, JobOf, Auditors
    <2> QED
      BY Zenon, <2>4, <2>5, <2>6 DEF Merit, Jobs, Receipts
  <1> QED
    BY Zenon, <1>1, <1>2, DownstreamMerit, EmitMerit, StartMerit, FinishMerit DEF MinerSteps

\* While no job of the chain was emitted twice, no honest miner fails and no
\* falsified output passes: whatever the order of executions, replays and
\* passes, whatever crashes, and whoever replays (AuditReplayRunner.run).
THEOREM VerdictsOnMerit == Spec => []JudgedOnMerit
  <1>1. Merit => JudgedOnMerit
    BY Zenon DEF Merit, ObjectsRight, JudgedOnMerit, Chain, Wrong
  <1> QED
    BY <1>1, MeritInit, MeritStep, AuditInductive, PTL DEF Spec

-----------------------------------------------------------------------------
(* Scores.                                                                 *)

\* trust_multiplier is a number from 0 to 1 ...
LEMMA TrustRange ==
  ASSUME NEW p \in Nat, NEW f \in Nat
  PROVE  Trust(p, f).num \in Nat /\ Trust(p, f).den \in Nat \ {0} /\ Trust(p, f).num <= Trust(p, f).den
  BY DEF Trust, AtLeastZero

\* ... that a pass never lowers ...
LEMMA TrustUp ==
  ASSUME NEW p \in Nat, NEW f \in Nat
  PROVE  AtMost(Trust(p, f), Trust(p + 1, f))
  <1>1. CASE f = 0
    BY <1>1 DEF Trust, AtMost
  <1>2. CASE f > 0
    <2>1. /\ Trust(p, f).num = AtLeastZero(p - 2 * f) /\ Trust(p, f).den = p + f
          /\ Trust(p + 1, f).num = AtLeastZero(p + 1 - 2 * f) /\ Trust(p + 1, f).den = p + 1 + f
      BY <1>2 DEF Trust
    <2>2. CASE p - 2 * f < 0
      <3>1. AtLeastZero(p - 2 * f) = 0 /\ AtLeastZero(p + 1 - 2 * f) \in Nat
        BY <2>2 DEF AtLeastZero
      <3>2. 0 * (p + 1 + f) <= AtLeastZero(p + 1 - 2 * f) * (p + f)
        BY <3>1
      <3> QED
        BY Zenon, <2>1, <3>1, <3>2 DEF AtMost
    <2>3. CASE p - 2 * f >= 0
      <3>1. PICK d \in Nat : d = p - 2 * f
        BY <2>3
      <3>2. PICK s \in Nat : s = p + f
        OBVIOUS
      <3>3. AtLeastZero(p - 2 * f) = d /\ AtLeastZero(p + 1 - 2 * f) = d + 1 /\ d <= s
        BY <3>1, <3>2 DEF AtLeastZero
      <3>4. d * (s + 1) <= (d + 1) * s
        BY <3>3
      <3>5. p + 1 + f = s + 1
        BY <3>2
      <3> QED
        BY Zenon, <2>1, <3>2, <3>3, <3>4, <3>5 DEF AtMost
    <2> QED
      BY <2>2, <2>3
  <1> QED
    BY <1>1, <1>2

\* ... and a failure never raises.
LEMMA TrustDown ==
  ASSUME NEW p \in Nat, NEW f \in Nat
  PROVE  AtMost(Trust(p, f + 1), Trust(p, f))
  <1>1. /\ Trust(p, f + 1).num = AtLeastZero(p - 2 * (f + 1)) /\ Trust(p, f + 1).den = p + f + 1
    BY DEF Trust
  <1>2. CASE p - 2 * (f + 1) < 0
    <2>1. AtLeastZero(p - 2 * (f + 1)) = 0
      BY Zenon, <1>2 DEF AtLeastZero
    <2>2. Trust(p, f).num \in Nat /\ Trust(p, f).den \in Nat
      BY Zenon, TrustRange
    <2>3. 0 * Trust(p, f).den <= Trust(p, f).num * (p + f + 1)
      BY <2>2
    <2> QED
      BY Zenon, <1>1, <2>1, <2>3 DEF AtMost
  <1>3. CASE p - 2 * (f + 1) >= 0
    <2>1. PICK d \in Nat : d = p - 2 * (f + 1)
      BY <1>3
    <2>2. PICK s \in Nat : s = p + f
      OBVIOUS
    <2>3. AtLeastZero(p - 2 * (f + 1)) = d /\ d <= s /\ p + f + 1 = s + 1 /\ s > 0
      BY <2>1, <2>2 DEF AtLeastZero
    <2>4. CASE f = 0
      <3>1. Trust(p, f).num = 1 /\ Trust(p, f).den = 1
        BY <2>2, <2>3, <2>4 DEF Trust
      <3> QED
        BY <1>1, <2>3, <3>1 DEF AtMost
    <2>5. CASE f > 0
      <3>1. Trust(p, f).num = d + 2 /\ Trust(p, f).den = s
        BY <2>1, <2>2, <2>5 DEF Trust, AtLeastZero
      <3>2. d * s <= (d + 2) * (s + 1)
        OBVIOUS
      <3> QED
        BY Zenon, <1>1, <2>3, <3>1, <3>2 DEF AtMost
    <2> QED
      BY <2>4, <2>5
  <1> QED
    BY <1>2, <1>3

\* The score of p passes, f failures and h half units that are not judged.
ScoreOf(p, f, h) ==
    LET t == Trust(p, f) IN [num |-> 2 * p * t.den + h * t.num, den |-> 2 * t.den]

\* The three ways in which a verdict can change them.
LEMMA PassRaises ==
  ASSUME NEW p \in Nat, NEW f \in Nat, NEW h \in Nat, h >= 2
  PROVE  AtMost(ScoreOf(p, f, h), ScoreOf(p + 1, f, h - 2))
  <1>1. PICK a \in Nat, b \in Nat \ {0} : a = Trust(p, f).num /\ b = Trust(p, f).den /\ a <= b
    BY Zenon, TrustRange
  <1>2. PICK c \in Nat, d \in Nat \ {0} : c = Trust(p + 1, f).num /\ d = Trust(p + 1, f).den /\ c <= d
    BY TrustRange
  <1>3. a * d <= c * b
    BY Zenon, <1>1, <1>2, TrustUp DEF AtMost
  <1>4. h * (a * d) <= h * (c * b)
    <2>1. PICK x \in Nat, y \in Nat : x = a * d /\ y = c * b
      OBVIOUS
    <2>2. h * x <= h * y
      BY <1>3, <2>1
    <2> QED
      BY Zenon, <2>1, <2>2
  <1>5. c * b <= d * b
    BY <1>2
  <1>6. (2 * p * b + h * a) * (2 * d) = 4 * (p * (b * d)) + 2 * (h * (a * d))
    OBVIOUS
  <1>7. (2 * (p + 1) * d + (h - 2) * c) * (2 * b) =
          4 * (p * (b * d)) + 4 * (d * b) + 2 * (h * (c * b)) - 4 * (c * b)
    OBVIOUS
  <1>8. (2 * p * b + h * a) * (2 * d) <= (2 * (p + 1) * d + (h - 2) * c) * (2 * b)
    <2>1. PICK w \in Nat, x \in Nat, y \in Nat, z \in Nat, v \in Nat :
            w = p * (b * d) /\ x = h * (a * d) /\ y = h * (c * b) /\ z = c * b /\ v = d * b
      OBVIOUS
    <2>2. 4 * w + 2 * x <= 4 * w + 4 * v + 2 * y - 4 * z
      BY <1>4, <1>5, <2>1
    <2> QED
      BY Zenon, <1>6, <1>7, <2>1, <2>2
  <1> QED
    BY Zenon, <1>1, <1>2, <1>8 DEF ScoreOf, AtMost

\* A FAIL for a receipt that had no verdict does not raise the score.
LEMMA FailLowers ==
  ASSUME NEW p \in Nat, NEW f \in Nat, NEW h \in Nat, h >= 2
  PROVE  AtMost(ScoreOf(p, f + 1, h - 2), ScoreOf(p, f, h))
  <1>1. PICK a \in Nat, b \in Nat \ {0} : a = Trust(p, f).num /\ b = Trust(p, f).den
    BY Zenon, TrustRange
  <1>2. PICK c \in Nat, d \in Nat \ {0} : c = Trust(p, f + 1).num /\ d = Trust(p, f + 1).den
    BY TrustRange
  <1>3. c * b <= a * d
    BY Zenon, <1>1, <1>2, TrustDown DEF AtMost
  <1>4. h * (c * b) <= h * (a * d)
    <2>1. PICK x \in Nat, y \in Nat : x = c * b /\ y = a * d
      OBVIOUS
    <2>2. h * x <= h * y
      BY <1>3, <2>1
    <2> QED
      BY Zenon, <2>1, <2>2
  <1>5. (2 * p * d + (h - 2) * c) * (2 * b) = 4 * (p * (b * d)) + 2 * (h * (c * b)) - 4 * (c * b)
    OBVIOUS
  <1>6. (2 * p * b + h * a) * (2 * d) = 4 * (p * (b * d)) + 2 * (h * (a * d))
    OBVIOUS
  <1>7. (2 * p * d + (h - 2) * c) * (2 * b) <= (2 * p * b + h * a) * (2 * d)
    <2>1. PICK w \in Nat, x \in Nat, y \in Nat, z \in Nat :
            w = p * (b * d) /\ x = h * (a * d) /\ y = h * (c * b) /\ z = c * b
      OBVIOUS
    <2>2. 4 * w + 2 * y - 4 * z <= 4 * w + 2 * x
      BY <1>4, <2>1
    <2> QED
      BY Zenon, <1>5, <1>6, <2>1, <2>2
  <1> QED
    BY Zenon, <1>1, <1>2, <1>7 DEF ScoreOf, AtMost

\* Nor does an inconclusive verdict.
LEMMA InconclusiveLowers ==
  ASSUME NEW p \in Nat, NEW f \in Nat, NEW h \in Nat, h >= 2
  PROVE  AtMost(ScoreOf(p, f, h - 1), ScoreOf(p, f, h))
  <1>1. PICK a \in Nat, b \in Nat \ {0} : a = Trust(p, f).num /\ b = Trust(p, f).den
    BY Zenon, TrustRange
  <1>2. (2 * p * b + (h - 1) * a) * (2 * b) = (2 * p * b + h * a) * (2 * b) - 2 * (a * b)
    OBVIOUS
  <1>3. (2 * p * b + (h - 1) * a) * (2 * b) <= (2 * p * b + h * a) * (2 * b)
    <2>1. PICK x \in Nat, y \in Nat : x = (2 * p * b + h * a) * (2 * b) /\ y = a * b
      OBVIOUS
    <2> QED
      BY <1>2, <2>1
  <1> QED
    BY Zenon, <1>1, <1>3 DEF ScoreOf, AtMost

\* The receipts of a miner with a verdict s, and those without a verdict.
With(m, s) == {r \in Receipts : /\ r[1] = m /\ receipt[r] # None
                                /\ verdict[r] # None /\ verdict[r].status = s}
Without(m) == {r \in Receipts : r[1] = m /\ receipt[r] # None /\ verdict[r] = None}

\* There are finitely many receipts to count.
LEMMA ReceiptsFinite == IsFiniteSet(Receipts)
  <1>1. IsFiniteSet(Jobs)
    BY AuditAssumption, FS_Interval DEF Jobs
  <1> QED
    BY Zenon, <1>1, AuditAssumption, FS_Product DEF Receipts

\* A miner's score is that of its counts of verdicts.
LEMMA ScoreCounts ==
  ASSUME NEW m
  PROVE  /\ Score(m) = ScoreOf(Cardinality(With(m, "pass")), Cardinality(With(m, "fail")),
                               2 * Cardinality(Without(m)) + Cardinality(With(m, "inconclusive")))
         /\ Score(m)' = ScoreOf(Cardinality(With(m, "pass")'), Cardinality(With(m, "fail")'),
                                2 * Cardinality(Without(m)') + Cardinality(With(m, "inconclusive")'))
  BY Zenon DEF Score, ScoreOf, Judged, HalfUnits, Unjudged, With, Without

\* A validator step that writes a verdict writes one, for a receipt that is
\* in the bucket.
LEMMA OneVerdict ==
  ASSUME AInv, [Next]_vars, NEW r \in Receipts, verdict'[r] # verdict[r]
  PROVE  /\ receipt' = receipt /\ receipt[r] # None
         /\ \A q \in Receipts \ {r} : verdict'[q] = verdict[q]
  <1>1. TypeOK /\ Grounded /\ Owned /\ verdict \in [Receipts -> Option(Verdict)]
    BY Zenon, TypeParts DEF AInv, JudgingOK
  <1>2. receipt[r] # None
    <2>1. val.todo[r] # None
      BY Zenon, <1>1, StepEffects, PickIsAuditor DEF VerdictStep
    <2> QED
      BY Zenon, <1>1, <2>1 DEF Grounded
  <1>3. ValidatorPass
    <2>1. ~UNCHANGED verdict
      BY Zenon
    <2>2. ~MinerSteps /\ ~UNCHANGED vars
      BY Zenon, <1>1, <2>1, StepEffects, PickIsAuditor DEF judging, vars
    <2>3. ~PassSteps
      BY Zenon, <2>1 DEF PassSteps, AuditPass, AuditStart, AuditFlush, AuditCrash, AuditEmit, AuditRaise,
                  GrantLapses, judging
    <2>4. ~ValidatorCrash
      BY Zenon, <2>1 DEF ValidatorCrash
    <2>5. ASSUME NEW a \in Auditors PROVE ~(Auditor(a) \/ AuditorRestart(a))
      BY Zenon, <2>1 DEF Auditor, BeginAudit, EndAudit, AuditorRestart, judging
    <2> QED
      BY Zenon, <2>2, <2>3, <2>4, <2>5, Parties
  <1>4. PICK q \in Receipts : \E v : verdict' = [verdict EXCEPT ![q] = v]
    BY Zenon, <1>3 DEF ValidatorPass, ValidatorStart, ValidatorEnd, Verify, Consume, Pass, Write
  <1>5. receipt' = receipt
    BY Zenon, <1>3 DEF ValidatorPass, ValidatorStart, ValidatorEnd, Verify, Consume, Pass, mining
  <1> QED
    BY Zenon, <1>1, <1>2, <1>4, <1>5

\* What a verdict v on r does to the counts of r's miner.
LEMMA CountsMove ==
  ASSUME AInv, AInv', [Next]_vars, NEW r \in Receipts, verdict[r] = None, verdict'[r] # None
  PROVE  LET m == r[1]
             v == verdict'[r].status
         IN  /\ v \in Status
             /\ \A s \in Status : /\ Cardinality(With(m, s)) \in Nat
                                  /\ Cardinality(With(m, s)') =
                                       Cardinality(With(m, s)) + IF s = v THEN 1 ELSE 0
             /\ Cardinality(Without(m)) \in Nat \ {0}
             /\ Cardinality(Without(m)') = Cardinality(Without(m)) - 1
  <1> DEFINE m == r[1]  v == verdict'[r].status
  <1>1. /\ receipt' = receipt /\ receipt[r] # None
        /\ \A q \in Receipts \ {r} : verdict'[q] = verdict[q]
    BY Zenon, OneVerdict
  <1>2. v \in Status
    <2>1. verdict' \in [Receipts -> Option(Verdict)]
      BY Zenon, TypeParts DEF AInv, JudgingOK
    <2> QED
      BY Zenon, <2>1 DEF Option, Verdict
  <1>3. ASSUME NEW s \in Status
        PROVE  /\ Cardinality(With(m, s)) \in Nat
               /\ Cardinality(With(m, s)') = Cardinality(With(m, s)) + IF s = v THEN 1 ELSE 0
    <2>1. IsFiniteSet(With(m, s)) /\ r \notin With(m, s)
      BY Zenon, ReceiptsFinite, FS_Subset DEF With
    <2>2. With(m, s)' = IF s = v THEN With(m, s) \cup {r} ELSE With(m, s)
      BY Zenon, <1>1 DEF With
    <2>3. Cardinality(With(m, s)) \in Nat /\ Cardinality(With(m, s) \cup {r}) = Cardinality(With(m, s)) + 1
      BY Zenon, <2>1, FS_AddElement, FS_CardinalityType
    <2> QED
      BY <2>2, <2>3
  <1>4. /\ Cardinality(Without(m)) \in Nat \ {0}
        /\ Cardinality(Without(m)') = Cardinality(Without(m)) - 1
    <2>1. IsFiniteSet(Without(m)) /\ r \in Without(m)
      BY Zenon, <1>1, ReceiptsFinite, FS_Subset DEF Without
    <2>2. Without(m)' = Without(m) \ {r}
      BY Zenon, <1>1 DEF Without
    <2>3. Cardinality(Without(m)) \in Nat /\ Cardinality(Without(m) \ {r}) = Cardinality(Without(m)) - 1
      BY Zenon, <2>1, FS_RemoveElement, FS_CardinalityType
    <2>4. Cardinality(Without(m)) # 0
      BY Zenon, <2>1, FS_EmptySet
    <2> QED
      BY Zenon, <2>2, <2>3, <2>4
  <1> QED
    BY Zenon, <1>2, <1>3, <1>4

\* A pass never lowers its miner's score, and a failed or inconclusive replay
\* never raises it, also through the trust in the miner's other receipts
\* (summarize_scores).
THEOREM VerdictsMoveScores == Spec => VerdictMovesScore
  <1>1. ASSUME AInv, AInv', [Next]_vars, NEW r \in Receipts, verdict[r] = None, verdict'[r] # None
        PROVE  IF verdict'[r].status = "pass" THEN AtMost(Score(r[1]), Score(r[1])')
                                              ELSE AtMost(Score(r[1])', Score(r[1]))
    <2> DEFINE m == r[1]
               v == verdict'[r].status
               p == Cardinality(With(m, "pass"))  f == Cardinality(With(m, "fail"))
               u == Cardinality(Without(m))  i == Cardinality(With(m, "inconclusive"))
    <2>1. /\ v \in {"pass", "fail", "inconclusive"}
          /\ p \in Nat /\ f \in Nat /\ i \in Nat /\ u \in Nat \ {0}
          /\ Cardinality(With(m, "pass")') = p + (IF "pass" = v THEN 1 ELSE 0)
          /\ Cardinality(With(m, "fail")') = f + (IF "fail" = v THEN 1 ELSE 0)
          /\ Cardinality(With(m, "inconclusive")') = i + (IF "inconclusive" = v THEN 1 ELSE 0)
          /\ Cardinality(Without(m)') = u - 1
      BY Zenon, <1>1, CountsMove DEF Status
    <2>2. /\ Score(m) = ScoreOf(p, f, 2 * u + i)
          /\ Score(m)' = ScoreOf(Cardinality(With(m, "pass")'), Cardinality(With(m, "fail")'),
                                 2 * Cardinality(Without(m)') + Cardinality(With(m, "inconclusive")'))
      BY Zenon, ScoreCounts
    <2> HIDE DEF m, v, p, f, u, i
    <2>3. PICK h \in Nat : h = 2 * u + i /\ h >= 2 /\ 2 * (u - 1) + i = h - 2 /\ 2 * (u - 1) + (i + 1) = h - 1
      BY <2>1
    <2>4. CASE v = "pass"
      <3>1. Score(m)' = ScoreOf(p + 1, f, h - 2)
        BY <2>1, <2>2, <2>3, <2>4
      <3>2. AtMost(ScoreOf(p, f, h), ScoreOf(p + 1, f, h - 2))
        BY Zenon, <2>1, <2>3, PassRaises
      <3> QED
        BY Zenon, <2>2, <2>3, <2>4, <3>1, <3>2 DEF v, m
    <2>5. CASE v = "fail"
      <3>1. Score(m)' = ScoreOf(p, f + 1, h - 2)
        BY <2>1, <2>2, <2>3, <2>5
      <3>2. AtMost(ScoreOf(p, f + 1, h - 2), ScoreOf(p, f, h))
        BY Zenon, <2>1, <2>3, FailLowers
      <3> QED
        BY Zenon, <2>2, <2>3, <2>5, <3>1, <3>2 DEF v, m
    <2>6. CASE v = "inconclusive"
      <3>1. Score(m)' = ScoreOf(p, f, h - 1)
        BY <2>1, <2>2, <2>3, <2>6
      <3>2. AtMost(ScoreOf(p, f, h - 1), ScoreOf(p, f, h))
        BY Zenon, <2>1, <2>3, InconclusiveLowers
      <3> QED
        BY Zenon, <2>2, <2>3, <2>6, <3>1, <3>2 DEF v, m
    <2> QED
      BY Zenon, <2>1, <2>4, <2>5, <2>6
  <1>2. AInv /\ AInv' /\ [Next]_vars =>
          [\A r \in Receipts : verdict[r] = None /\ verdict'[r] # None =>
              IF verdict'[r].status = "pass" THEN AtMost(Score(r[1]), Score(r[1])')
                                             ELSE AtMost(Score(r[1])', Score(r[1]))]_vars
    BY Zenon, <1>1
  <1> QED
    BY <1>2, AuditInductive, PTL DEF Spec, VerdictMovesScore
===============================================================================
