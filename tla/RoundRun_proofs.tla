---------------------------- MODULE RoundRun_proofs ----------------------------
(***************************************************************************)
(* Proofs about RoundRun, for every number of microbatches, replicas and   *)
(* steps, every set of miners and any number of kills, timeouts and        *)
(* crashes: a step leaves neither quota nor queue entries behind, what is  *)
(* emitted can be run, a reduce reads every replica, and the run           *)
(* implements DurableRun.                                                  *)
(***************************************************************************)
EXTENDS RoundRun, Scheduler_proofs

\* A leaf that names no prover is tried with SMT, with SMT and more time, and
\* with Zenon.
USE SMT, SMTT(30), Zenon

\* The places of run_step, and its jobs there.
InStep == pc \in {"emit", "add", "wait", "save"}
Places == {x \in (1..5) \X Nat : x[2] \in 1..Size[x[1]]}
At(x) == JobAt(step, x[1], x[2])

\* The places that run_step has emitted, and those it has waited for.
EmittedAt(x) ==
    x[1] < phase \/ (x[1] = phase /\ (pc \in {"wait", "save"} \/ x[2] < at))
WaitedAt(x) ==
    x[1] < phase \/ (x[1] = phase /\ (pc = "save" \/ (pc = "wait" /\ x[2] < at)))

\* Where run_loop is: in a step it is the step of state.json.
Position ==
    /\ pc \in {"workers", "emit", "add", "wait", "save", "done"} => state >= 0
    /\ InStep => step = state /\ step < MaxSteps
    /\ pc = "save" => phase = 5
    /\ pc = "bootstrap" => state = -1

\* What the process remembers: emitted has the jobs of this step up to the
\* present place, and otherwise jobs of earlier steps.
Memory ==
    /\ pc \in {"boot", "bootstrap"} => emitted = {}
    /\ pc = "workers" => \A j \in emitted : j.step < state
    /\ InStep => \A j \in emitted :
          j.step < step \/ \E x \in Places : EmittedAt(x) /\ j = At(x)
    /\ InStep => \A x \in Places : EmittedAt(x) => At(x) \in emitted

\* What is behind the present place is there, and out of the queue.
Behind ==
    /\ InStep => \A x \in Places : WaitedAt(x) =>
          /\ Outputs(At(x), manifest[At(x)].hk) \subseteq Uris
          /\ \A y \in queue : y.job # At(x)
    /\ pc = "add" => /\ manifest[Current].hk # 0
                     /\ \A ref \in manifest[Current].ins : ref.uri \in Uris

\* The reservations: one for every job of the phase that is emitted and not
\* waited for.
HkOf(m) == [j \in Job |-> m[j].hk]
Slots(s, p, I) == {JobAt(s, p, i) : i \in I}
Reserved ==
    /\ pc = "emit" => inflight = Held(HkOf(manifest), Slots(step, phase, 1..(at - 1)))
    /\ pc = "add" => inflight = Held(HkOf(manifest), Slots(step, phase, 1..at))
    /\ pc = "wait" => inflight = Held(HkOf(manifest), Slots(step, phase, at..Size[phase]))
    /\ pc \in {"boot", "bootstrap", "workers", "save", "done"} => inflight = Idle

\* The weights of every step up to that of state.json are in the bucket, and
\* nothing belongs to a step that is further than the one after it.
Stored ==
    /\ \A s \in 0..state, ub \in Ubs : Weights(s, ub) \in Uris
    /\ pc = "bootstrap" => \A ub \in Ubs : Weights(0, ub) \in Uris
    /\ \A j \in Job : manifest[j].hk # 0 => j.step <= state
    /\ \A hk \in Hotkeys : doing[hk] # NoJob => doing[hk].step <= state
    /\ \A hk \in Hotkeys : \A a \in left[hk] : a.name = "weights" => a.step <= state + 1
    /\ \A x \in made : x.uri.name = "weights" => x.uri.step <= state + 1

RInv ==
    /\ Position /\ Memory /\ Behind /\ Reserved /\ Stored
    /\ EmittedIsRunnable /\ ReduceReadsEveryReplica

-----------------------------------------------------------------------------
(* The jobs of a step.                                                     *)

\* How many jobs a phase has.
LEMMA Sizes ==
  /\ NumUb \in Nat \ {0} /\ Replicas \in Nat \ {0} /\ MaxSteps \in Nat \ {0}
  /\ NumUb * Replicas \in Nat \ {0}
  /\ Size[1] = 1 /\ Size[2] = NumUb * Replicas /\ Size[3] = NumUb
  /\ Size[4] = NumUb /\ Size[5] = 1
  /\ \A p \in 1..5 : Size[p] \in Nat \ {0}
  /\ 0 \in Ubs /\ 0 \in 0..(Replicas - 1)
  <1>1. NumUb \in Nat \ {0} /\ Replicas \in Nat \ {0} /\ MaxSteps \in Nat \ {0}
    BY Zenon, RoundAssumption
  <1>2. PICK n \in Nat \ {0} : n = NumUb * Replicas
    BY <1>1
  <1>3. Size = <<1, n, NumUb, NumUb, 1>>
    BY Zenon, <1>2 DEF Size
  <1>4. Size[1] = 1 /\ Size[2] = n /\ Size[3] = NumUb /\ Size[4] = NumUb /\ Size[5] = 1
    BY Zenon, <1>3
  <1>5. \A p \in 1..5 : p = 1 \/ p = 2 \/ p = 3 \/ p = 4 \/ p = 5
    OBVIOUS
  <1>6. \A p \in 1..5 : Size[p] \in Nat \ {0}
    BY <1>1, <1>2, <1>4, <1>5
  <1>7. 0 \in Ubs /\ 0 \in 0..(Replicas - 1)
    BY <1>1 DEF Ubs
  <1> QED
    BY Zenon, <1>1, <1>2, <1>4, <1>6, <1>7

\* The kinds of the phases.
LEMMA Kinds ==
  /\ Kind[1] = "forward_pass" /\ Kind[2] = "inner_step" /\ Kind[3] = "reduce"
  /\ Kind[4] = "outer_step" /\ Kind[5] = "eval"
  BY Zenon DEF Kind

\* Quotient and remainder of the place of an inner job.
LEMMA InnerPlace ==
  ASSUME NEW i \in 1..(NumUb * Replicas)
  PROVE  (i - 1) \div Replicas \in Ubs /\ (i - 1) % Replicas \in 0..(Replicas - 1)
  <1>1. PICK a \in Nat \ {0} : a = Replicas
    BY Zenon, Sizes
  <1>2. PICK b \in Nat \ {0} : b = NumUb
    BY Zenon, Sizes
  <1>3. b * a \in Nat /\ i \in 1..(b * a)
    BY <1>1, <1>2
  <1>4. PICK n \in Nat : n = i - 1
    BY <1>3
  <1>5. n < b * a
    BY <1>3, <1>4
  <1>6. n % a \in 0..(a - 1) /\ n \div a \in Nat
    BY <1>4
  <1>7. n = a * (n \div a) + (n % a)
    BY <1>4
  <1>8. PICK q \in Nat : q = n \div a
    BY Zenon, <1>6
  <1>9. a * q <= n
    <2>1. a * q \in Nat
      BY <1>8
    <2> QED
      BY <1>6, <1>7, <1>8, <2>1
  <1>10. q < b
    <2> SUFFICES ASSUME q >= b PROVE FALSE
      BY <1>2, <1>8
    <2>1. PICK d \in Nat : q = b + d
      <3>1. q - b \in Nat /\ q = b + (q - b)
        BY <1>2, <1>8
      <3> QED
        BY Zenon, <3>1
    <2>2. a * q = b * a + a * d /\ a * d \in Nat
      BY <2>1
    <2> QED
      BY <1>3, <1>5, <1>9, <2>2
  <1> QED
    BY <1>1, <1>2, <1>4, <1>6, <1>8, <1>10 DEF Ubs

\* The place of a replica's job.
LEMMA InnerAt ==
  ASSUME NEW ub \in Ubs, NEW r \in 0..(Replicas - 1)
  PROVE  \E i \in 1..(NumUb * Replicas) : (i - 1) \div Replicas = ub /\ (i - 1) % Replicas = r
  <1>1. PICK a \in Nat \ {0} : a = Replicas
    BY Zenon, Sizes
  <1>2. PICK b \in Nat \ {0} : b = NumUb
    BY Zenon, Sizes
  <1>3. ub \in Nat /\ ub < b /\ r \in Nat /\ r < a
    BY <1>1, <1>2 DEF Ubs
  <1>4. PICK n \in Nat : n = a * ub + r
    BY <1>3
  <1>5. n < b * a
    <2>1. PICK d \in Nat \ {0} : b = ub + d
      <3>1. b - ub \in Nat \ {0} /\ b = ub + (b - ub)
        BY <1>3
      <3> QED
        BY Zenon, <3>1
    <2>2. b * a = a * ub + d * a /\ d * a \in Nat /\ d * a >= a /\ a * ub \in Nat
      BY <1>3, <2>1
    <2> QED
      BY <1>3, <1>4, <2>2
  <1>6. n \div a = ub /\ n % a = r
    BY <1>3, <1>4
  <1>7. n + 1 \in 1..(b * a) /\ (n + 1) - 1 = n
    BY <1>5
  <1> QED
    BY Zenon, <1>1, <1>2, <1>6, <1>7

\* j has the fields of the i-th job of phase p of step s.
HasPlace(j, s, p, i) ==
    /\ j.kind = Kind[p] /\ j.step = s /\ j.ub \in Ubs /\ j.r \in 0..(Replicas - 1)
    /\ p = 2 => j.ub = (i - 1) \div Replicas /\ j.r = (i - 1) % Replicas
    /\ p \in {3, 4} => j.ub = i - 1
    /\ p \notin {2, 3, 4} => j.ub = 0
    /\ p # 2 => j.r = 0

\* The fields of a job, by its phase and its place there.
LEMMA JobAtFields ==
  ASSUME NEW s, NEW p \in 1..5, NEW i \in 1..Size[p]
  PROVE  HasPlace(JobAt(s, p, i), s, p, i)
  <1>1. CASE p = 2
    <2>1. JobAt(s, p, i) = [kind |-> Kind[p], step |-> s,
                            ub |-> (i - 1) \div Replicas, r |-> (i - 1) % Replicas]
      BY <1>1 DEF JobAt
    <2>2. i \in 1..(NumUb * Replicas)
      BY Zenon, <1>1, Sizes
    <2> QED
      BY <1>1, <2>1, <2>2, InnerPlace DEF HasPlace
  <1>2. CASE p \in {3, 4}
    <2>1. JobAt(s, p, i) = [kind |-> Kind[p], step |-> s, ub |-> i - 1, r |-> 0]
      BY <1>2 DEF JobAt
    <2>2. i - 1 \in Ubs
      BY <1>2, Sizes DEF Ubs
    <2> QED
      BY <1>2, <2>1, <2>2, Sizes DEF HasPlace
  <1>3. CASE p \notin {2, 3, 4}
    <2>1. JobAt(s, p, i) = [kind |-> Kind[p], step |-> s, ub |-> 0, r |-> 0]
      BY Zenon, <1>3 DEF JobAt
    <2> QED
      BY <1>3, <2>1, Sizes DEF HasPlace
  <1> QED
    BY Zenon, <1>1, <1>2, <1>3

\* No job comes twice in run_step: its kind gives away its phase ...
LEMMA PhaseOnce ==
  ASSUME NEW p \in 1..5, NEW q \in 1..5, Kind[p] = Kind[q]
  PROVE  p = q
  <1>1. \A x \in 1..5 : x = 1 \/ x = 2 \/ x = 3 \/ x = 4 \/ x = 5
    OBVIOUS
  <1> QED
    BY Zenon, <1>1, Kinds

\* ... and its other fields its place there.
LEMMA JobAtOnce ==
  ASSUME NEW j, NEW s, NEW p \in 1..5, NEW i \in 1..Size[p], NEW k \in 1..Size[p],
         HasPlace(j, s, p, i), HasPlace(j, s, p, k)
  PROVE  i = k
  <1>1. CASE p = 2
    <2>1. PICK n \in Nat : n = i - 1
      BY Sizes
    <2>2. PICK m \in Nat : m = k - 1
      BY Sizes
    <2>3. n \div Replicas = m \div Replicas /\ n % Replicas = m % Replicas
      BY Zenon, <1>1, <2>1, <2>2 DEF HasPlace
    <2>4. n - 0 = n /\ m - 0 = m /\ 0 <= n /\ 0 <= m
      OBVIOUS
    <2>5. n = m
      BY Zenon, <2>3, <2>4, Sizes, SameNumber
    <2> QED
      BY <2>1, <2>2, <2>5, Sizes
  <1>2. CASE p \in {3, 4}
    <2>1. i - 1 = k - 1
      BY Zenon, <1>2 DEF HasPlace
    <2> QED
      BY <2>1, Sizes
  <1>3. CASE p \in {1, 5}
    BY <1>3, Sizes
  <1> QED
    BY <1>1, <1>2, <1>3

\* A job of run_step is a job of the run.
LEMMA JobAtType ==
  ASSUME NEW s \in 0..(MaxSteps - 1), NEW p \in 1..5, NEW i \in 1..Size[p]
  PROVE  JobAt(s, p, i) \in Job
  BY DEF Job, StepJobs

\* The fields of a job of the run.
LEMMA JobFields ==
  ASSUME NEW j \in Job
  PROVE  /\ \E s \in 0..(MaxSteps - 1), p \in 1..5 : \E i \in 1..Size[p] : j = JobAt(s, p, i)
         /\ j.step \in 0..(MaxSteps - 1) /\ j.ub \in Ubs /\ j.r \in 0..(Replicas - 1)
         /\ j.kind \in {"forward_pass", "inner_step", "reduce", "outer_step", "eval"}
         /\ j # NoJob
  <1>1. PICK s \in 0..(MaxSteps - 1), p \in 1..5 : \E i \in 1..Size[p] : j = JobAt(s, p, i)
    BY DEF Job, StepJobs
  <1>2. PICK i \in 1..Size[p] : j = JobAt(s, p, i)
    BY Zenon, <1>1
  <1>3. p = 1 \/ p = 2 \/ p = 3 \/ p = 4 \/ p = 5
    OBVIOUS
  <1>4. j.kind = Kind[p] /\ j.step = s /\ j.ub \in Ubs /\ j.r \in 0..(Replicas - 1)
    <2>1. HasPlace(j, s, p, i)
      BY Zenon, <1>2, JobAtFields
    <2> QED
      BY Zenon, <2>1 DEF HasPlace
  <1>5. j.kind \in {"forward_pass", "inner_step", "reduce", "outer_step", "eval"}
    BY Zenon, <1>3, <1>4, Kinds
  <1>6. NoJob.kind = "none"
    BY Zenon DEF NoJob
  <1> QED
    BY Zenon, <1>1, <1>4, <1>5, <1>6

\* The outputs of a job, by kind.
LEMMA OutputsOf ==
  ASSUME NEW j, NEW hk
  PROVE  /\ j.kind = "forward_pass" => Outputs(j, hk) = {Uri("target", j.step, ub, 0, 0) : ub \in Ubs}
         /\ j.kind = "inner_step" => Outputs(j, hk) = {Uri("delta", j.step, j.ub, j.r, hk)}
         /\ j.kind = "reduce" => Outputs(j, hk) = {Uri("reduced", j.step, j.ub, 0, hk)}
         /\ j.kind = "outer_step" => Outputs(j, hk) = {Weights(j.step + 1, j.ub)}
         /\ j.kind = "eval" => Outputs(j, hk) = {Uri("metrics", j.step, 0, 0, 0)}
  <1>1. CASE j.kind = "forward_pass"
    BY Zenon, <1>1 DEF Outputs
  <1>2. CASE j.kind = "inner_step"
    BY Zenon, <1>2 DEF Outputs
  <1>3. CASE j.kind = "reduce"
    BY Zenon, <1>3 DEF Outputs
  <1>4. CASE j.kind = "outer_step"
    BY Zenon, <1>4 DEF Outputs
  <1>5. CASE j.kind = "eval"
    BY Zenon, <1>5 DEF Outputs
  <1> QED
    BY Zenon, <1>1, <1>2, <1>3, <1>4, <1>5

\* The outputs of a job are artifacts; weights among them are of the next step.
LEMMA OutputsType ==
  ASSUME NEW j \in Job, NEW hk \in Hotkeys \cup {0}
  PROVE  /\ Outputs(j, hk) \subseteq Artifact
         /\ \A a \in Outputs(j, hk) : a.name = "weights" => a.step = j.step + 1
  <1>1. j.step \in 0..(MaxSteps - 1) /\ j.ub \in Ubs /\ j.r \in 0..(Replicas - 1)
    BY Zenon, JobFields
  <1>2. j.step \in 0..MaxSteps /\ j.step + 1 \in 0..MaxSteps /\ 0 \in Ubs /\ 0 \in 0..(Replicas - 1)
    BY <1>1, Sizes
  <1>3. ASSUME NEW name \in {"weights", "target", "delta", "reduced", "metrics"},
               NEW s \in 0..MaxSteps, NEW ub \in Ubs, NEW r \in 0..(Replicas - 1),
               NEW h \in Hotkeys \cup {0}
        PROVE  Uri(name, s, ub, r, h) \in Artifact /\ Uri(name, s, ub, r, h).name = name
                 /\ Uri(name, s, ub, r, h).step = s
    BY Zenon DEF Artifact, Uri
  <1>4. CASE j.kind = "forward_pass"
    BY <1>2, <1>3, <1>4, OutputsOf
  <1>5. CASE j.kind = "inner_step"
    BY <1>1, <1>2, <1>3, <1>5, OutputsOf
  <1>6. CASE j.kind = "reduce"
    BY <1>1, <1>2, <1>3, <1>6, OutputsOf
  <1>7. CASE j.kind = "outer_step"
    BY <1>1, <1>2, <1>3, <1>7, OutputsOf DEF Weights
  <1>8. CASE j.kind = "eval"
    BY <1>1, <1>2, <1>3, <1>8, OutputsOf
  <1> QED
    BY Zenon, <1>4, <1>5, <1>6, <1>7, <1>8, JobFields

-----------------------------------------------------------------------------
(* What emit_job writes.                                                   *)

\* The inputs of a job, by kind.
LEMMA InputsOf ==
  ASSUME NEW j
  PROVE  /\ j.kind = "forward_pass" => Inputs(j) = {WeightRef(j.step, ub) : ub \in Ubs}
         /\ j.kind = "inner_step" => Inputs(j) =
              {WeightRef(j.step, j.ub),
               [uri |-> Uri("target", j.step, j.ub, 0, 0),
                need |-> OutputNeed(manifest[JobAt(j.step, 1, 1)].hk)]}
         /\ j.kind = "reduce" => Inputs(j) =
              {[uri |-> Uri("delta", i.step, i.ub, i.r, manifest[i].hk),
                need |-> OutputNeed(manifest[i].hk)] : i \in Deltas(j)}
         /\ j.kind = "outer_step" => Inputs(j) =
              {WeightRef(j.step, j.ub),
               [uri |-> Uri("reduced", j.step, j.ub, 0, manifest[JobAt(j.step, 3, j.ub + 1)].hk),
                need |-> Plain]}
         /\ j.kind = "eval" => Inputs(j) = {WeightRef(j.step + 1, ub) : ub \in Ubs}
  <1>1. CASE j.kind = "forward_pass"
    BY Zenon, <1>1 DEF Inputs
  <1>2. CASE j.kind = "inner_step"
    BY Zenon, <1>2 DEF Inputs
  <1>3. CASE j.kind = "reduce"
    BY Zenon, <1>3 DEF Inputs
  <1>4. CASE j.kind = "outer_step"
    BY Zenon, <1>4 DEF Inputs
  <1>5. CASE j.kind = "eval"
    BY Zenon, <1>5 DEF Inputs
  <1> QED
    BY Zenon, <1>1, <1>2, <1>3, <1>4, <1>5

\* What a reference may ask for.
Needs == Hotkeys \cup {Plain, Enveloped, Literal}

\* A reference to weights names them, and asks for something known.
LEMMA WeightRefType ==
  ASSUME NEW s \in 0..MaxSteps, NEW ub \in Ubs
  PROVE  WeightRef(s, ub) \in Ref /\ WeightRef(s, ub).uri = Weights(s, ub)
  <1>1. Weights(s, ub) \in Artifact
    BY Zenon, Sizes DEF Weights, Uri, Artifact
  <1>2. WeightRef(s, ub).need \in Needs /\ WeightRef(s, ub).uri = Weights(s, ub)
    <2>1. CASE Policy = "none" \/ s = 0
      BY Zenon, <2>1 DEF WeightRef, Needs
    <2>2. CASE ~(Policy = "none" \/ s = 0) /\ Policy = "signed"
      BY Zenon, <2>2 DEF WeightRef, Needs
    <2>3. CASE ~(Policy = "none" \/ s = 0) /\ Policy # "signed"
      BY Zenon, <2>3 DEF WeightRef, Needs
    <2> QED
      BY Zenon, <2>1, <2>2, <2>3
  <1>3. WeightRef(s, ub) = [uri |-> WeightRef(s, ub).uri, need |-> WeightRef(s, ub).need]
    BY DEF WeightRef
  <1> QED
    BY Zenon, <1>1, <1>2, <1>3 DEF Ref, Needs

\* So does one to a job's output.
LEMMA OutputNeedType ==
  ASSUME NEW hk \in Hotkeys \cup {0}
  PROVE  OutputNeed(hk) \in Needs
  <1>1. CASE Policy = "none"
    BY Zenon, <1>1 DEF OutputNeed, Needs
  <1>2. CASE Policy = "signed"
    BY Zenon, <1>2 DEF OutputNeed, Needs
  <1>3. CASE Policy \notin {"none", "signed"}
    BY Zenon, <1>3 DEF OutputNeed, Needs, Plain
  <1> QED
    BY Zenon, <1>1, <1>2, <1>3

\* A reference by its parts.
LEMMA RefType ==
  ASSUME NEW name \in {"weights", "target", "delta", "reduced", "metrics"},
         NEW s \in 0..MaxSteps, NEW ub \in Ubs, NEW r \in 0..(Replicas - 1),
         NEW hk \in Hotkeys \cup {0}, NEW need \in Needs
  PROVE  [uri |-> Uri(name, s, ub, r, hk), need |-> need] \in Ref
  BY Zenon DEF Ref, Needs, Uri, Artifact

\* The inputs of a job are references to artifacts.
LEMMA InputsType ==
  ASSUME TypeOK, NEW j \in Job
  PROVE  Inputs(j) \in SUBSET Ref
  <1>1. j.step \in 0..(MaxSteps - 1) /\ j.ub \in Ubs
    BY Zenon, JobFields
  <1>2. j.step \in 0..MaxSteps /\ j.step + 1 \in 0..MaxSteps /\ 0 \in 0..(Replicas - 1)
          /\ j.ub + 1 \in 1..Size[3] /\ 1 \in 1..Size[1]
    BY <1>1, Sizes DEF Ubs
  <1>3. \A k \in Job : manifest[k].hk \in Hotkeys \cup {0}
    BY Zenon DEF TypeOK
  <1>4. CASE j.kind = "forward_pass"
    BY <1>2, <1>4, InputsOf, WeightRefType
  <1>5. CASE j.kind = "inner_step"
    <2>1. PICK h \in Hotkeys \cup {0} : h = manifest[JobAt(j.step, 1, 1)].hk
      BY <1>1, <1>2, <1>3, JobAtType
    <2>2. [uri |-> Uri("target", j.step, j.ub, 0, 0), need |-> OutputNeed(h)] \in Ref
      BY Zenon, <1>1, <1>2, OutputNeedType, RefType
    <2> QED
      BY <1>1, <1>2, <1>5, <2>1, <2>2, InputsOf, WeightRefType
  <1>6. CASE j.kind = "reduce"
    <2>1. ASSUME NEW i \in Deltas(j)
          PROVE  [uri |-> Uri("delta", i.step, i.ub, i.r, manifest[i].hk),
                  need |-> OutputNeed(manifest[i].hk)] \in Ref
      <3>1. i \in Job
        BY Zenon DEF Deltas, TypeOK
      <3>2. i.step \in 0..MaxSteps /\ i.ub \in Ubs /\ i.r \in 0..(Replicas - 1)
        BY <3>1, JobFields, Sizes
      <3>3. PICK h \in Hotkeys \cup {0} : h = manifest[i].hk
        BY Zenon, <1>3, <3>1
      <3>4. [uri |-> Uri("delta", i.step, i.ub, i.r, h), need |-> OutputNeed(h)] \in Ref
        BY Zenon, <3>2, OutputNeedType, RefType
      <3> QED
        BY Zenon, <3>3, <3>4
    <2> QED
      BY <1>6, <2>1, InputsOf
  <1>7. CASE j.kind = "outer_step"
    <2>1. PICK h \in Hotkeys \cup {0} : h = manifest[JobAt(j.step, 3, j.ub + 1)].hk
      BY <1>1, <1>2, <1>3, JobAtType
    <2>2. [uri |-> Uri("reduced", j.step, j.ub, 0, h), need |-> Plain] \in Ref
      BY Zenon, <1>1, <1>2, RefType DEF Needs
    <2> QED
      BY <1>1, <1>2, <1>7, <2>1, <2>2, InputsOf, WeightRefType
  <1>8. CASE j.kind = "eval"
    BY <1>2, <1>8, InputsOf, WeightRefType
  <1> QED
    BY Zenon, <1>4, <1>5, <1>6, <1>7, <1>8, JobFields

-----------------------------------------------------------------------------
(* Types, and where run_loop is.                                           *)

\* A step that run_loop and its flush take no part in.
Aside == (\E hk \in Hotkeys : Mining(hk) \/ Crash(hk)) \/ UNCHANGED vars

\* The cases of a step.
LEMMA StepCases ==
  [Next]_vars =>
    \/ Boot \/ BootState \/ WaitForWorkers \/ EmitManifest \/ EmitAdd \/ NoRoom
    \/ WaitOutputs \/ SaveState \/ Restart \/ Publish \/ TimesOut \/ Kill \/ Aside
  BY Zenon DEF Next, Manage, Aside

\* Miners leave the manager's state and what it wrote alone.
LEMMA AsideKeeps ==
  ASSUME Aside
  PROVE  UNCHANGED <<pc, step, phase, at, accounts, inflight, emitted, queue,
                     published, state, manifest>>
  <1>1. ASSUME NEW hk \in Hotkeys, Mining(hk) \/ Crash(hk)
        PROVE  UNCHANGED <<place, book, published, state, manifest>>
    BY Zenon, <1>1 DEF Mining, Take, Skip, PutOutput, Finish, Start, Crash
  <1>2. ASSUME UNCHANGED vars
        PROVE  UNCHANGED <<place, book, published, state, manifest>>
    BY Zenon, <1>2 DEF vars
  <1>3. UNCHANGED <<place, book, published, state, manifest>>
    BY Zenon, <1>1, <1>2 DEF Aside
  <1> QED
    BY Zenon, <1>3 DEF place, book

\* The manager's part of TypeOK, and the miners'.
ManagerTypes ==
    /\ pc \in {"boot", "bootstrap", "workers", "emit", "add", "wait", "save", "down", "done"}
    /\ step \in 0..MaxSteps /\ phase \in 1..5 /\ at \in 1..Size[phase]
    /\ accounts \subseteq Hotkeys /\ inflight \in [Hotkeys -> Nat] /\ emitted \subseteq Job
    /\ queue \subseteq [job : Job, hk : Hotkeys]
    /\ published \subseteq [job : Job, hk : Hotkeys]
    /\ state \in -1..MaxSteps
    /\ manifest \in [Job -> [hk : Hotkeys \cup {0}, ins : SUBSET Ref]]
MinerTypes ==
    /\ made \subseteq [uri : Artifact, by : Hotkeys \cup {0}]
    /\ on \subseteq Hotkeys /\ doing \in [Hotkeys -> Job \cup {NoJob}]
    /\ left \in [Hotkeys -> SUBSET Artifact]
    /\ completed \in [Hotkeys -> SUBSET Job] /\ cache \in [Hotkeys -> SUBSET Artifact]
    /\ faults \in 0..MaxFaults

\* Together they are TypeOK.
LEMMA TypeParts ==
  /\ TypeOK <=> ManagerTypes /\ MinerTypes
  /\ TypeOK' <=> ManagerTypes' /\ MinerTypes'
  BY Zenon DEF TypeOK, ManagerTypes, MinerTypes

\* The job run_step is at.
LEMMA CurrentType ==
  ASSUME ManagerTypes, Position, InStep
  PROVE  /\ Current \in Job /\ step \in 0..(MaxSteps - 1) /\ step = state
         /\ phase \in 1..5 /\ at \in 1..Size[phase]
  <1>1. step \in 0..(MaxSteps - 1) /\ step = state /\ phase \in 1..5 /\ at \in 1..Size[phase]
    BY Sizes DEF ManagerTypes, Position
  <1> QED
    BY Zenon, <1>1, JobAtType DEF Current

\* pick_worker returns a hotkey of the book.
LEMMA PickType ==
  ASSUME ManagerTypes, Pickable # {}
  PROVE  PickWorker(Pickable, inflight) \in Hotkeys
  <1>1. accounts \in SUBSET Hotkeys /\ inflight \in [Hotkeys -> Nat]
    BY Zenon DEF ManagerTypes
  <1> QED
    BY Zenon, <1>1, PickIsCandidate DEF Pickable

\* Letting a job go keeps the types of the book.
LEMMA LetGoType ==
  ASSUME ManagerTypes, NEW j, LetGo(j)
  PROVE  inflight' \in [Hotkeys -> Nat] /\ queue' \subseteq queue
  <1>1. One(manifest[j].hk) \in [Hotkeys -> Nat]
    BY Zenon DEF One
  <1>2. inflight' \in [Hotkeys -> Nat]
    BY Zenon, <1>1, ReleaseType DEF ManagerTypes, LetGo
  <1> QED
    BY Zenon, <1>2 DEF LetGo, Remove

\* Every step of the manager keeps its types.
LEMMA ManagerTypesStep == TypeOK /\ Position /\ Behind /\ [Next]_vars => ManagerTypes'
  <1> SUFFICES ASSUME TypeOK, Position, Behind, [Next]_vars PROVE ManagerTypes'
    BY Zenon
  <1>0. ManagerTypes
    BY Zenon, TypeParts
  <1> USE Sizes DEF ManagerTypes
  <1>1. CASE Boot
    BY Zenon, <1>0, <1>1 DEF Boot, book
  <1>2. CASE BootState
    BY <1>0, <1>2 DEF BootState, book
  <1>3. CASE WaitForWorkers
    <2>1. state \in 0..MaxSteps
      BY <1>0, <1>3 DEF WaitForWorkers, Position
    <2>2. pc' \in {"done", "emit"} /\ published' \in {queue, published}
      BY Zenon, <1>3 DEF WaitForWorkers
    <2>3. accounts' \subseteq Hotkeys
      BY Zenon, <1>0, <1>3 DEF WaitForWorkers
    <2>4. 1 \in 1..Size[1]
      OBVIOUS
    <2> QED
      BY <1>0, <1>3, <2>1, <2>2, <2>3, <2>4 DEF WaitForWorkers
  <1>4. CASE EmitManifest
    <2>1. PICK hk \in Hotkeys : hk = PickWorker(Pickable, inflight)
      BY Zenon, <1>0, <1>4, PickType DEF EmitManifest
    <2>2. Current \in Job /\ Inputs(Current) \in SUBSET Ref
      BY Zenon, <1>0, <1>4, CurrentType, InputsType DEF EmitManifest, InStep
    <2>3. [hk |-> hk, ins |-> Inputs(Current)] \in [hk : Hotkeys \cup {0}, ins : SUBSET Ref]
      BY Zenon, <2>2
    <2>4. manifest' = [manifest EXCEPT ![Current] = [hk |-> hk, ins |-> Inputs(Current)]]
            /\ inflight' = Reserve(inflight, hk)
      BY Zenon, <1>4, <2>1 DEF EmitManifest
    <2>5. manifest' \in [Job -> [hk : Hotkeys \cup {0}, ins : SUBSET Ref]]
      BY Zenon, <1>0, <2>3, <2>4
    <2>6. inflight' \in [Hotkeys -> Nat]
      BY <1>0, <2>1, <2>4 DEF Reserve
    <2> QED
      BY Zenon, <1>0, <1>4, <2>5, <2>6 DEF EmitManifest
  <1>5. CASE EmitAdd
    <2>1. Current \in Job
      BY Zenon, <1>0, <1>5, CurrentType DEF EmitAdd, InStep
    <2>2. manifest[Current].hk \in Hotkeys
      BY Zenon, <1>0, <1>5, <2>1 DEF EmitAdd, Behind
    <2>3. queue' \subseteq [job : Job, hk : Hotkeys]
      BY <1>0, <1>5, <2>1, <2>2 DEF EmitAdd, Remove
    <2>4. pc' \in {"emit", "wait"} /\ at' \in 1..Size[phase]
      BY <1>0, <1>5 DEF EmitAdd
    <2> QED
      BY Zenon, <1>0, <1>5, <2>1, <2>3, <2>4 DEF EmitAdd
  <1>6. CASE NoRoom
    BY Zenon, <1>0, <1>6 DEF NoRoom, book
  <1>7. CASE WaitOutputs
    <2>1. inflight' \in [Hotkeys -> Nat] /\ queue' \subseteq queue
      BY Zenon, <1>0, <1>7, LetGoType DEF WaitOutputs
    <2>2. pc' \in {"wait", "emit", "save"} /\ phase' \in 1..5 /\ at' \in 1..Size[phase']
      BY <1>0, <1>7 DEF WaitOutputs, Advance
    <2> QED
      BY Zenon, <1>0, <1>7, <2>1, <2>2 DEF WaitOutputs
  <1>8. CASE SaveState
    <2>1. step + 1 \in 0..MaxSteps
      BY <1>0, <1>8, CurrentType DEF SaveState, InStep
    <2> QED
      BY <1>0, <1>8, <2>1 DEF SaveState, book
  <1>9. CASE Restart
    BY <1>0, <1>9 DEF Restart, Idle
  <1>10. CASE Publish
    BY Zenon, <1>0, <1>10 DEF Publish, place, book
  <1>11. CASE TimesOut
    <2>1. inflight' \in [Hotkeys -> Nat] /\ queue' \subseteq queue
      BY Zenon, <1>0, <1>11, LetGoType DEF TimesOut
    <2> QED
      BY Zenon, <1>0, <1>11, <2>1 DEF TimesOut
  <1>12. CASE Kill
    BY Zenon, <1>0, <1>12 DEF Kill, book
  <1>13. CASE Aside
    BY Zenon, <1>0, <1>13, AsideKeeps
  <1> QED
    BY Zenon, <1>1, <1>2, <1>3, <1>4, <1>5, <1>6, <1>7, <1>8, <1>9, <1>10, <1>11, <1>12, <1>13, StepCases

\* Every step keeps the miners' types, and those of the bucket.
LEMMA MinerTypesStep == TypeOK /\ [Next]_vars => MinerTypes'
  <1> SUFFICES ASSUME TypeOK, [Next]_vars PROVE MinerTypes'
    BY Zenon
  <1>0. ManagerTypes /\ MinerTypes
    BY Zenon, TypeParts
  <1> USE DEF MinerTypes
  <1>1. CASE Boot
    <2>1. \A ub \in Ubs : [uri |-> Weights(0, ub), by |-> 0] \in [uri : Artifact, by : Hotkeys \cup {0}]
      BY Sizes DEF Weights, Uri, Artifact
    <2>2. made' \subseteq [uri : Artifact, by : Hotkeys \cup {0}]
      BY <1>0, <1>1, <2>1 DEF Boot
    <2> QED
      BY Zenon, <1>0, <1>1, <2>2 DEF Boot, miners
  <1>2. CASE BootState \/ WaitForWorkers \/ EmitManifest \/ EmitAdd \/ NoRoom
              \/ WaitOutputs \/ SaveState \/ Restart \/ Publish
    <2>1. UNCHANGED <<made, miners, faults>>
      BY Zenon, <1>2 DEF BootState, WaitForWorkers, EmitManifest, EmitAdd, NoRoom,
                  WaitOutputs, SaveState, Restart, Publish
    <2> QED
      BY Zenon, <1>0, <2>1 DEF miners
  <1>3. CASE TimesOut \/ Kill
    <2>1. UNCHANGED <<made, miners>> /\ faults < MaxFaults /\ faults' = faults + 1
      BY Zenon, <1>3 DEF TimesOut, Kill
    <2> QED
      BY <1>0, <2>1, RoundAssumption DEF miners
  <1>4. ASSUME NEW hk \in Hotkeys, Take(hk) PROVE MinerTypes'
    <2>1. PICK j \in Mine(hk) : /\ doing' = [doing EXCEPT ![hk] = j]
                                /\ left' = [left EXCEPT ![hk] = Outputs(j, hk)]
      BY Zenon, <1>4 DEF Take
    <2>2. j \in Job
      BY Zenon, <1>0, <2>1 DEF Mine, ManagerTypes
    <2>3. Outputs(j, hk) \in SUBSET Artifact
      BY Zenon, <2>2, OutputsType
    <2> QED
      BY Zenon, <1>0, <1>4, <2>1, <2>2, <2>3 DEF Take
  <1>5. ASSUME NEW hk \in Hotkeys, Skip(hk) PROVE MinerTypes'
    <2>1. PICK j \in Mine(hk) : completed' = [completed EXCEPT ![hk] = @ \cup {j}]
      BY Zenon, <1>5 DEF Skip
    <2>2. j \in Job
      BY Zenon, <1>0, <2>1 DEF Mine, ManagerTypes
    <2> QED
      BY Zenon, <1>0, <1>5, <2>1, <2>2 DEF Skip
  <1>6. ASSUME NEW hk \in Hotkeys, PutOutput(hk) PROVE MinerTypes'
    <2>1. PICK a \in left[hk] :
            /\ made' = {x \in made : x.uri # a}
                         \cup {[uri |-> a, by |-> IF Policy = "none" THEN 0 ELSE hk]}
            /\ left' = [left EXCEPT ![hk] = @ \ {a}]
      BY Zenon, <1>6 DEF PutOutput
    <2>2. a \in Artifact
      BY Zenon, <1>0, <2>1
    <2> QED
      BY <1>0, <1>6, <2>1, <2>2 DEF PutOutput
  <1>7. ASSUME NEW hk \in Hotkeys, Finish(hk) PROVE MinerTypes'
    <2>1. doing[hk] \in Job /\ Outputs(doing[hk], hk) \in SUBSET Artifact
      BY Zenon, <1>0, <1>7, OutputsType DEF Finish
    <2>2. cache' \in [Hotkeys -> SUBSET Artifact]
      BY Zenon, <1>0, <1>7, <2>1 DEF Finish
    <2>3. completed' \in [Hotkeys -> SUBSET Job] /\ doing' \in [Hotkeys -> Job \cup {NoJob}]
      BY Zenon, <1>0, <1>7, <2>1 DEF Finish
    <2> QED
      BY Zenon, <1>0, <1>7, <2>2, <2>3 DEF Finish
  <1>8. ASSUME NEW hk \in Hotkeys, Start(hk) PROVE MinerTypes'
    BY Zenon, <1>0, <1>8 DEF Start
  <1>9. ASSUME NEW hk \in Hotkeys, Crash(hk) PROVE MinerTypes'
    BY <1>0, <1>9, RoundAssumption DEF Crash
  <1>10. CASE UNCHANGED vars
    BY Zenon, <1>0, <1>10 DEF vars, miners
  <1> QED
    BY Zenon, <1>1, <1>2, <1>3, <1>4, <1>5, <1>6, <1>7, <1>8, <1>9, <1>10, StepCases DEF Aside, Mining

\* Where run_loop goes.
LEMMA PositionStep == TypeOK /\ Position /\ [Next]_vars => Position'
  <1> SUFFICES ASSUME TypeOK, Position, [Next]_vars PROVE Position'
    BY Zenon
  <1>0. ManagerTypes
    BY Zenon, TypeParts
  <1> USE Sizes DEF ManagerTypes, Position, InStep
  <1>1. CASE Boot
    BY <1>0, <1>1 DEF Boot
  <1>2. CASE BootState
    BY <1>0, <1>2 DEF BootState
  <1>3. CASE WaitForWorkers
    BY <1>0, <1>3 DEF WaitForWorkers
  <1>4. CASE EmitManifest
    BY Zenon, <1>0, <1>4 DEF EmitManifest
  <1>5. CASE EmitAdd
    BY Zenon, <1>0, <1>5 DEF EmitAdd
  <1>6. CASE NoRoom
    BY Zenon, <1>0, <1>6 DEF NoRoom
  <1>7. CASE WaitOutputs
    BY <1>0, <1>7 DEF WaitOutputs, Advance
  <1>8. CASE SaveState
    BY <1>0, <1>8 DEF SaveState
  <1>9. CASE Restart
    BY Zenon, <1>0, <1>9 DEF Restart
  <1>10. CASE Publish
    BY Zenon, <1>0, <1>10 DEF Publish, place
  <1>11. CASE TimesOut
    BY Zenon, <1>0, <1>11 DEF TimesOut
  <1>12. CASE Kill
    BY Zenon, <1>0, <1>12 DEF Kill
  <1>13. CASE Aside
    BY Zenon, <1>0, <1>13, AsideKeeps
  <1> QED
    BY Zenon, <1>1, <1>2, <1>3, <1>4, <1>5, <1>6, <1>7, <1>8, <1>9, <1>10, <1>11, <1>12, <1>13, StepCases

-----------------------------------------------------------------------------
(* The bucket.                                                             *)

\* Artifacts are replaced but never taken away.
LEMMA UrisGrow == [Next]_vars => Uris \subseteq Uris'
  <1> SUFFICES ASSUME [Next]_vars PROVE Uris \subseteq Uris'
    BY Zenon
  <1>1. CASE Boot
    <2>1. made \subseteq made'
      BY Zenon, <1>1 DEF Boot
    <2> QED
      BY Zenon, <2>1 DEF Uris
  <1>2. ASSUME NEW hk \in Hotkeys, PutOutput(hk) PROVE Uris \subseteq Uris'
    <2>1. PICK a \in left[hk] :
            made' = {x \in made : x.uri # a}
                      \cup {[uri |-> a, by |-> IF Policy = "none" THEN 0 ELSE hk]}
      BY Zenon, <1>2 DEF PutOutput
    <2>2. \A x \in made : x \in made' \/ x.uri = a
      BY Zenon, <2>1
    <2>3. a \in Uris'
      <3> DEFINE z == [uri |-> a, by |-> IF Policy = "none" THEN 0 ELSE hk]
      <3>1. z \in made' /\ z.uri = a
        BY Zenon, <2>1
      <3> QED
        BY Zenon, <3>1 DEF Uris
    <2> QED
      BY Zenon, <2>2, <2>3 DEF Uris
  <1>3. CASE made' = made
    BY Zenon, <1>3 DEF Uris
  <1>4. BootState \/ WaitForWorkers \/ EmitManifest \/ EmitAdd \/ NoRoom \/ WaitOutputs
          \/ SaveState \/ Restart \/ Publish \/ TimesOut \/ Kill => made' = made
    BY Zenon DEF BootState, WaitForWorkers, EmitManifest, EmitAdd, NoRoom,
           WaitOutputs, SaveState, Restart, Publish, TimesOut, Kill
  <1>5. ASSUME NEW hk \in Hotkeys, Mining(hk) \/ Crash(hk), ~PutOutput(hk) PROVE made' = made
    BY Zenon, <1>5 DEF Mining, Take, Skip, Finish, Start, Crash
  <1>6. ASSUME UNCHANGED vars PROVE made' = made
    BY Zenon, <1>6 DEF vars
  <1> QED
    BY Zenon, <1>1, <1>2, <1>3, <1>4, <1>5, <1>6, StepCases DEF Aside

\* In its last phase run_step has the weights of the next step.
LEMMA NextWeights ==
  ASSUME ManagerTypes, Position, Behind, InStep, phase = 5, NEW ub \in Ubs
  PROVE  Weights(step + 1, ub) \in Uris
  <1> DEFINE x == <<4, ub + 1>>
  <1>1. ub + 1 \in 1..Size[4] /\ x \in Places /\ x[1] = 4 /\ x[2] = ub + 1
    BY Sizes DEF Ubs, Places
  <1>3. WaitedAt(x)
    BY <1>1 DEF WaitedAt
  <1>4. Outputs(At(x), manifest[At(x)].hk) \subseteq Uris
    BY Zenon, <1>1, <1>3 DEF Behind
  <1>5. HasPlace(At(x), step, 4, ub + 1)
    BY <1>1, JobAtFields DEF At
  <1>6. At(x).kind = "outer_step" /\ At(x).step = step /\ At(x).ub = ub
    <2>1. (ub + 1) - 1 = ub
      BY DEF Ubs
    <2> QED
      BY Zenon, <1>5, <2>1, Kinds DEF HasPlace
  <1> HIDE DEF x
  <1> QED
    BY <1>4, <1>6, OutputsOf

\* The bucket keeps what the steps so far need, and gets nothing of later ones.
LEMMA StoredStep == TypeOK /\ Position /\ Behind /\ Stored /\ [Next]_vars => Stored'
  <1> SUFFICES ASSUME TypeOK, Position, Behind, Stored, [Next]_vars PROVE Stored'
    BY Zenon
  <1>0. ManagerTypes /\ MinerTypes /\ Uris \subseteq Uris'
    BY Zenon, TypeParts, UrisGrow
  <1>1. CASE Boot
    <2>1. UNCHANGED <<state, manifest, doing, left>>
      BY Zenon, <1>1 DEF Boot, miners
    <2>2. ASSUME pc' = "bootstrap", NEW ub \in Ubs PROVE Weights(0, ub) \in Uris'
      <3> DEFINE z == [uri |-> Weights(0, ub), by |-> 0]
      <3>1. z \in made' /\ z.uri = Weights(0, ub)
        BY Zenon, <1>1, <2>2 DEF Boot
      <3> QED
        BY Zenon, <3>1 DEF Uris
    <2>3. ASSUME NEW x \in made', x.uri.name = "weights" PROVE x.uri.step <= state + 1
      <3>1. CASE x \in made
        BY Zenon, <2>3, <3>1 DEF Stored
      <3>2. CASE x \notin made
        <4>1. state = -1 /\ \E ub \in Ubs : x = [uri |-> Weights(0, ub), by |-> 0]
          BY Zenon, <1>1, <2>3, <3>2 DEF Boot
        <4> QED
          BY <4>1 DEF Weights, Uri
      <3> QED
        BY Zenon, <3>1, <3>2
    <2> QED
      BY Zenon, <1>0, <2>1, <2>2, <2>3 DEF Stored
  <1>2. CASE BootState
    <2>1. UNCHANGED <<manifest, doing, left, made>> /\ pc = "bootstrap" /\ pc' = "workers" /\ state' = 0
      BY Zenon, <1>2 DEF BootState, miners
    <2>2. state = -1
      BY Zenon, <2>1 DEF Position
    <2>3. \A s \in 0..state', ub \in Ubs : Weights(s, ub) \in Uris'
      BY <1>0, <2>1 DEF Stored
    <2>4. /\ \A j \in Job : manifest[j].hk # 0 => j.step <= 0
          /\ \A hk \in Hotkeys : doing[hk] # NoJob => doing[hk].step <= 0
      <3>1. /\ \A j \in Job : j.step \in Nat
            /\ \A hk \in Hotkeys : doing[hk] # NoJob => doing[hk] \in Job
        BY <1>0, JobFields DEF MinerTypes
      <3> QED
        BY <2>2, <3>1 DEF Stored
    <2>5. ASSUME NEW hk \in Hotkeys, NEW a \in left[hk], a.name = "weights" PROVE a.step <= 1
      <3>1. a \in Artifact
        BY Zenon, <1>0 DEF MinerTypes
      <3>2. a.step \in Nat /\ a.step <= 0
        BY <2>2, <2>5, <3>1 DEF Stored, Artifact
      <3> QED
        BY <3>2
    <2>6. ASSUME NEW x \in made, x.uri.name = "weights" PROVE x.uri.step <= 1
      <3>1. x.uri \in Artifact
        BY Zenon, <1>0 DEF MinerTypes
      <3>2. x.uri.step \in Nat /\ x.uri.step <= 0
        BY <2>2, <2>6, <3>1 DEF Stored, Artifact
      <3> QED
        BY <3>2
    <2> QED
      BY <2>1, <2>3, <2>4, <2>5, <2>6 DEF Stored
  <1>3. CASE SaveState
    <2>1. UNCHANGED <<manifest, doing, left, made>> /\ pc = "save" /\ pc' = "workers" /\ state' = state + 1
            /\ step = state /\ state \in Nat
      BY <1>0, <1>3, CurrentType DEF SaveState, miners, InStep
    <2>2. ASSUME NEW s \in 0..state', NEW ub \in Ubs PROVE Weights(s, ub) \in Uris'
      <3>1. CASE s \in 0..state
        BY Zenon, <1>0, <3>1 DEF Stored
      <3>2. CASE s = state + 1
        BY Zenon, <1>0, <2>1, <3>2, NextWeights DEF Position, InStep
      <3> QED
        BY <2>1, <3>1, <3>2
    <2>3. /\ \A j \in Job : manifest[j].hk # 0 => j.step <= state + 1
          /\ \A hk \in Hotkeys : doing[hk] # NoJob => doing[hk].step <= state + 1
      <3>1. /\ \A j \in Job : j.step \in Nat
            /\ \A hk \in Hotkeys : doing[hk] # NoJob => doing[hk] \in Job
        BY <1>0, JobFields DEF MinerTypes
      <3> QED
        BY <2>1, <3>1 DEF Stored
    <2>4. ASSUME NEW hk \in Hotkeys, NEW a \in left[hk], a.name = "weights" PROVE a.step <= state + 1 + 1
      <3>1. a \in Artifact
        BY Zenon, <1>0 DEF MinerTypes
      <3>2. a.step \in Nat /\ a.step <= state + 1
        BY <2>4, <3>1 DEF Stored, Artifact
      <3> QED
        BY <2>1, <3>2
    <2>5. ASSUME NEW x \in made, x.uri.name = "weights" PROVE x.uri.step <= state + 1 + 1
      <3>1. x.uri \in Artifact
        BY Zenon, <1>0 DEF MinerTypes
      <3>2. x.uri.step \in Nat /\ x.uri.step <= state + 1
        BY <2>5, <3>1 DEF Stored, Artifact
      <3> QED
        BY <2>1, <3>2
    <2> QED
      BY Zenon, <2>1, <2>2, <2>3, <2>4, <2>5 DEF Stored
  <1>4. CASE EmitManifest
    <2>1. UNCHANGED <<state, doing, left, made>> /\ pc' = "add"
      BY Zenon, <1>4 DEF EmitManifest, miners
    <2>2. Current \in Job /\ Current.step = state
      <3>1. InStep
        BY Zenon, <1>4 DEF EmitManifest, InStep
      <3>2. HasPlace(Current, step, phase, at)
        BY Zenon, <1>0, <3>1, CurrentType, JobAtFields DEF Current
      <3> QED
        BY Zenon, <1>0, <3>1, <3>2, CurrentType DEF HasPlace
    <2>3. ASSUME NEW j \in Job, manifest'[j].hk # 0 PROVE j.step <= state
      <3>1. CASE j = Current
        BY <1>0, <2>2, <3>1 DEF ManagerTypes
      <3>2. CASE j # Current
        BY Zenon, <1>0, <1>4, <2>3, <3>2 DEF EmitManifest, Stored, ManagerTypes
      <3> QED
        BY Zenon, <3>1, <3>2
    <2> QED
      BY Zenon, <1>0, <2>1, <2>3 DEF Stored
  <1>5. CASE WaitForWorkers \/ EmitAdd \/ NoRoom \/ WaitOutputs \/ Restart \/ Publish \/ TimesOut \/ Kill
    <2>1. UNCHANGED <<state, manifest, doing, left, made>>
      BY ZenonT(40), <1>5 DEF WaitForWorkers, EmitAdd, NoRoom, WaitOutputs, Restart, Publish, TimesOut, Kill, miners
    <2>2. pc' = "bootstrap" => pc = "bootstrap"
      BY Zenon, <1>5 DEF WaitForWorkers, EmitAdd, NoRoom, WaitOutputs, Advance, Restart, Publish, TimesOut, Kill, place
    <2> QED
      BY ZenonT(40), <1>0, <2>1, <2>2 DEF Stored
  <1>6. ASSUME NEW hk \in Hotkeys, Take(hk) PROVE Stored'
    <2>1. PICK j \in Mine(hk) : /\ doing' = [doing EXCEPT ![hk] = j]
                                /\ left' = [left EXCEPT ![hk] = Outputs(j, hk)]
      BY Zenon, <1>6 DEF Take
    <2>2. j \in Job /\ j.step <= state
      BY Zenon, <1>0, <2>1, RoundAssumption DEF Mine, ManagerTypes, Stored
    <2>3. \A a \in Outputs(j, hk) : a.name = "weights" => a.step <= state + 1
      BY <1>0, <2>2, OutputsType, JobFields DEF ManagerTypes
    <2>4. UNCHANGED <<pc, state, manifest, made>>
      BY Zenon, <1>6 DEF Take, place
    <2>5. \A h \in Hotkeys : doing'[h] # NoJob => doing'[h].step <= state
      BY Zenon, <1>0, <2>1, <2>2 DEF Stored, MinerTypes
    <2>6. \A h \in Hotkeys : \A a \in left'[h] : a.name = "weights" => a.step <= state + 1
      BY Zenon, <1>0, <2>1, <2>3 DEF Stored, MinerTypes
    <2> QED
      BY ZenonT(40), <1>0, <2>4, <2>5, <2>6 DEF Stored
  <1>7. ASSUME NEW hk \in Hotkeys, PutOutput(hk) PROVE Stored'
    <2>1. PICK a \in left[hk] :
            /\ made' = {x \in made : x.uri # a}
                         \cup {[uri |-> a, by |-> IF Policy = "none" THEN 0 ELSE hk]}
            /\ left' = [left EXCEPT ![hk] = @ \ {a}]
      BY Zenon, <1>7 DEF PutOutput
    <2>2. UNCHANGED <<pc, state, manifest, doing>>
      BY Zenon, <1>7 DEF PutOutput, place
    <2>3. \A h \in Hotkeys : left'[h] \subseteq left[h]
      BY Zenon, <1>0, <2>1 DEF MinerTypes
    <2>4. \A x \in made' : x \in made \/ x.uri = a
      BY <2>1
    <2>5. \A x \in made' : x.uri.name = "weights" => x.uri.step <= state + 1
      BY Zenon, <2>1, <2>4 DEF Stored
    <2> QED
      BY Zenon, <1>0, <2>2, <2>3, <2>5 DEF Stored
  <1>8. ASSUME NEW hk \in Hotkeys, Skip(hk) \/ Finish(hk) \/ Start(hk) \/ Crash(hk) PROVE Stored'
    <2>1. UNCHANGED <<pc, state, manifest, made>>
      BY Zenon, <1>8 DEF Skip, Finish, Start, Crash, place
    <2>2. \A h \in Hotkeys : doing'[h] \in {doing[h], NoJob} /\ left'[h] \subseteq left[h]
      BY Zenon, <1>0, <1>8 DEF Skip, Finish, Start, Crash, MinerTypes
    <2> QED
      BY Zenon, <1>0, <2>1, <2>2 DEF Stored
  <1>9. CASE UNCHANGED vars
    BY Zenon, <1>9 DEF vars, place, miners, Stored, Uris
  <1> QED
    BY Zenon, <1>1, <1>2, <1>3, <1>4, <1>5, <1>6, <1>7, <1>8, <1>9, StepCases DEF Aside, Mining

-----------------------------------------------------------------------------
(* The places of run_step.                                                 *)

\* A place, its job and the step of that.
LEMMA PlaceType ==
  ASSUME ManagerTypes, Position, InStep, NEW x \in Places
  PROVE  /\ x[1] \in 1..5 /\ x[2] \in 1..Size[x[1]] /\ x = <<x[1], x[2]>>
         /\ At(x) \in Job /\ HasPlace(At(x), step, x[1], x[2])
  <1>1. x[1] \in 1..5 /\ x[2] \in 1..Size[x[1]] /\ x = <<x[1], x[2]>>
    BY DEF Places
  <1>2. step \in 0..(MaxSteps - 1)
    BY Zenon, CurrentType
  <1> QED
    BY Zenon, <1>1, <1>2, JobAtType, JobAtFields DEF At

\* The present place.
LEMMA PlaceNow ==
  ASSUME ManagerTypes, Position, InStep
  PROVE  <<phase, at>> \in Places /\ At(<<phase, at>>) = Current
  <1>1. phase \in 1..5 /\ at \in 1..Size[phase] /\ at \in Nat
    BY CurrentType, Sizes
  <1> QED
    BY Zenon, <1>1 DEF Places, At, Current

\* A place whose job is that of the present place is the present place.
LEMMA PlaceOnce ==
  ASSUME ManagerTypes, Position, InStep, NEW x \in Places, At(x) = Current
  PROVE  x[1] = phase /\ x[2] = at
  <1>1. x[1] \in 1..5 /\ x[2] \in 1..Size[x[1]] /\ phase \in 1..5 /\ at \in 1..Size[phase]
    BY Zenon, PlaceType, CurrentType
  <1>2. HasPlace(Current, step, x[1], x[2]) /\ HasPlace(Current, step, phase, at)
    BY Zenon, <1>1, PlaceType, JobAtFields DEF Current
  <1>3. x[1] = phase
    BY Zenon, <1>1, <1>2, PhaseOnce DEF HasPlace
  <1> QED
    BY Zenon, <1>1, <1>2, <1>3, JobAtOnce

\* What the process remembers follows its steps.
LEMMA MemoryStep == TypeOK /\ Position /\ Memory /\ [Next]_vars => Memory'
  <1> SUFFICES ASSUME TypeOK, Position, Memory, [Next]_vars PROVE Memory'
    BY Zenon
  <1>0. ManagerTypes
    BY Zenon, TypeParts
  <1>1. CASE Boot \/ BootState \/ Restart
    <2>1. pc' \in {"boot", "bootstrap", "workers"} /\ emitted' = {}
      BY Zenon, <1>1 DEF Boot, BootState, Restart, book, Memory
    <2> QED
      BY Zenon, <2>1 DEF Memory, InStep
  <1>2. CASE WaitForWorkers
    <2>1. pc = "workers" /\ emitted' = emitted /\ pc' \in {"emit", "done"} /\ step' = state
            /\ phase' = 1 /\ at' = 1
      BY Zenon, <1>2 DEF WaitForWorkers
    <2>2. \A x \in Places : ~EmittedAt(x)'
      <3> SUFFICES ASSUME NEW x \in Places, pc' = "emit" \/ pc' = "done", EmittedAt(x)' PROVE FALSE
        BY Zenon, <2>1
      <3>1. x[1] \in 1..5 /\ x[2] \in Nat \ {0}
        BY Sizes DEF Places
      <3> QED
        BY <2>1, <3>1 DEF EmittedAt
    <2>3. \A j \in emitted : j.step < state
      BY Zenon, <2>1 DEF Memory
    <2> QED
      BY Zenon, <2>1, <2>2, <2>3 DEF Memory, InStep
  <1>3. CASE EmitAdd
    <2>1. InStep /\ InStep' /\ pc' # "workers" /\ pc' \notin {"boot", "bootstrap"} /\ step' = step
            /\ emitted' = emitted \cup {Current}
      BY Zenon, <1>3 DEF EmitAdd, InStep
    <2>2. ASSUME NEW x \in Places
          PROVE  /\ At(x)' = At(x)
                 /\ EmittedAt(x)' <=> EmittedAt(x) \/ x = <<phase, at>>
      <3>1. x[1] \in 1..5 /\ x[2] \in 1..Size[x[1]] /\ x = <<x[1], x[2]>>
              /\ Size[x[1]] \in Nat
        BY Sizes DEF Places
      <3>2. phase \in 1..5 /\ at \in 1..Size[phase] /\ Size[phase] \in Nat
        BY Zenon, <1>0, Sizes DEF ManagerTypes
      <3>3. CASE at < Size[phase]
        <4>1. pc = "add" /\ pc' = "emit" /\ at' = at + 1 /\ phase' = phase
          BY Zenon, <1>3, <3>3 DEF EmitAdd
        <4> QED
          BY <2>1, <3>1, <3>2, <4>1 DEF EmittedAt, At
      <3>4. CASE at = Size[phase]
        <4>1. pc = "add" /\ pc' = "wait" /\ at' = 1 /\ phase' = phase
          BY <1>3, <3>2, <3>4 DEF EmitAdd
        <4> QED
          BY <2>1, <3>1, <3>2, <3>4, <4>1 DEF EmittedAt, At
      <3> QED
        BY <3>2, <3>3, <3>4
    <2>3. <<phase, at>> \in Places /\ At(<<phase, at>>) = Current
      BY Zenon, <1>0, <2>1, PlaceNow
    <2>4. \A x \in Places : EmittedAt(x)' => At(x)' \in emitted'
      BY Zenon, <2>1, <2>2, <2>3 DEF Memory
    <2>5. ASSUME NEW j \in emitted'
          PROVE  j.step < step' \/ \E x \in Places : EmittedAt(x)' /\ j = At(x)'
      <3>1. CASE j = Current
        BY Zenon, <2>2, <2>3, <3>1
      <3>2. CASE j \in emitted
        BY Zenon, <2>1, <2>2, <3>2 DEF Memory
      <3> QED
        BY Zenon, <2>1, <3>1, <3>2
    <2> QED
      BY Zenon, <2>1, <2>4, <2>5 DEF Memory
  <1>4. CASE EmitManifest \/ WaitOutputs
    <2>1. InStep /\ InStep' /\ pc' # "workers" /\ pc' \notin {"boot", "bootstrap"} /\ step' = step
            /\ emitted' = emitted
      BY Zenon, <1>4 DEF EmitManifest, WaitOutputs, Advance, InStep
    <2>2. ASSUME NEW x \in Places PROVE At(x)' = At(x) /\ (EmittedAt(x)' <=> EmittedAt(x))
      <3>1. x[1] \in 1..5 /\ x[2] \in Nat \ {0}
        BY Sizes DEF Places
      <3>2. phase \in 1..5
        BY Zenon, <1>0 DEF ManagerTypes
      <3> QED
        BY <1>4, <2>1, <3>1, <3>2 DEF EmitManifest, WaitOutputs, Advance, EmittedAt, At
    <2> QED
      BY Zenon, <2>1, <2>2 DEF Memory
  <1>5. CASE SaveState
    <2>1. InStep /\ pc' = "workers" /\ emitted' = emitted /\ state' = step + 1
      BY Zenon, <1>5 DEF SaveState, InStep, book
    <2>2. ASSUME NEW j \in emitted PROVE j.step < step + 1
      <3>1. j.step < step \/ \E x \in Places : j = At(x)
        BY Zenon, <2>1 DEF Memory
      <3>2. ASSUME NEW x \in Places, j = At(x) PROVE j.step = step
        BY Zenon, <1>0, <2>1, <3>2, PlaceType DEF HasPlace
      <3>3. j.step \in Nat /\ step \in Nat
        BY <1>0, JobFields DEF ManagerTypes
      <3> QED
        BY <3>1, <3>2, <3>3
    <2> QED
      BY Zenon, <2>1, <2>2 DEF Memory, InStep
  <1>6. CASE NoRoom \/ TimesOut \/ Kill
    <2>1. pc' = "down"
      BY Zenon, <1>6 DEF NoRoom, TimesOut, Kill
    <2> QED
      BY Zenon, <2>1 DEF Memory, InStep
  <1>7. CASE Publish \/ Aside
    <2>1. UNCHANGED <<pc, step, phase, at, emitted, state>>
      BY Zenon, <1>7, AsideKeeps DEF Publish, place, book
    <2> QED
      BY Zenon, <2>1 DEF Memory, InStep, EmittedAt, At
  <1> QED
    BY Zenon, <1>1, <1>2, <1>3, <1>4, <1>5, <1>6, <1>7, StepCases

-----------------------------------------------------------------------------
(* What is emitted can be run.                                             *)

\* The outputs behind a place that run_step has waited for.
LEMMA OutputsBehind ==
  ASSUME Behind, InStep, NEW p \in 1..5, NEW i \in 1..Size[p], p < phase
  PROVE  Outputs(JobAt(step, p, i), manifest[JobAt(step, p, i)].hk) \subseteq Uris
  <1> DEFINE x == <<p, i>>
  <1>1. x \in Places /\ WaitedAt(x) /\ At(x) = JobAt(step, p, i)
    BY Sizes DEF Places, WaitedAt, At
  <1> QED
    BY Zenon, <1>1 DEF Behind

\* The inputs that emit_job names are in the bucket.
LEMMA InputsThere ==
  ASSUME TypeOK, Position, Memory, Behind, Stored, InStep, NEW ref \in Inputs(Current)
  PROVE  ref.uri \in Uris
  <1>0. ManagerTypes
    BY Zenon, TypeParts
  <1> DEFINE j == Current
  <1>1. /\ j \in Job /\ step \in 0..(MaxSteps - 1) /\ step = state
        /\ phase \in 1..5 /\ at \in 1..Size[phase] /\ HasPlace(j, step, phase, at)
    BY Zenon, <1>0, CurrentType, JobAtFields DEF Current
  <1>2. j.step = step /\ j.ub \in Ubs /\ j.kind = Kind[phase]
    BY Zenon, <1>1 DEF HasPlace
  <1> HIDE DEF j
  <1>3. \A s \in 0..MaxSteps, ub \in Ubs : WeightRef(s, ub).uri = Weights(s, ub)
    BY Zenon, WeightRefType
  <1>4. \A ub \in Ubs : Weights(step, ub) \in Uris
    BY <1>1 DEF Stored
  <1>5. step \in 0..MaxSteps /\ step + 1 \in 0..MaxSteps
    BY <1>1, Sizes
  <1>6. ref \in Inputs(j)
    BY Zenon DEF j
  <1>7. CASE phase = 1
    <2>1. PICK ub \in Ubs : ref = WeightRef(step, ub)
      BY Zenon, <1>2, <1>6, <1>7, InputsOf, Kinds
    <2> QED
      BY Zenon, <1>3, <1>4, <1>5, <2>1
  <1>8. CASE phase = 2
    <2>1. ref = WeightRef(step, j.ub) \/ ref.uri = Uri("target", step, j.ub, 0, 0)
      BY <1>2, <1>6, <1>8, InputsOf, Kinds
    <2>2. Uri("target", step, j.ub, 0, 0) \in Uris
      <3>1. 1 \in 1..Size[1] /\ 1 \in 1..5 /\ 1 < phase
        BY <1>8, Sizes
      <3>2. PICK k : k = JobAt(step, 1, 1)
        BY Zenon
      <3>3. k.kind = "forward_pass" /\ k.step = step
        BY Zenon, <3>1, <3>2, JobAtFields, Kinds DEF HasPlace
      <3>4. Outputs(k, manifest[k].hk) \subseteq Uris
        BY Zenon, <3>1, <3>2, OutputsBehind
      <3>5. Outputs(k, manifest[k].hk) = {Uri("target", step, ub, 0, 0) : ub \in Ubs}
        BY <3>3, OutputsOf
      <3> QED
        BY Zenon, <1>2, <3>4, <3>5
    <2> QED
      BY Zenon, <1>2, <1>3, <1>4, <1>5, <2>1, <2>2
  <1>9. CASE phase = 3
    <2>1. PICK i \in Deltas(j) : ref.uri = Uri("delta", i.step, i.ub, i.r, manifest[i].hk)
      BY <1>2, <1>6, <1>9, InputsOf, Kinds
    <2>2. i \in emitted /\ i.kind = "inner_step" /\ i.step = step
      BY Zenon, <1>2, <2>1 DEF Deltas
    <2>3. PICK x \in Places : i = At(x)
      BY <1>1, <2>2 DEF Memory
    <2>4. x[1] \in 1..5 /\ x[2] \in 1..Size[x[1]] /\ i.kind = Kind[x[1]]
      BY Zenon, <1>0, <2>3, PlaceType DEF HasPlace
    <2>5. x[1] = 2
      <3>1. x[1] = 1 \/ x[1] = 2 \/ x[1] = 3 \/ x[1] = 4 \/ x[1] = 5
        BY <2>4
      <3> QED
        BY Zenon, <2>2, <2>4, <3>1, Kinds
    <2>6. WaitedAt(x)
      BY <1>9, <2>5 DEF WaitedAt
    <2>7. Outputs(i, manifest[i].hk) \subseteq Uris
      BY Zenon, <2>3, <2>6 DEF Behind
    <2> QED
      BY <2>1, <2>2, <2>7, OutputsOf
  <1>10. CASE phase = 4
    <2>1. ref = WeightRef(step, j.ub)
            \/ ref.uri = Uri("reduced", step, j.ub, 0, manifest[JobAt(step, 3, j.ub + 1)].hk)
      BY <1>2, <1>6, <1>10, InputsOf, Kinds
    <2>2. Uri("reduced", step, j.ub, 0, manifest[JobAt(step, 3, j.ub + 1)].hk) \in Uris
      <3>1. PICK n \in 1..Size[3] : n = j.ub + 1 /\ n - 1 = j.ub
        BY <1>2, Sizes DEF Ubs
      <3>2. PICK k : k = JobAt(step, 3, n)
        BY Zenon
      <3>3. 3 \in 1..5 /\ 3 < phase
        BY <1>10
      <3>4. HasPlace(k, step, 3, n)
        BY Zenon, <3>2, <3>3, JobAtFields
      <3>5. k.kind = "reduce" /\ k.step = step /\ k.ub = j.ub
        BY Zenon, <3>1, <3>4, Kinds DEF HasPlace
      <3>6. Outputs(k, manifest[k].hk) \subseteq Uris
        BY Zenon, <3>2, <3>3, OutputsBehind
      <3> QED
        BY <3>1, <3>2, <3>5, <3>6, OutputsOf
    <2> QED
      BY Zenon, <1>2, <1>3, <1>4, <1>5, <2>1, <2>2
  <1>11. CASE phase = 5
    <2>1. PICK ub \in Ubs : ref = WeightRef(step + 1, ub)
      BY <1>2, <1>6, <1>11, InputsOf, Kinds
    <2> QED
      BY Zenon, <1>0, <1>3, <1>5, <1>11, <2>1, NextWeights
  <1> QED
    BY <1>1, <1>7, <1>8, <1>9, <1>10, <1>11

\* The new manifest, and those that stay.
LEMMA ManifestWritten ==
  ASSUME ManagerTypes, Position, EmitManifest
  PROVE  /\ manifest'[Current].hk \in Hotkeys /\ manifest'[Current].ins = Inputs(Current)
         /\ \A j \in Job : j # Current => manifest'[j] = manifest[j]
  <1>1. Current \in Job /\ PickWorker(Pickable, inflight) \in Hotkeys
    BY Zenon, CurrentType, PickType DEF EmitManifest, InStep
  <1> QED
    BY Zenon, <1>1 DEF EmitManifest, ManagerTypes

\* What the process emitted stays runnable.
LEMMA RunnableStep ==
  TypeOK /\ Position /\ Memory /\ Behind /\ Stored /\ EmittedIsRunnable /\ [Next]_vars
    => EmittedIsRunnable'
  <1> SUFFICES ASSUME TypeOK, Position, Memory, Behind, Stored, EmittedIsRunnable, [Next]_vars
               PROVE  EmittedIsRunnable'
    BY Zenon
  <1>0. ManagerTypes /\ Uris \subseteq Uris'
    BY Zenon, TypeParts, UrisGrow
  <1>1. CASE EmitManifest
    <2>1. emitted' = emitted /\ InStep
      BY Zenon, <1>1 DEF EmitManifest, InStep
    <2>2. ASSUME NEW j \in emitted, NEW ref \in manifest'[j].ins PROVE ref.uri \in Uris'
      <3>1. j \in Job
        BY Zenon, <1>0 DEF ManagerTypes
      <3>2. CASE j = Current
        BY Zenon, <1>0, <1>1, <2>1, <2>2, <3>2, ManifestWritten, InputsThere
      <3>3. CASE j # Current
        BY Zenon, <1>0, <1>1, <2>2, <3>1, <3>3, ManifestWritten DEF EmittedIsRunnable
      <3> QED
        BY Zenon, <3>2, <3>3
    <2> QED
      BY Zenon, <2>1, <2>2 DEF EmittedIsRunnable
  <1>2. CASE EmitAdd
    <2>1. emitted' = emitted \cup {Current} /\ manifest' = manifest /\ pc = "add"
      BY Zenon, <1>2 DEF EmitAdd
    <2> QED
      BY Zenon, <1>0, <2>1 DEF EmittedIsRunnable, Behind
  <1>3. CASE ~EmitManifest /\ ~EmitAdd
    <2>1. emitted' \subseteq emitted /\ manifest' = manifest
      BY Zenon, <1>3, StepCases, AsideKeeps
         DEF Boot, BootState, WaitForWorkers, NoRoom, WaitOutputs, SaveState, Restart, Publish,
             TimesOut, Kill, book
    <2> QED
      BY Zenon, <1>0, <2>1 DEF EmittedIsRunnable
  <1> QED
    BY Zenon, <1>1, <1>2, <1>3

-----------------------------------------------------------------------------
(* What run_step leaves behind.                                            *)

\* What is behind the present place stays there and out of the queue.
LEMMA BehindStep ==
  TypeOK /\ Position /\ Memory /\ Behind /\ Stored /\ [Next]_vars => Behind'
  <1> SUFFICES ASSUME TypeOK, Position, Memory, Behind, Stored, [Next]_vars PROVE Behind'
    BY Zenon
  <1>0. ManagerTypes /\ Uris \subseteq Uris'
    BY Zenon, TypeParts, UrisGrow
  <1>1. CASE Boot \/ BootState \/ SaveState \/ NoRoom \/ TimesOut \/ Kill \/ Restart
    <2>1. pc' \in {"boot", "bootstrap", "workers", "down"}
      BY ZenonT(40), <1>1 DEF Boot, BootState, SaveState, NoRoom, TimesOut, Kill, Restart
    <2> QED
      BY ZenonT(40), <2>1 DEF Behind, InStep
  <1>2. CASE WaitForWorkers
    <2>1. pc' \in {"emit", "done"} /\ phase' = 1 /\ at' = 1
      BY Zenon, <1>2 DEF WaitForWorkers
    <2>2. ASSUME NEW x \in Places PROVE ~WaitedAt(x)'
      <3>1. x[1] \in 1..5
        BY Zenon DEF Places
      <3> QED
        BY <2>1, <3>1 DEF WaitedAt
    <2> QED
      BY Zenon, <2>1, <2>2 DEF Behind
  <1>3. CASE EmitManifest
    <2>1. InStep /\ pc = "emit" /\ pc' = "add" /\ UNCHANGED <<step, phase, at, queue>>
      BY Zenon, <1>3 DEF EmitManifest, InStep
    <2>2. Current' = Current
      BY Zenon, <2>1 DEF Current
    <2>3. ASSUME NEW x \in Places, WaitedAt(x)'
          PROVE  /\ Outputs(At(x)', manifest'[At(x)'].hk) \subseteq Uris'
                 /\ \A y \in queue' : y.job # At(x)'
      <3>1. At(x)' = At(x) /\ WaitedAt(x) /\ x[1] < phase
        BY Zenon, <2>1, <2>3 DEF At, WaitedAt
      <3>2. At(x) \in Job /\ At(x) # Current
        <4>1. x[1] # phase
          BY <1>0, <2>1, <3>1, PlaceType DEF ManagerTypes
        <4> QED
          BY Zenon, <1>0, <2>1, <4>1, PlaceType, PlaceOnce
      <3>3. manifest'[At(x)] = manifest[At(x)]
        BY Zenon, <1>0, <1>3, <3>2, ManifestWritten
      <3>4. /\ Outputs(At(x), manifest[At(x)].hk) \subseteq Uris
            /\ \A y \in queue : y.job # At(x)
        BY Zenon, <2>1, <3>1 DEF Behind
      <3> QED
        BY Zenon, <1>0, <2>1, <3>1, <3>3, <3>4
    <2>4. manifest'[Current].hk # 0 /\ \A ref \in manifest'[Current].ins : ref.uri \in Uris'
      BY Zenon, <1>0, <1>3, <2>1, ManifestWritten, InputsThere, RoundAssumption
    <2> QED
      BY Zenon, <2>2, <2>3, <2>4 DEF Behind
  <1>4. CASE EmitAdd
    <2>1. InStep /\ pc = "add" /\ pc' # "add" /\ UNCHANGED <<step, phase, manifest>>
            /\ queue' = Remove(queue, Current) \cup {[job |-> Current, hk |-> manifest[Current].hk]}
      BY Zenon, <1>4 DEF EmitAdd, InStep
    <2>2. ASSUME NEW x \in Places, WaitedAt(x)'
          PROVE  /\ Outputs(At(x)', manifest'[At(x)'].hk) \subseteq Uris'
                 /\ \A y \in queue' : y.job # At(x)'
      <3>1. x[1] \in 1..5 /\ x[2] \in Nat \ {0}
        BY Sizes DEF Places
      <3>2. x[1] < phase
        BY <1>4, <2>2, <3>1 DEF EmitAdd, WaitedAt
      <3>3. At(x)' = At(x) /\ WaitedAt(x)
        BY Zenon, <2>1, <3>2 DEF At, WaitedAt
      <3>4. At(x) # Current
        <4>1. x[1] # phase
          BY <1>0, <3>1, <3>2 DEF ManagerTypes
        <4> QED
          BY Zenon, <1>0, <2>1, <4>1, PlaceOnce
      <3>5. /\ Outputs(At(x), manifest[At(x)].hk) \subseteq Uris
            /\ \A y \in queue : y.job # At(x)
        BY ZenonT(40), <2>1, <3>3 DEF Behind
      <3>6. ASSUME NEW y \in queue' PROVE y.job # At(x)
        <4> DEFINE new == [job |-> Current, hk |-> manifest[Current].hk]
        <4>1. y \in queue \/ y = new
          BY Zenon, <2>1 DEF Remove
        <4>2. new.job = Current
          BY Zenon
        <4> QED
          BY Zenon, <3>4, <3>5, <4>1, <4>2
      <3> QED
        BY Zenon, <1>0, <2>1, <3>3, <3>5, <3>6
    <2> QED
      BY Zenon, <2>1, <2>2 DEF Behind
  <1>5. CASE WaitOutputs
    <2>1. InStep /\ pc = "wait" /\ pc' # "add" /\ UNCHANGED <<step, manifest>>
            /\ queue' = Remove(queue, Current)
            /\ Outputs(Current, manifest[Current].hk) \subseteq Uris
      BY Zenon, <1>5 DEF WaitOutputs, InStep, LetGo, Advance
    <2>2. ASSUME NEW x \in Places, WaitedAt(x)'
          PROVE  /\ Outputs(At(x)', manifest'[At(x)'].hk) \subseteq Uris'
                 /\ \A y \in queue' : y.job # At(x)'
      <3>1. x[1] \in 1..5 /\ x[2] \in 1..Size[x[1]] /\ x = <<x[1], x[2]>> /\ Size[x[1]] \in Nat
        BY Sizes DEF Places
      <3>2. phase \in 1..5 /\ at \in 1..Size[phase] /\ Size[phase] \in Nat
        BY Zenon, <1>0, Sizes DEF ManagerTypes
      <3>3. WaitedAt(x) \/ x = <<phase, at>>
        <4>1. CASE at < Size[phase]
          <5>1. at' = at + 1 /\ pc' = pc /\ phase' = phase
            BY Zenon, <1>5, <4>1 DEF WaitOutputs, Advance
          <5> QED
            BY <2>1, <2>2, <3>1, <3>2, <5>1 DEF WaitedAt
        <4>2. CASE at = Size[phase]
          <5>1. at' = 1 /\ ((pc' = "emit" /\ phase' = phase + 1) \/ (pc' = "save" /\ phase' = phase))
            BY <1>5, <3>2, <4>2 DEF WaitOutputs, Advance
          <5> QED
            BY <2>1, <2>2, <3>1, <3>2, <4>2, <5>1 DEF WaitedAt
        <4> QED
          BY <3>2, <4>1, <4>2
      <3>4. At(x)' = At(x)
        BY Zenon, <2>1 DEF At
      <3>5. CASE WaitedAt(x)
        BY Zenon, <1>0, <2>1, <3>4, <3>5 DEF Behind, Remove
      <3>6. CASE x = <<phase, at>>
        <4>1. At(x) = Current
          BY Zenon, <1>0, <2>1, <3>6, PlaceNow
        <4> QED
          BY Zenon, <1>0, <2>1, <3>4, <4>1 DEF Remove
      <3> QED
        BY Zenon, <3>3, <3>5, <3>6
    <2> QED
      BY Zenon, <2>1, <2>2 DEF Behind
  <1>6. CASE Publish \/ Aside
    <2>1. UNCHANGED <<pc, step, phase, at, queue, manifest>>
      BY Zenon, <1>6, AsideKeeps DEF Publish, place, book
    <2> QED
      BY Zenon, <1>0, <2>1 DEF Behind, InStep, WaitedAt, At, Current
  <1> QED
    BY Zenon, <1>1, <1>2, <1>3, <1>4, <1>5, <1>6, StepCases

-----------------------------------------------------------------------------
(* The reservations.                                                       *)

\* The places I of a phase and one more: the job of that one is new.
OneMoreSlot(s, p, i, I) ==
    /\ IsFiniteSet(Slots(s, p, I)) /\ Slots(s, p, I) \subseteq Job
    /\ JobAt(s, p, i) \notin Slots(s, p, I)
    /\ Slots(s, p, I \cup {i}) = Slots(s, p, I) \cup {JobAt(s, p, i)}

\* Places of a phase have different jobs.
LEMMA SlotsChange ==
  ASSUME NEW s \in 0..(MaxSteps - 1), NEW p \in 1..5, NEW i \in 1..Size[p],
         NEW I \in SUBSET (1..Size[p]), i \notin I
  PROVE  OneMoreSlot(s, p, i, I)
  <1>1. IsFiniteSet(I)
    <2>1. IsFiniteSet(1..Size[p])
      <3>1. 1 \in Int /\ Size[p] \in Int
        BY Sizes
      <3> QED
        BY Zenon, <3>1, FS_Interval
    <2> QED
      BY Zenon, <2>1, FS_Subset
  <1>2. IsFiniteSet(Slots(s, p, I))
    <2> DEFINE f == [k \in I |-> JobAt(s, p, k)]
    <2>1. f \in Surjection(I, Slots(s, p, I))
      BY Zenon DEF Surjection, Slots
    <2> HIDE DEF f
    <2> QED
      BY Zenon, <1>1, <2>1, FS_Surjection
  <1>3. Slots(s, p, I) \subseteq Job
    BY Zenon, JobAtType DEF Slots
  <1>4. ASSUME JobAt(s, p, i) \in Slots(s, p, I) PROVE FALSE
    <2>1. PICK k \in I : JobAt(s, p, i) = JobAt(s, p, k)
      BY Zenon, <1>4 DEF Slots
    <2>2. k \in 1..Size[p] /\ HasPlace(JobAt(s, p, i), s, p, i) /\ HasPlace(JobAt(s, p, i), s, p, k)
      BY Zenon, <2>1, JobAtFields
    <2>3. i = k
      BY Zenon, <2>2, JobAtOnce
    <2> QED
      BY Zenon, <2>1, <2>3
  <1>5. Slots(s, p, I \cup {i}) = Slots(s, p, I) \cup {JobAt(s, p, i)}
    BY Zenon DEF Slots
  <1> QED
    BY Zenon, <1>2, <1>3, <1>4, <1>5 DEF OneMoreSlot

\* No places, no reservations.
LEMMA NoSlots ==
  ASSUME NEW m, NEW s, NEW p
  PROVE  Held(m, Slots(s, p, {})) = Idle
  <1>1. Slots(s, p, {}) = {}
    BY Zenon DEF Slots
  <1> QED
    BY Zenon, <1>1, HeldNone DEF Idle

\* One job holds one unit of its miner.
LEMMA HeldByOne ==
  ASSUME NEW m, NEW j
  PROVE  Held(m, {j}) = One(m[j])
  <1>1. ASSUME NEW hk \in Hotkeys
        PROVE  Cardinality({k \in {j} : m[k] = hk}) = IF hk = m[j] THEN 1 ELSE 0
    <2>1. CASE hk = m[j]
      <3>1. {k \in {j} : m[k] = hk} = {j}
        BY Zenon, <2>1
      <3> QED
        BY Zenon, <2>1, <3>1, FS_Singleton
    <2>2. CASE hk # m[j]
      <3>1. {k \in {j} : m[k] = hk} = {}
        BY Zenon, <2>2
      <3> QED
        BY Zenon, <2>2, <3>1, FS_EmptySet
    <2> QED
      BY Zenon, <2>1, <2>2
  <1> QED
    BY Zenon, <1>1 DEF Held, One

\* Every step keeps the reservations exact.
LEMMA ReservedStep == TypeOK /\ Position /\ Reserved /\ [Next]_vars => Reserved'
  <1> SUFFICES ASSUME TypeOK, Position, Reserved, [Next]_vars PROVE Reserved'
    BY Zenon
  <1>0. ManagerTypes
    BY Zenon, TypeParts
  <1>1. CASE Boot \/ BootState \/ SaveState \/ Restart
    <2>1. pc' \in {"boot", "bootstrap", "workers"} /\ inflight' = Idle
      BY Zenon, <1>1 DEF Boot, BootState, SaveState, Restart, book, Reserved
    <2> QED
      BY Zenon, <2>1 DEF Reserved
  <1>2. CASE WaitForWorkers
    <2>1. pc' \in {"done", "emit"} /\ inflight' = Idle /\ at' = 1
      BY Zenon, <1>2 DEF WaitForWorkers, Reserved
    <2>2. 1..(1 - 1) = {}
      OBVIOUS
    <2>3. inflight' = Held(HkOf(manifest'), Slots(step', phase', 1..(at' - 1)))
      BY Zenon, <2>1, <2>2, NoSlots
    <2> QED
      BY Zenon, <2>1, <2>3 DEF Reserved
  <1>3. CASE EmitManifest
    <2> DEFINE S == Slots(step, phase, 1..(at - 1))  hk == PickWorker(Pickable, inflight)
               m == HkOf(manifest)
    <2>1. InStep /\ pc = "emit" /\ pc' = "add" /\ UNCHANGED <<step, phase, at>>
            /\ inflight' = Reserve(inflight, hk)
            /\ manifest' = [manifest EXCEPT ![Current] = [hk |-> hk, ins |-> Inputs(Current)]]
      BY Zenon, <1>3 DEF EmitManifest, InStep
    <2>2. step \in 0..(MaxSteps - 1) /\ phase \in 1..5 /\ at \in 1..Size[phase] /\ Size[phase] \in Nat
      BY Zenon, <1>0, <2>1, CurrentType, Sizes
    <2>3. 1..(at - 1) \in SUBSET (1..Size[phase]) /\ at \notin 1..(at - 1) /\ 1..at = (1..(at - 1)) \cup {at}
      BY <2>2
    <2>4. IsFiniteSet(S) /\ S \subseteq Job /\ Current \notin S
            /\ Slots(step, phase, 1..at) = S \cup {Current}
      <3>1. PICK I \in SUBSET (1..Size[phase]) : I = 1..(at - 1)
        BY Zenon, <2>3
      <3>2. at \notin I /\ 1..at = I \cup {at}
        BY Zenon, <2>3, <3>1
      <3>3. OneMoreSlot(step, phase, at, I)
        BY Zenon, <2>2, <3>2, SlotsChange
      <3> QED
        BY Zenon, <3>1, <3>2, <3>3 DEF Current, OneMoreSlot
    <2>5. hk \in Hotkeys /\ Current \in Job
      BY Zenon, <1>0, <1>3, <2>1, PickType, CurrentType DEF EmitManifest
    <2>6. PICK n : n = HkOf(manifest')
      BY Zenon
    <2>7. n[Current] = hk /\ \A k \in S : n[k] = m[k]
      BY ZenonT(40), <1>0, <2>1, <2>4, <2>5, <2>6 DEF HkOf, ManagerTypes
    <2>8. inflight = Held(m, S)
      BY Zenon, <2>1 DEF Reserved
    <2> HIDE DEF S, hk, m
    <2>9. Held(n, S \cup {Current}) = Reserve(Held(m, S), hk)
      <3>1. PICK j : j = Current
        BY Zenon
      <3>2. IsFiniteSet(S) /\ j \notin S /\ hk \in Hotkeys /\ n[j] = hk /\ \A k \in S : n[k] = m[k]
        BY Zenon, <2>4, <2>5, <2>7, <3>1
      <3>3. Held(n, S \cup {j}) = Reserve(Held(m, S), hk)
        BY <3>2, ReserveOne
      <3> QED
        BY Zenon, <3>1, <3>3
    <2>10. inflight' = Held(HkOf(manifest'), Slots(step', phase', 1..at'))
      BY Zenon, <2>1, <2>4, <2>6, <2>8, <2>9
    <2> QED
      BY Zenon, <2>1, <2>10 DEF Reserved
  <1>4. CASE EmitAdd
    <2>1. pc = "add" /\ UNCHANGED <<step, phase, inflight, manifest>>
      BY Zenon, <1>4 DEF EmitAdd
    <2>2. inflight = Held(HkOf(manifest), Slots(step, phase, 1..at))
      BY Zenon, <2>1 DEF Reserved
    <2>3. at \in 1..Size[phase] /\ Size[phase] \in Nat
      BY Zenon, <1>0, Sizes DEF ManagerTypes
    <2>4. CASE at < Size[phase]
      <3>1. pc' = "emit" /\ at' - 1 = at
        BY <1>4, <2>3, <2>4 DEF EmitAdd
      <3> QED
        BY Zenon, <2>1, <2>2, <3>1 DEF Reserved
    <2>5. CASE at = Size[phase]
      <3>1. pc' = "wait" /\ at' = 1
        BY <1>4, <2>3, <2>5 DEF EmitAdd
      <3> QED
        BY Zenon, <2>1, <2>2, <2>5, <3>1 DEF Reserved
    <2> QED
      BY <2>3, <2>4, <2>5
  <1>5. CASE WaitOutputs
    <2> DEFINE I == (at + 1)..Size[phase]  T == Slots(step, phase, I)  m == HkOf(manifest)
               S == T \cup {Current}
    <2>1. InStep /\ pc = "wait" /\ UNCHANGED <<step, manifest>>
            /\ inflight' = Release(inflight, One(manifest[Current].hk))
      BY Zenon, <1>5 DEF WaitOutputs, LetGo, InStep
    <2>2. step \in 0..(MaxSteps - 1) /\ phase \in 1..5 /\ at \in 1..Size[phase] /\ Size[phase] \in Nat
            /\ Current \in Job
      BY Zenon, <1>0, <2>1, CurrentType, Sizes
    <2>3. I \in SUBSET (1..Size[phase]) /\ at \notin I /\ at..Size[phase] = I \cup {at}
      BY <2>2
    <2>4. IsFiniteSet(T) /\ Current \notin T /\ Slots(step, phase, at..Size[phase]) = S
      <3> HIDE DEF I
      <3>1. OneMoreSlot(step, phase, at, I)
        BY Zenon, <2>2, <2>3, SlotsChange
      <3> QED
        BY Zenon, <2>3, <3>1 DEF Current, OneMoreSlot
    <2>5. inflight = Held(m, S)
      BY Zenon, <2>1, <2>4 DEF Reserved
    <2>6. m[Current] = manifest[Current].hk
      BY Zenon, <2>2 DEF HkOf
    <2>7. inflight' = Held(m, T)
      <3>1. IsFiniteSet(S) /\ {Current} \in SUBSET S /\ S \ {Current} = T
        BY Zenon, <2>4, FS_AddElement
      <3> HIDE DEF S, T, m
      <3>2. Release(Held(m, S), Held(m, {Current})) = Held(m, S \ {Current})
        BY Zenon, <3>1, ReleaseHeld
      <3>3. Held(m, {Current}) = One(manifest[Current].hk)
        BY Zenon, <2>6, HeldByOne
      <3> QED
        BY Zenon, <2>1, <2>5, <3>1, <3>2, <3>3
    <2>8. CASE at < Size[phase]
      <3>1. at' = at + 1 /\ pc' = "wait" /\ phase' = phase
        BY Zenon, <1>5, <2>1, <2>8 DEF WaitOutputs, Advance
      <3> QED
        BY Zenon, <2>1, <2>7, <3>1 DEF Reserved
    <2>9. CASE at = Size[phase]
      <3>1. at' = 1 /\ pc' \in {"emit", "save"}
        BY <1>5, <2>2, <2>9 DEF WaitOutputs, Advance
      <3>2. I = {} /\ 1..(1 - 1) = {}
        BY <2>2, <2>9
      <3>3. inflight' = Idle
        BY Zenon, <2>7, <3>2, NoSlots
      <3>4. inflight' = Held(HkOf(manifest'), Slots(step', phase', 1..(at' - 1)))
        BY Zenon, <3>1, <3>2, <3>3, NoSlots
      <3> QED
        BY Zenon, <3>1, <3>3, <3>4 DEF Reserved
    <2> QED
      BY <2>2, <2>8, <2>9
  <1>6. CASE NoRoom \/ TimesOut \/ Kill
    <2>1. pc' = "down"
      BY Zenon, <1>6 DEF NoRoom, TimesOut, Kill
    <2> QED
      BY Zenon, <2>1 DEF Reserved
  <1>7. CASE Publish \/ Aside
    <2>1. UNCHANGED <<pc, step, phase, at, inflight, manifest>>
      BY Zenon, <1>7, AsideKeeps DEF Publish, place, book
    <2> QED
      BY Zenon, <2>1 DEF Reserved
  <1> QED
    BY Zenon, <1>1, <1>2, <1>3, <1>4, <1>5, <1>6, <1>7, StepCases

-----------------------------------------------------------------------------
(* A reduce reads every replica.                                           *)

\* The inner job of a replica, and what a reduce reads of it.
InnerJob(s, ub, r) == [kind |-> "inner_step", step |-> s, ub |-> ub, r |-> r]
DeltaRef(i) ==
    [uri |-> Uri("delta", i.step, i.ub, i.r, manifest[i].hk), need |-> OutputNeed(manifest[i].hk)]

\* A place of the inner phase has the inner job that its fields say.
LEMMA InnerJobAt ==
  ASSUME NEW s, NEW n \in 1..Size[2]
  PROVE  JobAt(s, 2, n) = InnerJob(s, JobAt(s, 2, n).ub, JobAt(s, 2, n).r)
  BY Zenon, Kinds DEF JobAt, InnerJob

\* The inner jobs that this process emitted for a microbatch are those of all
\* its replicas, once the phase is over.
LEMMA DeltasComplete ==
  ASSUME ManagerTypes, Position, Memory, InStep, phase = 3, NEW j, j.step = step, j.ub \in Ubs
  PROVE  Deltas(j) = {InnerJob(step, j.ub, r) : r \in 0..(Replicas - 1)}
  <1>1. ASSUME NEW i \in Deltas(j)
        PROVE  \E r \in 0..(Replicas - 1) : i = InnerJob(step, j.ub, r)
    <2>1. i \in emitted /\ i.kind = "inner_step" /\ i.step = step /\ i.ub = j.ub /\ i \in Job
      BY Zenon DEF Deltas, ManagerTypes
    <2>2. step \in Nat
      BY DEF ManagerTypes
    <2>3. PICK x \in Places : i = At(x)
      BY <2>1, <2>2 DEF Memory
    <2>4. x[1] \in 1..5 /\ x[2] \in 1..Size[x[1]] /\ i.kind = Kind[x[1]] /\ i.r \in 0..(Replicas - 1)
      BY Zenon, <2>3, PlaceType DEF HasPlace
    <2>5. x[1] = 2
      <3>1. 2 \in 1..5 /\ Kind[x[1]] = Kind[2]
        BY <2>1, <2>4, Kinds
      <3> QED
        BY Zenon, <2>4, <3>1, PhaseOnce
    <2>6. PICK n \in 1..Size[2] : i = JobAt(step, 2, n)
      BY Zenon, <2>3, <2>4, <2>5 DEF At
    <2>7. i = InnerJob(step, i.ub, i.r)
      BY Zenon, <2>6, InnerJobAt
    <2> QED
      BY Zenon, <2>1, <2>4, <2>7
  <1>2. ASSUME NEW r \in 0..(Replicas - 1)
        PROVE  InnerJob(step, j.ub, r) \in Deltas(j)
    <2>1. PICK n \in 1..Size[2] : (n - 1) \div Replicas = j.ub /\ (n - 1) % Replicas = r
      BY Zenon, InnerAt, Sizes
    <2> DEFINE i == JobAt(step, 2, n)  x == <<2, n>>
    <2>2. HasPlace(i, step, 2, n)
      BY JobAtFields
    <2>3. i.ub = j.ub /\ i.r = r /\ i.step = step /\ i.kind = "inner_step"
      BY Zenon, <2>1, <2>2, Kinds DEF HasPlace
    <2>4. i = InnerJob(step, j.ub, r)
      BY Zenon, <2>3, InnerJobAt
    <2>5. x \in Places /\ EmittedAt(x) /\ At(x) = i
      BY Sizes DEF Places, EmittedAt, At
    <2>6. i \in emitted
      BY Zenon, <2>5 DEF Memory
    <2> HIDE DEF i
    <2> QED
      BY Zenon, <2>3, <2>4, <2>6 DEF Deltas
  <1> QED
    BY Zenon, <1>1, <1>2

\* So the references of a reduce are as many as the replicas.
LEMMA ReduceInputs ==
  ASSUME ManagerTypes, Position, Memory, InStep, phase = 3, NEW j,
         j.step = step, j.ub \in Ubs, j.kind = "reduce"
  PROVE  /\ Cardinality(Inputs(j)) = Replicas
         /\ \A i \in InnerJobs(j.step, j.ub) : \E ref \in Inputs(j) :
               /\ ref.uri.name = "delta" /\ ref.uri.step = i.step
               /\ ref.uri.ub = i.ub /\ ref.uri.r = i.r
  <1> DEFINE R == 0..(Replicas - 1)
             f == [r \in R |-> DeltaRef(InnerJob(step, j.ub, r))]
  <1>1. Inputs(j) = {DeltaRef(i) : i \in Deltas(j)}
    BY Zenon, InputsOf DEF DeltaRef
  <1>2. Deltas(j) = {InnerJob(step, j.ub, r) : r \in R}
    BY Zenon, DeltasComplete
  <1>3. \A r \in R : /\ f[r] \in Inputs(j)
                     /\ f[r].uri.name = "delta" /\ f[r].uri.step = step
                     /\ f[r].uri.ub = j.ub /\ f[r].uri.r = r
    BY Zenon, <1>1, <1>2 DEF DeltaRef, InnerJob, Uri
  <1>4. \A ref \in Inputs(j) : \E r \in R : f[r] = ref
    BY Zenon, <1>1, <1>2
  <1>5. f \in [R -> Inputs(j)]
    BY Zenon, <1>3
  <1>6. IsFiniteSet(R) /\ Cardinality(R) = Replicas
    <2>1. 0 \in Int /\ Replicas - 1 \in Int /\ ~(0 > Replicas - 1) /\ (Replicas - 1) - 0 + 1 = Replicas
      BY Sizes
    <2> QED
      BY Zenon, <2>1, FS_Interval
  <1>7. f \in Surjection(R, Inputs(j)) /\ f \in Injection(R, Inputs(j))
    <2> HIDE DEF f, R
    <2> QED
      BY <1>3, <1>4, <1>5 DEF Surjection, Injection, IsInjective
  <1>8. Cardinality(Inputs(j)) = Replicas
    <2> HIDE DEF f, R
    <2> QED
      BY Zenon, <1>6, <1>7, FS_Surjection
  <1>9. ASSUME NEW i \in InnerJobs(j.step, j.ub)
        PROVE  \E ref \in Inputs(j) : /\ ref.uri.name = "delta" /\ ref.uri.step = i.step
                                      /\ ref.uri.ub = i.ub /\ ref.uri.r = i.r
    <2>1. PICK r \in R : i = InnerJob(j.step, j.ub, r)
      BY Zenon DEF InnerJobs, InnerJob
    <2>2. i.step = step /\ i.ub = j.ub /\ i.r = r
      BY Zenon, <2>1 DEF InnerJob
    <2> HIDE DEF f, R
    <2> QED
      BY Zenon, <1>3, <2>1, <2>2
  <1> QED
    BY Zenon, <1>8, <1>9

\* A manifest of a reduce is only ever written whole.
LEMMA ReduceStep ==
  TypeOK /\ Position /\ Memory /\ ReduceReadsEveryReplica /\ [Next]_vars
    => ReduceReadsEveryReplica'
  <1> SUFFICES ASSUME TypeOK, Position, Memory, ReduceReadsEveryReplica, [Next]_vars
               PROVE  ReduceReadsEveryReplica'
    BY Zenon
  <1>0. ManagerTypes
    BY Zenon, TypeParts
  <1>1. CASE EmitManifest
    <2>1. InStep
      BY Zenon, <1>1 DEF EmitManifest, InStep
    <2>2. ASSUME NEW j \in Job, j.kind = "reduce", manifest'[j].hk # 0
          PROVE  /\ Cardinality(manifest'[j].ins) = Replicas
                 /\ \A i \in InnerJobs(j.step, j.ub) : \E ref \in manifest'[j].ins :
                       /\ ref.uri.name = "delta" /\ ref.uri.step = i.step
                       /\ ref.uri.ub = i.ub /\ ref.uri.r = i.r
      <3>1. CASE j # Current
        <4>1. manifest'[j] = manifest[j]
          BY Zenon, <1>0, <1>1, <3>1, ManifestWritten
        <4> QED
          BY Zenon, <2>2, <4>1 DEF ReduceReadsEveryReplica
      <3>2. CASE j = Current
        <4>1. phase \in 1..5 /\ HasPlace(j, step, phase, at)
          BY Zenon, <1>0, <2>1, <3>2, CurrentType, JobAtFields DEF Current
        <4>2. j.step = step /\ j.ub \in Ubs /\ j.kind = Kind[phase]
          BY Zenon, <4>1 DEF HasPlace
        <4>3. phase = 3
          <5>1. 3 \in 1..5 /\ Kind[phase] = Kind[3]
            BY <2>2, <4>2, Kinds
          <5> QED
            BY Zenon, <4>1, <5>1, PhaseOnce
        <4>4. manifest'[j].ins = Inputs(j)
          BY Zenon, <1>0, <1>1, <3>2, ManifestWritten
        <4> QED
          BY <1>0, <2>1, <2>2, <4>2, <4>3, <4>4, ReduceInputs
      <3> QED
        BY Zenon, <3>1, <3>2
    <2> QED
      BY Zenon, <2>2 DEF ReduceReadsEveryReplica
  <1>2. CASE ~EmitManifest
    <2>1. manifest' = manifest
      BY Zenon, <1>2, StepCases, AsideKeeps
         DEF Boot, BootState, WaitForWorkers, EmitAdd, NoRoom, WaitOutputs, SaveState, Restart,
             Publish, TimesOut, Kill
    <2> QED
      BY Zenon, <2>1 DEF ReduceReadsEveryReplica
  <1> QED
    BY Zenon, <1>1, <1>2

-----------------------------------------------------------------------------
(* The theorems.                                                           *)

\* The first state of a run.
LEMMA RInvInit == Init => TypeOK /\ RInv
  <1> SUFFICES ASSUME Init PROVE TypeOK /\ RInv
    BY Zenon
  <1>1. NoManifest \in [hk : Hotkeys \cup {0}, ins : SUBSET Ref]
    BY Zenon DEF NoManifest
  <1>2. manifest \in [Job -> [hk : Hotkeys \cup {0}, ins : SUBSET Ref]]
          /\ \A j \in Job : manifest[j].hk = 0
    BY Zenon, <1>1 DEF Init, NoManifest
  <1>3. ManagerTypes
    BY <1>2, Sizes DEF Init, ManagerTypes, Idle
  <1>4. MinerTypes
    BY RoundAssumption DEF Init, MinerTypes
  <1>5. Position /\ Memory /\ Behind /\ Reserved
    BY ZenonT(40) DEF Init, Position, Memory, Behind, Reserved, InStep
  <1>6. Stored
    <2>1. 0..state = {}
      BY DEF Init
    <2> QED
      BY Zenon, <1>2, <2>1 DEF Init, Stored
  <1>7. EmittedIsRunnable /\ ReduceReadsEveryReplica
    BY Zenon, <1>2 DEF Init, EmittedIsRunnable, ReduceReadsEveryReplica
  <1> QED
    BY Zenon, <1>3, <1>4, <1>5, <1>6, <1>7, TypeParts DEF RInv

\* RInv is inductive, with the types.
LEMMA RInvStep == TypeOK /\ RInv /\ [Next]_vars => TypeOK' /\ RInv'
  <1> SUFFICES ASSUME TypeOK, RInv, [Next]_vars PROVE TypeOK' /\ RInv'
    BY Zenon
  <1>1. /\ Position /\ Memory /\ Behind /\ Reserved /\ Stored
        /\ EmittedIsRunnable /\ ReduceReadsEveryReplica
    BY Zenon DEF RInv
  <1>2. TypeOK'
    BY Zenon, <1>1, ManagerTypesStep, MinerTypesStep, TypeParts
  <1>3. Position' /\ Memory' /\ Behind' /\ Reserved' /\ Stored'
    BY Zenon, <1>1, PositionStep, MemoryStep, BehindStep, ReservedStep, StoredStep
  <1>4. EmittedIsRunnable' /\ ReduceReadsEveryReplica'
    BY Zenon, <1>1, RunnableStep, ReduceStep
  <1> QED
    BY Zenon, <1>2, <1>3, <1>4 DEF RInv

\* The invariant holds in every state of every run.
LEMMA RoundInvariant == Spec => [](TypeOK /\ RInv)
  BY RInvInit, RInvStep, PTL DEF Spec

\* The variables of the manager, the bucket and the miners keep their types.
THEOREM RoundTypes == Spec => []TypeOK
  BY RoundInvariant, PTL

\* emit_reduce collects exactly one delta of every replica of its microbatch,
\* although it walks the memory of a process that may have started in the
\* middle of the run and reads manifests an earlier process wrote.
THEOREM ReducesAreComplete == Spec => []ReduceReadsEveryReplica
  <1>1. RInv => ReduceReadsEveryReplica
    BY Zenon DEF RInv
  <1> QED
    BY <1>1, RoundInvariant, PTL

\* The inputs of every job this process emitted are in the bucket: the phases
\* of run_step are emitted in the order in which they feed each other.
THEOREM EmittedJobsRunnable == Spec => []EmittedIsRunnable
  <1>1. RInv => EmittedIsRunnable
    BY Zenon DEF RInv
  <1> QED
    BY <1>1, RoundInvariant, PTL

\* When run_step is over no job of the step is queued, also none that an
\* earlier process left there, and the quota book is empty.
THEOREM StepsLeaveNothing == Spec => []StepLeavesNothing
  <1>1. ASSUME TypeOK, RInv PROVE StepLeavesNothing
    <2> SUFFICES ASSUME pc = "save"
                 PROVE  inflight = Idle /\ \A y \in queue : y.job \notin StepJobs(step)
      BY Zenon DEF StepLeavesNothing
    <2>1. inflight = Idle
      BY Zenon, <1>1 DEF RInv, Reserved
    <2>2. ASSUME NEW y \in queue, y.job \in StepJobs(step) PROVE FALSE
      <3>1. PICK p \in 1..5 : \E i \in 1..Size[p] : y.job = JobAt(step, p, i)
        BY Zenon, <2>2 DEF StepJobs
      <3>2. PICK i \in 1..Size[p] : y.job = JobAt(step, p, i)
        BY Zenon, <3>1
      <3> DEFINE x == <<p, i>>
      <3>3. phase = 5
        BY Zenon, <1>1 DEF RInv, Position
      <3>4. x \in Places /\ At(x) = y.job /\ WaitedAt(x)
        BY <3>2, <3>3, Sizes DEF Places, At, WaitedAt
      <3> QED
        BY Zenon, <1>1, <2>2, <3>4 DEF RInv, Behind, InStep
    <2> QED
      BY Zenon, <2>1, <2>2
  <1> QED
    BY <1>1, RoundInvariant, PTL

-----------------------------------------------------------------------------
(* RoundRun implements DurableRun.                                         *)

Durable == INSTANCE DurableRun WITH
    step <- IF state < 0 THEN 0 ELSE state,
    frontier <- Frontier,
    mayResume <- FALSE

\* The frontier of a bucket that holds the artifacts U, and what a frontier is.
Full(U, s) == \A ub \in Ubs : Weights(s, ub) \in U
IsFrontier(U, k) ==
    /\ \A s \in 1..k, ub \in Ubs : Weights(s, ub) \in U
    /\ k < MaxSteps => \E ub \in Ubs : Weights(k + 1, ub) \notin U
FrontierOf(U) == CHOOSE k \in 0..MaxSteps : IsFrontier(U, k)

\* Two frontiers are the same.
LEMMA OneFrontier ==
  ASSUME NEW U, NEW k \in 0..MaxSteps, NEW l \in 0..MaxSteps, IsFrontier(U, k), IsFrontier(U, l)
  PROVE  k = l
  <1>1. ASSUME NEW a \in 0..MaxSteps, NEW b \in 0..MaxSteps, IsFrontier(U, a), IsFrontier(U, b), a < b
        PROVE  FALSE
    <2>1. a + 1 \in 1..b /\ a < MaxSteps
      BY <1>1, Sizes
    <2> QED
      BY Zenon, <1>1, <2>1 DEF IsFrontier
  <1>2. k < l \/ l < k \/ k = l
    BY Sizes
  <1> QED
    BY Zenon, <1>1, <1>2

\* When the weights up to step k are there and none after step k + 1, the
\* frontier is k or k + 1.
LEMMA FrontierNear ==
  ASSUME NEW U, NEW k \in 0..MaxSteps,
         \A s \in 1..k : Full(U, s),
         \A s \in 0..MaxSteps, ub \in Ubs : Weights(s, ub) \in U => s <= k + 1
  PROVE  FrontierOf(U) = IF k < MaxSteps /\ Full(U, k + 1) THEN k + 1 ELSE k
  <1> DEFINE l == IF k < MaxSteps /\ Full(U, k + 1) THEN k + 1 ELSE k
  <1>1. l \in 0..MaxSteps
    BY Sizes
  <1>2. IsFrontier(U, l)
    <2>1. CASE k < MaxSteps /\ Full(U, k + 1)
      <3>1. l = k + 1
        BY Zenon, <2>1
      <3>2. \A s \in 1..(k + 1) : Full(U, s)
        BY <2>1
      <3>3. k + 1 < MaxSteps => \E ub \in Ubs : Weights(k + 1 + 1, ub) \notin U
        <4> SUFFICES ASSUME k + 1 < MaxSteps PROVE Weights(k + 1 + 1, 0) \notin U
          BY Zenon, Sizes
        <4>1. k + 1 + 1 \in 0..MaxSteps /\ ~(k + 1 + 1 <= k + 1) /\ 0 \in Ubs
          BY Sizes
        <4> QED
          BY Zenon, <4>1
      <3> QED
        BY Zenon, <3>1, <3>2, <3>3 DEF IsFrontier, Full
    <2>2. CASE ~(k < MaxSteps /\ Full(U, k + 1))
      <3>1. l = k
        BY Zenon, <2>2
      <3> QED
        BY Zenon, <2>2, <3>1 DEF IsFrontier, Full
    <2> QED
      BY Zenon, <2>1, <2>2
  <1> HIDE DEF l
  <1>3. FrontierOf(U) \in 0..MaxSteps /\ IsFrontier(U, FrontierOf(U))
    BY Zenon, <1>1, <1>2 DEF FrontierOf
  <1>4. FrontierOf(U) = l
    BY Zenon, <1>1, <1>2, <1>3, OneFrontier
  <1> QED
    BY Zenon, <1>4 DEF l

\* What Stored says of state.json and the weights, by their values.
WeightsUpTo(st, U) ==
    /\ st \in -1..MaxSteps
    /\ \A s \in 0..st : Full(U, s)
    /\ \A s \in 0..MaxSteps, ub \in Ubs : Weights(s, ub) \in U => s <= st + 1
StepOf(st) == IF st < 0 THEN 0 ELSE st

\* Stored gives it now, and after a step.
LEMMA WeightsNow ==
  /\ TypeOK /\ Stored => WeightsUpTo(state, Uris)
  /\ TypeOK' /\ Stored' => WeightsUpTo(state', Uris')
  <1>1. ASSUME TypeOK, Stored PROVE WeightsUpTo(state, Uris)
    <2>1. ASSUME NEW s \in 0..MaxSteps, NEW ub \in Ubs, Weights(s, ub) \in Uris PROVE s <= state + 1
      <3>1. PICK x \in made : x.uri = Weights(s, ub)
        BY Zenon, <2>1 DEF Uris
      <3>2. x.uri.name = "weights" /\ x.uri.step = s
        BY <3>1 DEF Weights, Uri
      <3> QED
        BY Zenon, <1>1, <3>1, <3>2 DEF Stored
    <2> QED
      BY Zenon, <1>1, <2>1 DEF WeightsUpTo, Full, Stored, TypeOK
  <1>2. ASSUME TypeOK', Stored' PROVE WeightsUpTo(state', Uris')
    <2>1. ASSUME NEW s \in 0..MaxSteps, NEW ub \in Ubs, Weights(s, ub) \in Uris' PROVE s <= state' + 1
      <3>1. PICK x \in made' : x.uri = Weights(s, ub)
        BY Zenon, <2>1 DEF Uris
      <3>2. x.uri.name = "weights" /\ x.uri.step = s
        BY <3>1 DEF Weights, Uri
      <3> QED
        BY ZenonT(40), <1>2, <3>1, <3>2 DEF Stored
    <2> QED
      BY Zenon, <1>2, <2>1 DEF WeightsUpTo, Full, Stored, TypeOK
  <1> QED
    BY Zenon, <1>1, <1>2

\* The frontier is the step of state.json, or the one after it.
LEMMA FrontierIs ==
  ASSUME NEW st, NEW U, WeightsUpTo(st, U)
  PROVE  /\ StepOf(st) \in 0..MaxSteps
         /\ FrontierOf(U) = IF StepOf(st) < MaxSteps /\ Full(U, StepOf(st) + 1)
                            THEN StepOf(st) + 1 ELSE StepOf(st)
  <1>1. st \in -1..MaxSteps
    BY Zenon DEF WeightsUpTo
  <1>2. PICK k \in 0..MaxSteps : k = StepOf(st)
    BY <1>1, Sizes DEF StepOf
  <1>3. \A s \in 1..k : Full(U, s)
    BY <1>1, <1>2 DEF WeightsUpTo, StepOf
  <1>4. ASSUME NEW s \in 0..MaxSteps, NEW ub \in Ubs, Weights(s, ub) \in U PROVE s <= k + 1
    <2>1. s <= st + 1 /\ st <= k
      BY <1>1, <1>2, <1>4 DEF WeightsUpTo, StepOf
    <2> QED
      BY <1>1, <1>2, <2>1
  <1>5. FrontierOf(U) = IF k < MaxSteps /\ Full(U, k + 1) THEN k + 1 ELSE k
    BY Zenon, <1>3, <1>4, FrontierNear
  <1> QED
    BY Zenon, <1>2, <1>5

\* state.json changes at the end of bootstrap and at the end of a step.
LEMMA StateChanges == [Next]_vars => state' = state \/ BootState \/ SaveState
  BY Zenon, StepCases, AsideKeeps
     DEF Boot, WaitForWorkers, EmitManifest, EmitAdd, NoRoom, WaitOutputs, Restart, Publish,
         TimesOut, Kill

\* Every step of RoundRun is one of DurableRun, or changes nothing there.
LEMMA DurableStep ==
  TypeOK /\ RInv /\ TypeOK' /\ RInv' /\ [Next]_vars =>
    [Durable!Produce \/ Durable!Advance \/ Durable!Resume]_
      <<IF state < 0 THEN 0 ELSE state, Frontier, FALSE>>
  <1> SUFFICES ASSUME TypeOK, RInv, TypeOK', RInv', [Next]_vars
               PROVE  \/ Frontier' = Frontier + 1 /\ StepOf(state') = StepOf(state)
                      \/ StepOf(state) < Frontier /\ StepOf(state') = StepOf(state) + 1
                           /\ Frontier' = Frontier
                      \/ StepOf(state') = StepOf(state) /\ Frontier' = Frontier
    BY Zenon DEF Durable!Produce, Durable!Advance, StepOf
  <1>1. Frontier = FrontierOf(Uris) /\ Frontier' = FrontierOf(Uris')
    BY Zenon DEF Frontier, FrontierOf, IsFrontier
  <1>2. WeightsUpTo(state, Uris) /\ WeightsUpTo(state', Uris')
    BY Zenon, WeightsNow DEF RInv
  <1> DEFINE k == StepOf(state)  l == StepOf(state')
  <1>3. /\ k \in 0..MaxSteps
        /\ Frontier = IF k < MaxSteps /\ Full(Uris, k + 1) THEN k + 1 ELSE k
        /\ l \in 0..MaxSteps
        /\ Frontier' = IF l < MaxSteps /\ Full(Uris', l + 1) THEN l + 1 ELSE l
    BY Zenon, <1>1, <1>2, FrontierIs
  <1>4. CASE state' = state
    <2>1. l = k
      BY Zenon, <1>4
    <2>2. Full(Uris, k + 1) => Full(Uris', k + 1)
      BY Zenon, UrisGrow DEF Full
    <2> HIDE DEF k, l
    <2>3. Frontier' = Frontier \/ Frontier' = Frontier + 1
      BY Zenon, <1>3, <2>1, <2>2
    <2> QED
      BY Zenon, <2>1, <2>3 DEF k, l
  <1>5. CASE BootState
    <2>1. state = -1 /\ state' = 0 /\ Uris' = Uris
      BY Zenon, <1>5 DEF BootState, RInv, Position, Uris
    <2>2. k = 0 /\ l = 0
      BY <2>1 DEF StepOf
    <2> QED
      BY Zenon, <1>1, <2>1, <2>2
  <1>6. CASE SaveState
    <2>1. pc = "save" /\ state' = step + 1 /\ made' = made
      BY Zenon, <1>6 DEF SaveState
    <2>2. ManagerTypes /\ Position /\ Behind /\ InStep
      BY Zenon, <2>1, TypeParts DEF RInv, InStep
    <2>3. step = state /\ state \in 0..(MaxSteps - 1) /\ phase = 5
      BY Zenon, <2>1, <2>2, CurrentType DEF Position
    <2>4. Full(Uris, state + 1)
      BY Zenon, <2>2, <2>3, NextWeights DEF Full
    <2>5. k = state /\ l = state + 1 /\ k < MaxSteps
      BY <2>1, <2>3, Sizes DEF StepOf
    <2>6. Frontier = state + 1
      BY Zenon, <1>3, <2>4, <2>5
    <2>7. Frontier' = Frontier
      BY Zenon, <1>1, <2>1 DEF Uris
    <2> QED
      BY <2>3, <2>5, <2>6, <2>7
  <1> QED
    BY Zenon, <1>4, <1>5, <1>6, StateChanges

\* The run manager keeps the promise of DurableRun through any kills, timeouts
\* and crashes: the step of state.json has all its weights in the bucket, it
\* moves on by one at a time, and complete weights neither vanish nor appear
\* out of order.
THEOREM RoundRunIsDurable == Spec => Durable!Spec
  <1>1. Init => Durable!Init
    <2> SUFFICES ASSUME Init PROVE Durable!Init
      BY Zenon
    <2>1. TypeOK /\ RInv
      BY Zenon, RInvInit
    <2>2. state = -1 /\ Uris = {}
      BY Zenon DEF Init, Uris
    <2>3. WeightsUpTo(state, Uris)
      BY Zenon, <2>1, WeightsNow DEF RInv
    <2>4. StepOf(state) = 0 /\ ~Full(Uris, 1)
      BY <2>2, Sizes DEF StepOf, Full
    <2>5. FrontierOf(Uris) = 0
      BY <2>3, <2>4, FrontierIs
    <2>6. Frontier = 0
      BY Zenon, <2>5 DEF Frontier, FrontierOf, IsFrontier
    <2> QED
      BY <2>2, <2>6 DEF Durable!Init
  <1> QED
    BY <1>1, RoundInvariant, DurableStep, PTL DEF Spec, Durable!Spec
================================================================================
