------------------------- MODULE StreamingRun_proofs -------------------------
(***************************************************************************)
(* Proofs about StreamingRun, for any number of stages, microbatches,      *)
(* epochs and miners, any quota and queue bound, in both grant modes, and  *)
(* for any number of restarts, crashes and expired entries; and about the  *)
(* stress mode of the same manager, StressEmitter.                         *)
(***************************************************************************)
EXTENDS StreamingRun, Scheduler_proofs

\* A leaf that names no prover is tried with SMT, with SMT and more time, and
\* with Zenon.
USE SMT, SMTT(30), Zenon

Kinds == {"fwd", "bwd", "outer"}

\* As much of the shape of a job as the arguments below need.
AnyJob == [kind : Kinds, e : Nat, s : Int, mb : Int]

Bwd(e, s, mb) == [kind |-> "bwd", e |-> e, s |-> s, mb |-> mb]
Outer(e, s) == [kind |-> "outer", e |-> e, s |-> s, mb |-> 0]

Shape ==
    /\ epoch \in Nat /\ next \in Nat
    /\ \A x \in queue \cup published : x.job \in AnyJob
    /\ doing \in [Hotkeys -> AnyJob \cup {NoJob}]
    /\ DOMAIN left = Hotkeys /\ DOMAIN completed = Hotkeys

\* A miner executes a job whose inputs exist, and each of its outputs is in
\* the bucket or still to be written.
Executing(hk) ==
    IF doing[hk] = NoJob THEN left[hk] = {}
    ELSE /\ Inputs(doing[hk]) \subseteq made
         /\ left[hk] \subseteq Outputs(doing[hk])
         /\ Outputs(doing[hk]) \subseteq made \cup left[hk]

MinersSound == \A hk \in Hotkeys : Executing(hk)

\* Nothing exists without what it was computed from.
Closure ==
    \A e \in Nat, s \in Int, mb \in Int :
        /\ Art("dW", e, s, mb) \in made => Inputs(Bwd(e, s, mb)) \subseteq made
        /\ Weights(e + 1, s) \in made => Inputs(Outer(e, s)) \subseteq made

\* What wait_epoch saw of the epochs behind.
Seen ==
    \A e \in Nat : e < epoch =>
        /\ \A mb \in Mbs : Art("done", e, LastStage, mb) \in made
        /\ Training => \A s \in StageIds : Weights(e + 1, s) \in made

-----------------------------------------------------------------------------
\* Every index of emit_epoch's loops names a job.
LEMMA JobAtShape ==
  ASSUME NEW e \in Nat, NEW i \in Nat
  PROVE  JobAt(e, i) \in AnyJob
  <1>1. Stages \in Nat /\ Stages > 0 /\ Microbatches \in Nat
    BY StreamingAssumption
  <1>2. Passes \in Int
    BY <1>1 DEF Passes
  <1>3. (i - 1) % Stages \in Int /\ (i - 1) \div Stages \in Int
    BY <1>1
  <1>4. (i - 1 - Passes) \div Stages \in Int
    BY <1>1, <1>2
  <1>5. LastStage - ((i - 1) % Stages) \in Int /\ i - 1 - 2 * Passes \in Int
    BY <1>1, <1>2, <1>3 DEF LastStage
  <1> QED
    BY <1>3, <1>4, <1>5 DEF JobAt, AnyJob, Kinds

\* Only a backward job writes a given dW, and only the outer step of a stage
\* its next weights.
LEMMA Producers ==
  ASSUME NEW d \in AnyJob, NEW e \in Nat, NEW s \in Int, NEW mb \in Int
  PROVE  /\ Art("dW", e, s, mb) \in Outputs(d) => d = Bwd(e, s, mb)
         /\ Weights(e + 1, s) \in Outputs(d) => Inputs(d) = Inputs(Outer(e, s))
  <1>1. CASE d.kind = "fwd"
    BY Zenon, <1>1 DEF Outputs, Art, Weights
  <1>2. CASE d.kind = "bwd"
    <2>1. Art("dW", e, s, mb) \in Outputs(d) => d.e = e /\ d.s = s /\ d.mb = mb
      BY Zenon, <1>2 DEF Outputs, Art
    <2>2. d = [kind |-> d.kind, e |-> d.e, s |-> d.s, mb |-> d.mb]
      BY Zenon DEF AnyJob
    <2>3. Weights(e + 1, s) \notin Outputs(d)
      BY Zenon, <1>2 DEF Outputs, Art, Weights
    <2> QED
      BY Zenon, <1>2, <2>1, <2>2, <2>3 DEF Bwd
  <1>3. CASE d.kind = "outer"
    <2>1. Weights(e + 1, s) \in Outputs(d) => d.e + 1 = e + 1 /\ d.s = s
      BY Zenon, <1>3 DEF Outputs, Art, Weights
    <2>2. d.e \in Nat
      BY Zenon DEF AnyJob
    <2>3. Weights(e + 1, s) \in Outputs(d) => d.e = e /\ d.s = s
      BY <2>1, <2>2
    <2>4. Art("dW", e, s, mb) \notin Outputs(d)
      BY Zenon, <1>3 DEF Outputs, Art, Weights
    <2>5. d.e = e /\ d.s = s => Inputs(d) = Inputs(Outer(e, s))
      BY Zenon, <1>3 DEF Inputs, Outer
    <2> QED
      BY Zenon, <2>3, <2>4, <2>5
  <1> QED
    BY Zenon, <1>1, <1>2, <1>3 DEF AnyJob, Kinds

\* add() brings in no job but its own.
LEMMA AddBringsOne ==
  ASSUME NEW q, NEW j, NEW hk
  PROVE  \A x \in Add(q, j, hk) : x.job = j \/ x \in q
  <1>1. CASE j \in Queued(q)
    BY <1>1 DEF Add
  <1>2. CASE j \notin Queued(q)
    BY <1>2 DEF Add
  <1> QED
    BY Zenon, <1>1, <1>2

-----------------------------------------------------------------------------
\* The indices, the queue's jobs and the miners' jobs keep their shape.
LEMMA ShapeInit == Init => Shape
  BY DEF Init, Shape

\* Every step keeps Shape.
LEMMA ShapeStep == Shape /\ [Next]_vars => Shape'
  <1> SUFFICES ASSUME Shape, [Next]_vars PROVE Shape'
    BY Zenon
  <1>1. CASE Discover
    BY Zenon, <1>1 DEF Discover, Shape, miners, store
  <1>2. CASE EmitManifest
    BY Zenon, <1>2 DEF EmitManifest, Shape, miners
  <1>3. CASE EmitAdd
    <2>1. JobAt(epoch, next) \in AnyJob
      BY Zenon, JobAtShape DEF Shape
    <2>2. \A x \in queue' : x.job \in AnyJob
      BY Zenon, <1>3, <2>1, AddBringsOne DEF EmitAdd, Shape
    <2>3. next' \in Nat
      BY <1>3 DEF EmitAdd, Shape
    <2> QED
      BY Zenon, <1>3, <2>2, <2>3 DEF EmitAdd, Shape, miners
  <1>4. CASE NoRoom
    BY Zenon, <1>4 DEF NoRoom, Shape, miners
  <1>5. CASE StartWait
    BY Zenon, <1>5 DEF StartWait, Shape, miners, store
  <1>6. CASE Poll
    BY Zenon, <1>6 DEF Poll, Drained, Shape, miners, store
  <1>7. CASE EpochEnds
    <2>1. queue' \subseteq queue /\ published' \subseteq queue \cup published
      BY Zenon, <1>7 DEF EpochEnds, Drained
    <2>2. epoch' \in Nat
      BY <1>7 DEF EpochEnds, Shape
    <2> QED
      BY Zenon, <1>7, <2>1, <2>2 DEF EpochEnds, Shape, miners
  <1>8. CASE TimesOut
    BY Zenon, <1>8 DEF TimesOut, Shape, miners
  <1>9. CASE Publish
    BY Zenon, <1>9 DEF Publish, Shape, miners, manager
  <1>10. CASE Restart
    BY Zenon, <1>10 DEF Restart, Shape, miners, store
  <1>11. CASE Expire
    BY Zenon, <1>11 DEF Expire, Shape, miners, manager
  <1>12. ASSUME NEW hk \in Hotkeys, Mining(hk) \/ Crash(hk) PROVE Shape'
    <2>1. CASE Take(hk)
      BY <2>1 DEF Take, Runnable, Mine, Shape, manager, store
    <2>2. CASE Skip(hk)
      BY Zenon, <2>2 DEF Skip, Shape, manager, store
    <2>3. CASE PutOutput(hk)
      BY Zenon, <2>3 DEF PutOutput, Shape, manager
    <2>4. CASE PutReceipt(hk)
      BY Zenon, <2>4 DEF PutReceipt, Shape
    <2>5. CASE Crash(hk)
      BY Zenon, <2>5 DEF Crash, Shape, manager, store
    <2>6. CASE Start(hk)
      BY Zenon, <2>6 DEF Start, Shape, manager, store
    <2> QED
      BY Zenon, <1>12, <2>1, <2>2, <2>3, <2>4, <2>5, <2>6 DEF Mining
  <1>13. CASE UNCHANGED vars
    BY Zenon, <1>13 DEF vars, manager, miners, store, Shape
  <1> QED
    BY Zenon, <1>1, <1>2, <1>3, <1>4, <1>5, <1>6, <1>7, <1>8, <1>9, <1>10, <1>11,
       <1>12, <1>13 DEF Next, Orchestrate

\* What the orchestrator does is invisible to what the miners rely on.
LEMMA ManagerSteps ==
  ASSUME Orchestrate \/ TimesOut \/ Publish \/ Restart \/ Expire \/ UNCHANGED vars
  PROVE  UNCHANGED <<made, miners>>
  <1>1. CASE Orchestrate
    BY ZenonT(20), <1>1 DEF Orchestrate, Discover, EmitManifest, EmitAdd, NoRoom, StartWait,
                Poll, EpochEnds, store
  <1>2. CASE TimesOut \/ Publish \/ Restart \/ Expire \/ UNCHANGED vars
    BY Zenon, <1>2 DEF TimesOut, Publish, Restart, Expire, store, vars
  <1> QED
    BY ZenonT(20), <1>1, <1>2

-----------------------------------------------------------------------------
\* Whatever a miner is executing has its inputs, and its outputs are written
\* or still on its list.
LEMMA MinersInit == Init => MinersSound
  BY ZenonT(20) DEF Init, MinersSound, Executing

\* Every step keeps MinersSound.
LEMMA MinersStep == Shape /\ MinersSound /\ [Next]_vars => MinersSound'
  <1> SUFFICES ASSUME Shape, MinersSound, [Next]_vars,
                      NEW g \in Hotkeys
               PROVE  Executing(g)'
    BY Zenon DEF MinersSound
  <1> USE DEF Executing
  <1>1. Executing(g) /\ DOMAIN doing = Hotkeys /\ DOMAIN left = Hotkeys
    BY Zenon DEF MinersSound, Shape
  <1>2. CASE Orchestrate \/ TimesOut \/ Publish \/ Restart \/ Expire \/ UNCHANGED vars
    BY ZenonT(20), <1>1, <1>2, ManagerSteps DEF miners
  <1>3. ASSUME NEW hk \in Hotkeys, Mining(hk) \/ Crash(hk) PROVE Executing(g)'
    <2>1. CASE Take(hk)
      <3>1. made' = made
        BY Zenon, <2>1 DEF Take, store
      <3>2. PICK x \in Runnable(hk) : /\ doing' = [doing EXCEPT ![hk] = x.job]
                                     /\ left' = [left EXCEPT ![hk] = Outputs(x.job)]
        BY ZenonT(20), <2>1 DEF Take
      <3>3. Inputs(x.job) \subseteq made /\ x \in published
        BY Zenon, <3>2 DEF Runnable, Mine
      <3>4. x.job \in AnyJob /\ NoJob \notin AnyJob
        BY Zenon, <3>3 DEF Shape, AnyJob, Kinds, NoJob
      <3> QED
        BY Zenon, <1>1, <3>1, <3>2, <3>3, <3>4
    <2>2. CASE Skip(hk)
      BY Zenon, <1>1, <2>2 DEF Skip, store
    <2>3. CASE PutOutput(hk)
      BY Zenon, <1>1, <2>3 DEF PutOutput
    <2>4. CASE PutReceipt(hk)
      BY Zenon, <1>1, <2>4 DEF PutReceipt
    <2>5. CASE Crash(hk)
      BY Zenon, <1>1, <2>5 DEF Crash, store
    <2>6. CASE Start(hk)
      BY Zenon, <1>1, <2>6 DEF Start, store
    <2> QED
      BY Zenon, <1>3, <2>1, <2>2, <2>3, <2>4, <2>5, <2>6 DEF Mining
  <1> QED
    BY Zenon, <1>2, <1>3 DEF Next

\* An artifact appears in the bucket only as an output of a job whose inputs
\* are there.
LEMMA NewArtifacts ==
  ASSUME Shape, MinersSound, [Next]_vars
  PROVE  /\ made \subseteq made'
         /\ \A a \in made' \ made : \E d \in AnyJob :
                a \in Outputs(d) /\ Inputs(d) \subseteq made
  <1>1. CASE Orchestrate \/ TimesOut \/ Publish \/ Restart \/ Expire \/ UNCHANGED vars
    BY ZenonT(20), <1>1, ManagerSteps
  <1>2. ASSUME NEW hk \in Hotkeys, Mining(hk) \/ Crash(hk)
        PROVE  \/ made' = made
               \/ \E a \in left[hk] : made' = made \cup {a}
    BY Zenon, <1>2 DEF Mining, Take, Skip, PutOutput, PutReceipt, Start, Crash, store
  <1>3. ASSUME NEW hk \in Hotkeys, NEW a \in left[hk]
        PROVE  doing[hk] \in AnyJob /\ a \in Outputs(doing[hk]) /\ Inputs(doing[hk]) \subseteq made
    BY Zenon, <1>3 DEF Shape, MinersSound, Executing
  <1>4. CASE \E hk \in Hotkeys : Mining(hk) \/ Crash(hk)
    BY Zenon, <1>2, <1>3, <1>4
  <1> QED
    BY Zenon, <1>1, <1>4 DEF Next

\* An empty bucket is closed.
LEMMA ClosureInit == Init => Closure
  <1> SUFFICES ASSUME Init, NEW e \in Nat, NEW s \in Int, NEW mb \in Int
               PROVE  Art("dW", e, s, mb) \notin made /\ Weights(e + 1, s) \notin made
    BY ZenonT(20) DEF Closure
  <1>1. ASSUME NEW r \in StageIds
        PROVE  Art("dW", e, s, mb) # Weights(0, r) /\ Weights(e + 1, s) # Weights(0, r)
    BY DEF Art, Weights
  <1> QED
    BY Zenon, <1>1 DEF Init

\* Nothing exists without what it was computed from.
LEMMA ClosureStep == Shape /\ MinersSound /\ Closure /\ [Next]_vars => Closure'
  <1> SUFFICES ASSUME Shape, MinersSound, Closure, [Next]_vars,
                      NEW e \in Nat, NEW s \in Int, NEW mb \in Int
               PROVE  /\ Art("dW", e, s, mb) \in made' => Inputs(Bwd(e, s, mb)) \subseteq made'
                      /\ Weights(e + 1, s) \in made' => Inputs(Outer(e, s)) \subseteq made'
    BY Zenon DEF Closure, Inputs, Art, Weights, Bwd, Outer, Mbs, LastStage
  <1>1. made \subseteq made'
    BY Zenon, NewArtifacts
  <1>2. \A a \in made' \ made : \E d \in AnyJob : a \in Outputs(d) /\ Inputs(d) \subseteq made
    BY Zenon, NewArtifacts
  <1>3. /\ Art("dW", e, s, mb) \in made => Inputs(Bwd(e, s, mb)) \subseteq made
        /\ Weights(e + 1, s) \in made => Inputs(Outer(e, s)) \subseteq made
    BY ZenonT(20) DEF Closure
  <1>4. ASSUME Art("dW", e, s, mb) \in made' \ made
        PROVE  Inputs(Bwd(e, s, mb)) \subseteq made
    <2>1. PICK d \in AnyJob : Art("dW", e, s, mb) \in Outputs(d) /\ Inputs(d) \subseteq made
      BY Zenon, <1>2, <1>4
    <2>2. d = Bwd(e, s, mb)
      BY ZenonT(20), <2>1, Producers
    <2> QED
      BY Zenon, <2>1, <2>2
  <1>5. ASSUME Weights(e + 1, s) \in made' \ made
        PROVE  Inputs(Outer(e, s)) \subseteq made
    <2>1. PICK d \in AnyJob : Weights(e + 1, s) \in Outputs(d) /\ Inputs(d) \subseteq made
      BY Zenon, <1>2, <1>5
    <2>2. Inputs(d) = Inputs(Outer(e, s))
      BY ZenonT(20), <2>1, Producers
    <2> QED
      BY Zenon, <2>1, <2>2
  <1> QED
    BY Zenon, <1>1, <1>3, <1>4, <1>5

-----------------------------------------------------------------------------
\* What wait_epoch saw stays: artifacts are never deleted.
LEMMA SeenStep == Shape /\ MinersSound /\ Seen /\ [Next]_vars => Seen'
  <1> SUFFICES ASSUME Shape, MinersSound, Seen, [Next]_vars,
                      NEW e \in Nat, e < epoch'
               PROVE  /\ \A mb \in Mbs : Art("done", e, LastStage, mb) \in made'
                      /\ Training => \A s \in StageIds : Weights(e + 1, s) \in made'
    BY Zenon DEF Seen, Art, Weights, Mbs, StageIds, LastStage
  <1>1. made \subseteq made'
    BY Zenon, NewArtifacts
  <1>2. CASE e < epoch
    BY Zenon, <1>1, <1>2 DEF Seen
  <1>3. CASE EpochEnds
    <2>1. e < epoch \/ e = epoch
      BY <1>3 DEF EpochEnds, Shape
    <2>2. CASE e = epoch
      BY Zenon, <1>1, <1>3, <2>2 DEF EpochEnds, TailDone, OuterDone
    <2> QED
      BY Zenon, <1>2, <2>1, <2>2
  <1>4. CASE Restart
    BY <1>4 DEF Restart
  <1>5. CASE ~EpochEnds /\ ~Restart
    <2>1. epoch' = epoch
      BY ZenonT(20), <1>5 DEF Next, Orchestrate, Discover, EmitManifest, EmitAdd, NoRoom, StartWait, Poll,
                  TimesOut, Publish, Expire, Mining, Take, Skip, PutOutput, PutReceipt, Start,
                  Crash, vars, manager
    <2> QED
      BY ZenonT(20), <1>2, <2>1
  <1> QED
    BY Zenon, <1>3, <1>4, <1>5

\* A job enters a completed cache with all of its outputs in the bucket.
LEMMA CompletedStep ==
    Shape /\ MinersSound /\ CompletedIsProduced /\ [Next]_vars => CompletedIsProduced'
  <1> SUFFICES ASSUME Shape, MinersSound, CompletedIsProduced, [Next]_vars,
                      NEW g \in Hotkeys, NEW j \in completed'[g]
               PROVE  Outputs(j) \subseteq made'
    BY ZenonT(20) DEF CompletedIsProduced, Outputs, Art, Weights, LastStage
  <1>1. made \subseteq made' /\ DOMAIN completed = Hotkeys
    BY Zenon, NewArtifacts DEF Shape
  <1>2. CASE j \in completed[g]
    BY Zenon, <1>1, <1>2 DEF CompletedIsProduced
  <1>3. CASE Orchestrate \/ TimesOut \/ Publish \/ Restart \/ Expire \/ UNCHANGED vars
    BY Zenon, <1>2, <1>3, ManagerSteps DEF miners
  <1>4. ASSUME NEW hk \in Hotkeys, Mining(hk) \/ Crash(hk)
        PROVE  Outputs(j) \subseteq made'
    <2>1. ASSUME NEW n, j \in Already(hk, n) PROVE Outputs(j) \subseteq made
      BY Zenon, <2>1 DEF Already, AllThere
    <2>2. CASE Take(hk)
      <3>1. PICK x \in Runnable(hk) :
              completed' = [completed EXCEPT ![hk] = @ \cup Already(hk, x.at)]
        BY ZenonT(20), <2>2 DEF Take
      <3>2. j \in completed[g] \/ j \in Already(hk, x.at)
        BY Zenon, <1>1, <3>1
      <3> QED
        BY ZenonT(20), <1>1, <1>2, <2>1, <3>2
    <2>3. CASE Skip(hk)
      <3>1. j \in completed[g] \/ j \in Already(hk, 0)
        BY Zenon, <1>1, <2>3 DEF Skip
      <3> QED
        BY Zenon, <1>1, <1>2, <2>1, <3>1
    <2>4. CASE PutReceipt(hk)
      <3>1. j \in completed[g] \/ j = doing[hk]
        BY Zenon, <1>1, <2>4 DEF PutReceipt
      <3>2. Outputs(doing[hk]) \subseteq made
        BY Zenon, <2>4 DEF PutReceipt, MinersSound, Executing
      <3> QED
        BY Zenon, <1>1, <1>2, <3>1, <3>2
    <2>5. CASE PutOutput(hk) \/ Crash(hk) \/ Start(hk)
      BY Zenon, <1>2, <2>5 DEF PutOutput, Crash, Start
    <2> QED
      BY Zenon, <1>4, <2>2, <2>3, <2>4, <2>5 DEF Mining
  <1> QED
    BY Zenon, <1>3, <1>4 DEF Next

\* The conjunction is inductive.
IInv == Shape /\ MinersSound /\ Closure /\ Seen /\ CompletedIsProduced

\* The inductive invariant holds in every state.
LEMMA Inductive == Spec => []IInv
  <1>1. Init => IInv
    <2>1. Init => Seen /\ CompletedIsProduced
      BY DEF Init, Seen, CompletedIsProduced
    <2> QED
      BY Zenon, <2>1, ShapeInit, MinersInit, ClosureInit DEF IInv
  <1>2. IInv /\ [Next]_vars => IInv'
    BY Zenon, ShapeStep, MinersStep, ClosureStep, SeenStep, CompletedStep DEF IInv
  <1> QED
    BY <1>1, <1>2, PTL DEF Spec

\* A job in a miner's persisted completed cache, which the miner will never
\* run again, has all of its outputs in the bucket, whatever crashed,
\* restarted or was handed out twice.
THEOREM CacheIsSafe == Spec => []CompletedIsProduced
  BY Inductive, PTL DEF IInv

-----------------------------------------------------------------------------
\* The quotient of an index below a product is below the other factor.
LEMMA Quotient ==
  ASSUME NEW a \in Nat \ {0}, NEW b \in Nat \ {0}, NEW n \in Nat, n < a * b
  PROVE  n \div a \in 0..(b - 1) /\ n % a \in 0..(a - 1)
  <1>1. n % a \in 0..(a - 1) /\ n \div a \in Nat
    OBVIOUS
  <1>2. n = a * (n \div a) + (n % a)
    OBVIOUS
  <1>3. ASSUME n \div a >= b PROVE FALSE
    <2>1. PICK d \in Nat : n \div a = b + d
      BY <1>1, <1>3
    <2>2. a * (b + d) = a * b + a * d /\ a * d >= 0 /\ a * b \in Nat
      OBVIOUS
    <2> QED
      BY <1>1, <1>2, <2>1, <2>2
  <1> QED
    BY <1>1, <1>3

\* The three loops of emit_epoch stay within the stages and microbatches.
LEMMA EpochJobsShape ==
  ASSUME NEW e \in Nat, NEW j \in EpochJobs(e)
  PROVE  /\ j \in AnyJob /\ j.e = e /\ j.s \in StageIds
         /\ j.kind # "outer" => j.mb \in Mbs
  <1>1. Stages \in Nat \ {0} /\ Microbatches \in Nat \ {0} /\ Passes \in Nat
    BY StreamingAssumption DEF Passes
  <1>2. PICK i \in 1..(2 * Passes + Stages) : j = JobAt(e, i)
    BY <1>1 DEF EpochJobs, JobsPerEpoch
  <1>3. j \in AnyJob
    BY <1>1, <1>2, JobAtShape
  <1>4. CASE i - 1 < Passes
    <2>1. (i - 1) \div Stages \in Mbs /\ (i - 1) % Stages \in StageIds
      <3>1. i - 1 \in Nat /\ i - 1 < Stages * Microbatches
        BY <1>1, <1>2, <1>4 DEF Passes
      <3> QED
        BY ZenonT(20), <1>1, <3>1, Quotient DEF Mbs, StageIds
    <2>2. i - 1 \notin Passes..(2 * Passes - 1)
      BY <1>1, <1>2, <1>4
    <2> QED
      BY Zenon, <1>2, <1>3, <1>4, <2>1, <2>2 DEF JobAt
  <1>5. CASE i - 1 \in Passes..(2 * Passes - 1)
    <2>1. (i - 1 - Passes) \div Stages \in Mbs
      <3>1. i - 1 - Passes \in Nat /\ i - 1 - Passes < Passes
        BY <1>1, <1>2, <1>5
      <3> QED
        BY ZenonT(20), <1>1, <3>1, Quotient DEF Passes, Mbs
    <2>2. (i - 1) % Stages \in 0..(Stages - 1)
      BY <1>1, <1>2
    <2>3. LastStage - ((i - 1) % Stages) \in StageIds
      BY <1>1, <2>2 DEF LastStage, StageIds
    <2>4. ~(i - 1 < Passes)
      BY <1>1, <1>2, <1>5
    <2> QED
      BY Zenon, <1>2, <1>3, <1>5, <2>1, <2>3, <2>4 DEF JobAt
  <1>6. CASE i - 1 >= 2 * Passes
    <2>1. ~(i - 1 < Passes) /\ i - 1 \notin Passes..(2 * Passes - 1)
      BY <1>1, <1>2, <1>6
    <2>2. i - 1 - 2 * Passes \in StageIds
      BY <1>1, <1>2, <1>6 DEF StageIds
    <2> QED
      BY Zenon, <1>2, <1>3, <2>1, <2>2 DEF JobAt
  <1> QED
    BY <1>1, <1>2, <1>4, <1>5, <1>6

\* From the tail's losses and the next weights back to every other artifact
\* of the epoch: the outer steps read every dW, whose backward jobs read the
\* activations and the gradients of their neighbours.
LEMMA SeenImpliesComplete ==
  ASSUME Training, Closure, Seen, epoch \in Nat
  PROVE  BehindIsComplete
  <1> SUFFICES ASSUME NEW e \in 0..(epoch - 1), NEW j \in EpochJobs(e), NEW a \in Outputs(j),
                      \A mb \in Mbs : a # Art("x", e, LastStage, mb)
               PROVE  a \in made
    BY Zenon DEF BehindIsComplete
  <1>1. e \in Nat /\ e < epoch /\ Stages \in Nat \ {0} /\ StageIds = 0..(Stages - 1)
        /\ LastStage = Stages - 1 /\ Mbs \subseteq Int
    BY StreamingAssumption DEF StageIds, LastStage, Mbs
  <1>2. j \in AnyJob /\ j.e = e /\ j.s \in StageIds /\ (j.kind # "outer" => j.mb \in Mbs)
    BY Zenon, <1>1, EpochJobsShape
  <1>3. /\ \A mb \in Mbs : Art("done", e, LastStage, mb) \in made
        /\ \A s \in StageIds : Weights(e + 1, s) \in made
    BY Zenon, <1>1 DEF Seen
  <1>4. ASSUME NEW s \in StageIds, NEW mb \in Mbs
        PROVE  Art("dW", e, s, mb) \in made
    <2>1. Inputs(Outer(e, s)) \subseteq made
      <3>1. s \in Int /\ mb \in Int /\ Weights(e + 1, s) \in made
        BY <1>1, <1>3
      <3> QED
        BY ZenonT(20), <1>1, <3>1 DEF Closure
    <2>2. Art("dW", e, s, mb) \in Inputs(Outer(e, s))
      BY Zenon DEF Inputs, Outer
    <2> QED
      BY ZenonT(20), <2>1, <2>2
  <1>5. ASSUME NEW s \in StageIds, NEW mb \in Mbs
        PROVE  /\ s # 0 => Art("x", e, s - 1, mb) \in made
               /\ s # LastStage => Art("dx", e, s + 1, mb) \in made
    <2>1. Inputs(Bwd(e, s, mb)) \subseteq made
      <3>1. s \in Int /\ mb \in Int
        BY <1>1
      <3>2. Art("dW", e, s, mb) \in made
        BY Zenon, <1>4
      <3> QED
        BY ZenonT(20), <1>1, <3>1, <3>2 DEF Closure
    <2>2. /\ s # 0 => Art("x", e, s - 1, mb) \in Inputs(Bwd(e, s, mb))
          /\ s # LastStage => Art("dx", e, s + 1, mb) \in Inputs(Bwd(e, s, mb))
      BY Zenon DEF Inputs, Bwd
    <2> QED
      BY Zenon, <2>1, <2>2
  <1>6. CASE j.kind = "fwd"
    <2>1. a = Art("x", e, j.s, j.mb) \/ (j.s = LastStage /\ a = Art("done", e, j.s, j.mb))
      BY Zenon, <1>2, <1>6 DEF Outputs
    <2>2. CASE j.s # LastStage
      <3>1. PICK t \in StageIds : t # 0 /\ t - 1 = j.s
        <4>1. j.s + 1 \in StageIds /\ j.s + 1 # 0 /\ (j.s + 1) - 1 = j.s
          BY <1>1, <1>2, <2>2
        <4> QED
          BY Zenon, <4>1
      <3>2. j.mb \in Mbs
        BY Zenon, <1>2, <1>6
      <3>3. Art("x", e, t - 1, j.mb) \in made
        BY ZenonT(20), <1>5, <3>1, <3>2
      <3> QED
        BY Zenon, <2>1, <2>2, <3>1, <3>3
    <2>3. CASE j.s = LastStage
      BY Zenon, <1>2, <1>3, <1>6, <2>1, <2>3
    <2> QED
      BY Zenon, <2>2, <2>3
  <1>7. CASE j.kind = "bwd"
    <2>1. a = Art("dW", e, j.s, j.mb) \/ (j.s # 0 /\ a = Art("dx", e, j.s, j.mb))
      BY ZenonT(20), <1>2, <1>7 DEF Outputs
    <2>2. CASE j.s # 0
      <3>1. j.s - 1 \in StageIds /\ j.s - 1 # LastStage /\ j.s - 1 + 1 = j.s
        BY <1>1, <1>2, <2>2
      <3>2. Art("dx", e, j.s - 1 + 1, j.mb) \in made
        BY Zenon, <1>2, <1>5, <1>7, <3>1
      <3> QED
        BY Zenon, <1>2, <1>4, <1>7, <2>1, <3>1, <3>2
    <2> QED
      BY Zenon, <1>2, <1>4, <1>7, <2>1, <2>2
  <1>8. CASE j.kind = "outer"
    BY Zenon, <1>2, <1>3, <1>8 DEF Outputs
  <1> QED
    BY Zenon, <1>2, <1>6, <1>7, <1>8 DEF AnyJob, Kinds

\* In training, an epoch that run_loop has left behind is complete: wait_epoch
\* may look at the tail's losses and the next weights only.
THEOREM TrainingEpochsComplete ==
  ASSUME Training
  PROVE  Spec => []BehindIsComplete
  <1>1. IInv => BehindIsComplete
    BY Zenon, SeenImpliesComplete DEF IInv, Shape
  <1> QED
    BY <1>1, Inductive, PTL

-----------------------------------------------------------------------------
(* The two bounds on a miner's work: its queue depth and its quota.        *)

\* Where run_loop is, and what it ranges over there.
Positions ==
    /\ pc \in {"discover", "emit", "add", "wait", "done", "no_room", "timeout"}
    /\ epoch \in Nat /\ next \in 1..(JobsPerEpoch + 1)
    /\ pc \in {"discover", "emit", "add", "wait"} => epoch \in Epochs
    /\ pc = "add" => next <= JobsPerEpoch
    /\ accounts \in SUBSET Hotkeys /\ DOMAIN manifest = Job

\* Steps that run_loop takes no part in.
Aside == Expire \/ (\E hk \in Hotkeys : Mining(hk) \/ Crash(hk)) \/ UNCHANGED vars

-----------------------------------------------------------------------------
\* Miners and time leave run_loop's state alone.
LEMMA AsideKeeps ==
  ASSUME Aside
  PROVE  UNCHANGED <<pc, epoch, next, accounts, inflight, jobs, released, queue, published, manifest>>
  <1>1. CASE Expire
    BY Zenon, <1>1 DEF Expire, manager
  <1>2. ASSUME NEW hk \in Hotkeys, Mining(hk) \/ Crash(hk)
        PROVE  UNCHANGED <<pc, epoch, next, accounts, inflight, jobs, released, queue, published, manifest>>
    BY Zenon, <1>2 DEF Mining, Take, Skip, PutOutput, PutReceipt, Start, Crash, manager, store
  <1>3. CASE UNCHANGED vars
    BY Zenon, <1>3 DEF vars, manager, store
  <1> QED
    BY Zenon, <1>1, <1>2, <1>3 DEF Aside

\* An index of an epoch names a job of that epoch.
LEMMA JobAtType ==
  ASSUME NEW e \in Epochs, NEW i \in 1..JobsPerEpoch
  PROVE  JobAt(e, i) \in Job /\ JobAt(e, i).e = e
  <1> DEFINE j == JobAt(e, i)
  <1>1. e \in Nat /\ 0 \in Mbs
    BY StreamingAssumption DEF Epochs, Mbs
  <1>2. j \in EpochJobs(e)
    BY Zenon DEF EpochJobs
  <1>3. j \in AnyJob /\ j.e = e /\ j.s \in StageIds /\ (j.kind # "outer" => j.mb \in Mbs)
    BY Zenon, <1>1, <1>2, EpochJobsShape
  <1>4. j.kind = "outer" => j.mb = 0
    BY Zenon DEF JobAt
  <1> HIDE DEF j
  <1>5. j \in Job
    BY Zenon, <1>1, <1>3, <1>4 DEF AnyJob, Kinds, Job
  <1> QED
    BY Zenon, <1>3, <1>5 DEF j

\* The number of jobs of an epoch.
LEMMA Sizes == Passes \in Nat /\ JobsPerEpoch \in Nat
  BY StreamingAssumption DEF Passes, JobsPerEpoch

\* run_loop starts in place ...
LEMMA PositionsInit == Init => Positions
  BY Sizes, StreamingAssumption DEF Init, Positions, Epochs

\* ... and every step leaves it in one.
LEMMA PositionsStep == Positions /\ [Next]_vars => Positions'
  <1> SUFFICES ASSUME Positions, [Next]_vars PROVE Positions'
    BY Zenon
  <1> USE DEF Positions
  <1>1. CASE Discover
    BY <1>1, Sizes DEF Discover, store
  <1>2. CASE EmitManifest
    BY Zenon, <1>2, Sizes DEF EmitManifest
  <1>3. CASE EmitAdd
    BY <1>3, Sizes DEF EmitAdd
  <1>4. CASE NoRoom
    BY Zenon, <1>4 DEF NoRoom
  <1>5. CASE StartWait
    BY Zenon, <1>5 DEF StartWait, store
  <1>6. CASE Poll
    BY Zenon, <1>6 DEF Poll, store
  <1>7. CASE EpochEnds
    BY <1>7, StreamingAssumption DEF EpochEnds, Epochs
  <1>8. CASE TimesOut
    BY Zenon, <1>8 DEF TimesOut
  <1>9. CASE Restart
    BY <1>9, Sizes, StreamingAssumption DEF Restart, store, Epochs
  <1>10. CASE Publish
    BY Zenon, <1>10 DEF Publish, manager
  <1>11. CASE Aside
    BY Zenon, <1>11, AsideKeeps
  <1> QED
    BY Zenon, <1>1, <1>2, <1>3, <1>4, <1>5, <1>6, <1>7, <1>8, <1>9, <1>10, <1>11 DEF Next, Orchestrate, Aside

-----------------------------------------------------------------------------
(* Queue depth.                                                            *)

\* A queue with at most one entry for a job, and the bound of the hotkey_filter.
OneEntry(q) == \A x, y \in q : x.job = y.job => x = y
Bounded(q) == IsFiniteSet(q) /\ OneEntry(q) /\ \A hk \in Hotkeys : Depth(q)[hk] <= MaxInflight

\* Between the choice of a miner and queue.add the miner keeps its room.
RoomKept ==
    pc = "add" => LET hk == manifest[JobAt(epoch, next)]
                  IN  hk \in Hotkeys /\ Depth(queue)[hk] < MaxInflight

DInv ==
    /\ inflight \in [Hotkeys -> Nat] /\ IsFiniteSet(jobs)
    /\ Bounded(queue) /\ Bounded(published) /\ RoomKept

\* Removing entries keeps a queue bounded.
LEMMA SubsetBounded ==
  ASSUME NEW q, Bounded(q), NEW r \in SUBSET q
  PROVE  Bounded(r)
  <1>1. IsFiniteSet(r)
    BY Zenon, FS_Subset DEF Bounded
  <1>2. ASSUME NEW hk \in Hotkeys PROVE Depth(r)[hk] <= MaxInflight
    <2> DEFINE S == {x \in q : x.hk = hk}  T == {x \in r : x.hk = hk}
    <2>1. IsFiniteSet(S) /\ T \in SUBSET S
      BY Zenon, FS_Subset DEF Bounded
    <2>2. Cardinality(T) <= Cardinality(S) /\ Cardinality(T) \in Nat /\ Cardinality(S) \in Nat
      BY Zenon, <2>1, FS_Subset, FS_CardinalityType
    <2>3. Depth(q)[hk] = Cardinality(S) /\ Depth(r)[hk] = Cardinality(T)
      BY Zenon DEF Depth
    <2>4. Depth(q)[hk] <= MaxInflight
      BY Zenon DEF Bounded
    <2> QED
      BY <2>2, <2>3, <2>4, SchedulerAssumption
  <1>3. OneEntry(r)
    BY Zenon DEF Bounded, OneEntry
  <1> QED
    BY Zenon, <1>1, <1>2, <1>3 DEF Bounded

\* add() leaves a queue with one entry for the job more, which is the miner's;
\* an entry that the job had goes away.
LEMMA AddIsOneEntry ==
  ASSUME NEW q, OneEntry(q), NEW j, NEW hk
  PROVE  /\ OneEntry(Add(q, j, hk))
         /\ \E z : z.hk = hk /\ Add(q, j, hk) \subseteq q \cup {z}
  <1>1. CASE j \in Queued(q)
    <2>1. PICK y \in q : y.job = j
      BY Zenon, <1>1 DEF Queued
    <2> DEFINE z == [job |-> j, hk |-> hk, at |-> y.at]
    <2>2. \A x \in q : x.job = j => x = y
      BY Zenon, <2>1 DEF OneEntry
    <2>3. Add(q, j, hk) = {IF x.job = j THEN z ELSE x : x \in q}
      BY Zenon, <1>1, <2>1, <2>2 DEF Add
    <2>4. Add(q, j, hk) \subseteq q \cup {z}
      BY Zenon, <2>3
    <2>5. ASSUME NEW x \in Add(q, j, hk) PROVE x = z \/ (x \in q /\ x.job # j)
      BY Zenon, <2>3
    <2>6. OneEntry(Add(q, j, hk))
      BY <2>5 DEF OneEntry
    <2>7. z.hk = hk
      BY Zenon
    <2> QED
      BY Zenon, <2>4, <2>6, <2>7
  <1>2. CASE j \notin Queued(q)
    <2> DEFINE z == [job |-> j, hk |-> hk, at |-> NextPlace(q)]
    <2>1. Add(q, j, hk) = q \cup {z}
      BY Zenon, <1>2 DEF Add
    <2>2. \A x \in q : x.job # j
      BY Zenon, <1>2 DEF Queued
    <2>3. OneEntry(Add(q, j, hk))
      BY <2>1, <2>2 DEF OneEntry
    <2>4. z.hk = hk
      BY Zenon
    <2> QED
      BY Zenon, <2>1, <2>3, <2>4
  <1> QED
    BY Zenon, <1>1, <1>2

\* add() for a miner with room keeps the queue bounded.
LEMMA AddBounded ==
  ASSUME NEW q, Bounded(q), NEW j, NEW hk \in Hotkeys, Depth(q)[hk] < MaxInflight
  PROVE  Bounded(Add(q, j, hk))
  <1>1. PICK z : z.hk = hk /\ Add(q, j, hk) \subseteq q \cup {z}
    BY Zenon, AddIsOneEntry DEF Bounded
  <1>2. IsFiniteSet(q \cup {z})
    BY Zenon, FS_AddElement DEF Bounded
  <1>3. IsFiniteSet(Add(q, j, hk)) /\ OneEntry(Add(q, j, hk))
    BY Zenon, <1>1, <1>2, FS_Subset, AddIsOneEntry DEF Bounded
  <1>4. ASSUME NEW g \in Hotkeys PROVE Depth(Add(q, j, hk))[g] <= MaxInflight
    <2> DEFINE S == {x \in q : x.hk = g}  T == {x \in Add(q, j, hk) : x.hk = g}
    <2>1. IsFiniteSet(S)
      BY Zenon, FS_Subset DEF Bounded
    <2>2. Depth(q)[g] = Cardinality(S) /\ Depth(Add(q, j, hk))[g] = Cardinality(T)
      BY Zenon DEF Depth
    <2>3. Cardinality(S) \in Nat /\ Cardinality(S) <= MaxInflight
      BY Zenon, <2>1, <2>2, FS_CardinalityType DEF Bounded
    <2>4. CASE g = hk
      <3>1. T \in SUBSET (S \cup {z})
        BY Zenon, <1>1
      <3>2. IsFiniteSet(S \cup {z}) /\ Cardinality(S \cup {z}) <= Cardinality(S) + 1
        <4> HIDE DEF S
        <4>1. /\ IsFiniteSet(S \cup {z})
              /\ Cardinality(S \cup {z}) = IF z \in S THEN Cardinality(S) ELSE Cardinality(S) + 1
          BY Zenon, <2>1, FS_AddElement
        <4> QED
          BY <2>3, <4>1
      <3>3. Cardinality(T) <= Cardinality(S \cup {z}) /\ Cardinality(T) \in Nat /\ Cardinality(S \cup {z}) \in Nat
        BY Zenon, <3>1, <3>2, FS_Subset, FS_CardinalityType
      <3>4. Cardinality(S) < MaxInflight
        BY Zenon, <2>2, <2>4
      <3> QED
        BY <2>2, <2>3, <3>2, <3>3, <3>4, SchedulerAssumption
    <2>5. CASE g # hk
      <3>1. T \in SUBSET S
        BY Zenon, <1>1, <2>5
      <3>2. Cardinality(T) <= Cardinality(S) /\ Cardinality(T) \in Nat
        BY Zenon, <2>1, <3>1, FS_Subset, FS_CardinalityType
      <3> QED
        BY <2>2, <2>3, <3>2, SchedulerAssumption
    <2> QED
      BY Zenon, <2>4, <2>5
  <1> QED
    BY Zenon, <1>3, <1>4 DEF Bounded

\* The quota book's counters, for a finite set of jobs.
LEMMA PerHotkeyType ==
  ASSUME NEW js, IsFiniteSet(js)
  PROVE  PerHotkey(js) \in [Hotkeys -> Nat]
  BY Zenon, HeldType DEF PerHotkey, Held

\* The first queue is empty.
LEMMA DInvInit == Init => DInv
  <1> SUFFICES ASSUME Init PROVE DInv
    BY Zenon
  <1>1. IsFiniteSet({})
    BY Zenon, FS_EmptySet
  <1>2. Bounded({})
    <2>1. \A hk \in Hotkeys : {x \in {} : x.hk = hk} = {}
      BY Zenon
    <2>2. \A hk \in Hotkeys : Depth({})[hk] = 0
      BY Zenon, <2>1, FS_EmptySet DEF Depth
    <2> QED
      BY <1>1, <2>2, SchedulerAssumption DEF Bounded, OneEntry
  <1> QED
    BY Zenon, <1>1, <1>2 DEF Init, DInv, RoomKept

\* Every step keeps the queue bounded.
LEMMA DInvStep == Positions /\ DInv /\ [Next]_vars => DInv'
  <1> SUFFICES ASSUME Positions, DInv, [Next]_vars PROVE DInv'
    BY Zenon
  <1>1. /\ inflight \in [Hotkeys -> Nat] /\ IsFiniteSet(jobs)
        /\ Bounded(queue) /\ Bounded(published) /\ RoomKept
    BY Zenon DEF DInv
  <1>2. ASSUME NEW js \in SUBSET jobs
        PROVE  Release(inflight, PerHotkey(js)) \in [Hotkeys -> Nat]
    <2>1. IsFiniteSet(js)
      BY Zenon, <1>1, FS_Subset
    <2> QED
      BY Zenon, <1>1, <2>1, PerHotkeyType, ReleaseType
  <1>3. Unreleased \in SUBSET jobs /\ Drained(queue) \in SUBSET queue
    BY Zenon DEF Unreleased, Drained
  <1>4. Bounded(Drained(queue))
    BY Zenon, <1>1, <1>3, SubsetBounded
  <1>5. CASE Discover
    BY Zenon, <1>1, <1>5 DEF Discover, store, DInv, RoomKept
  <1>6. CASE EmitManifest
    <2> DEFINE hk == PickWorker(Pickable, inflight)  j == JobAt(epoch, next)
    <2>1. hk \in Hotkeys /\ Depth(queue)[hk] < MaxInflight
      BY Zenon, <1>1, <1>6, PickIsCandidate DEF EmitManifest, Pickable, Positions
    <2>2. j \in Job
      BY <1>6, JobAtType DEF EmitManifest, Positions
    <2>3. manifest'[j] = hk /\ JobAt(epoch', next') = j
      BY Zenon, <1>6, <2>2 DEF EmitManifest, Positions
    <2>4. inflight' \in [Hotkeys -> Nat]
      BY <1>1, <1>6, <2>1 DEF EmitManifest, Reserve
    <2>5. queue' = queue /\ published' = published /\ jobs' = jobs
      BY Zenon, <1>6 DEF EmitManifest
    <2>6. RoomKept'
      BY Zenon, <2>1, <2>3, <2>5 DEF RoomKept
    <2> QED
      BY Zenon, <1>1, <2>4, <2>5, <2>6 DEF DInv
  <1>7. CASE EmitAdd
    <2>1. Bounded(queue')
      BY Zenon, <1>1, <1>7, AddBounded DEF EmitAdd, RoomKept
    <2>2. IsFiniteSet(jobs')
      BY Zenon, <1>1, <1>7, FS_AddElement DEF EmitAdd
    <2> QED
      BY Zenon, <1>1, <1>7, <2>1, <2>2 DEF EmitAdd, DInv, RoomKept
  <1>8. CASE NoRoom
    BY Zenon, <1>1, <1>8 DEF NoRoom, DInv, RoomKept
  <1>9. CASE StartWait
    BY Zenon, <1>1, <1>9 DEF StartWait, store, DInv, RoomKept
  <1>10. CASE Poll
    <2>1. inflight' \in [Hotkeys -> Nat]
      BY Zenon, <1>2, <1>3, <1>10 DEF Poll
    <2> QED
      BY Zenon, <1>1, <1>4, <1>10, <2>1 DEF Poll, store, DInv, RoomKept
  <1>11. CASE EpochEnds
    <2>1. inflight' \in [Hotkeys -> Nat]
      BY Zenon, <1>2, <1>3, <1>11 DEF EpochEnds
    <2>2. Bounded(queue') /\ Bounded(published') /\ jobs' = jobs /\ pc' # "add"
      BY Zenon, <1>1, <1>4, <1>11 DEF EpochEnds
    <2> QED
      BY Zenon, <1>1, <2>1, <2>2 DEF DInv, RoomKept
  <1>12. CASE TimesOut
    <2>1. inflight' \in [Hotkeys -> Nat]
      BY Zenon, <1>1, <1>2, <1>3, <1>12 DEF TimesOut
    <2> QED
      BY Zenon, <1>1, <1>12, <2>1 DEF TimesOut, DInv, RoomKept
  <1>13. CASE Restart
    <2>1. inflight' \in [Hotkeys -> Nat] /\ jobs' = {} /\ queue' = published /\ published' = published /\ pc' # "add"
      BY Zenon, <1>13 DEF Restart, store
    <2> QED
      BY Zenon, <1>1, <2>1, FS_EmptySet DEF DInv, RoomKept
  <1>14. CASE Publish
    <2>1. published' = queue /\ UNCHANGED <<pc, epoch, next, inflight, jobs, queue, manifest>>
      BY Zenon, <1>14 DEF Publish, manager
    <2> QED
      BY Zenon, <1>1, <2>1 DEF DInv, RoomKept
  <1>15. CASE Aside
    <2>1. UNCHANGED <<pc, epoch, next, inflight, jobs, queue, published, manifest>>
      BY Zenon, <1>15, AsideKeeps
    <2> QED
      BY Zenon, <1>1, <2>1 DEF DInv, RoomKept
  <1> QED
    BY Zenon, <1>5, <1>6, <1>7, <1>8, <1>9, <1>10, <1>11, <1>12, <1>13, <1>14, <1>15
       DEF Next, Orchestrate, Aside

\* No miner ever has more than max_inflight_per_hotkey entries in the queue:
\* not after a restart from the published snapshot, and not when a job that
\* is still queued is emitted again for another miner.
THEOREM DepthStaysBounded == Spec => []DepthBounded
  <1>1. DInv => DepthBounded
    BY Zenon DEF DInv, Bounded, DepthBounded
  <1> QED
    BY <1>1, PositionsInit, PositionsStep, DInvInit, DInvStep, PTL DEF Spec

-----------------------------------------------------------------------------
(* The quota.                                                              *)

\* The fields of a job, by its place in emit_epoch.
LEMMA JobAtFields ==
  ASSUME NEW e \in Epochs, NEW i \in 1..JobsPerEpoch, NEW n \in Nat, n = i - 1
  PROVE  /\ n < Passes =>
               /\ JobAt(e, i).kind = "fwd"
               /\ JobAt(e, i).s = n % Stages /\ JobAt(e, i).mb = n \div Stages
         /\ n \in Passes..(2 * Passes - 1) =>
               /\ JobAt(e, i).kind = "bwd"
               /\ JobAt(e, i).s = LastStage - (n % Stages)
               /\ JobAt(e, i).mb = (n - Passes) \div Stages
         /\ n >= 2 * Passes =>
               JobAt(e, i).kind = "outer" /\ JobAt(e, i).s = n - 2 * Passes
  <1>1. CASE n < Passes
    <2>1. n \notin Passes..(2 * Passes - 1)
      BY <1>1, Sizes
    <2>2. JobAt(e, i) = [kind |-> "fwd", e |-> e, s |-> n % Stages, mb |-> n \div Stages]
      BY Zenon, <1>1, <2>1 DEF JobAt
    <2> QED
      BY <1>1, <2>2, Sizes
  <1>2. CASE n \in Passes..(2 * Passes - 1)
    <2>1. ~(n < Passes)
      BY <1>2, Sizes
    <2>2. JobAt(e, i) = [kind |-> "bwd", e |-> e, s |-> LastStage - (n % Stages),
                         mb |-> (n - Passes) \div Stages]
      BY Zenon, <1>2, <2>1 DEF JobAt
    <2> QED
      BY <1>2, <2>1, <2>2, Sizes
  <1>3. CASE n >= 2 * Passes
    <2>1. ~(n < Passes) /\ n \notin Passes..(2 * Passes - 1)
      BY <1>3, Sizes
    <2>2. JobAt(e, i) = [kind |-> "outer", e |-> e, s |-> n - 2 * Passes, mb |-> 0]
      BY Zenon, <2>1 DEF JobAt
    <2> QED
      BY <2>1, <2>2, Sizes
  <1> QED
    BY Zenon, <1>1, <1>2, <1>3, Sizes

\* No job comes twice in emit_epoch.
LEMMA JobAtOnce ==
  ASSUME NEW e \in Epochs, NEW i \in 1..JobsPerEpoch, NEW k \in 1..JobsPerEpoch,
         JobAt(e, i) = JobAt(e, k)
  PROVE  i = k
  <1>1. PICK n \in Nat : n = i - 1
    BY Sizes
  <1>2. PICK m \in Nat : m = k - 1
    BY Sizes
  <1>3. n < Passes \/ n \in Passes..(2 * Passes - 1) \/ n >= 2 * Passes
    BY Sizes
  <1>4. m < Passes \/ m \in Passes..(2 * Passes - 1) \/ m >= 2 * Passes
    BY Sizes
  <1>5. Passes \in Nat /\ Stages \in Nat \ {0} /\ LastStage \in Int
    BY Sizes, StreamingAssumption DEF LastStage
  <1>6. CASE n < Passes
    <2>1. n % Stages = m % Stages /\ n \div Stages = m \div Stages
      BY <1>1, <1>2, <1>4, <1>6, JobAtFields
    <2>2. n - 0 = n /\ m - 0 = m /\ 0 <= n /\ 0 <= m
      OBVIOUS
    <2>3. n = m
      BY Zenon, <1>5, <2>1, <2>2, SameNumber
    <2> QED
      BY <1>1, <1>2, <2>3
  <1>7. CASE n \in Passes..(2 * Passes - 1)
    <2>1. m \in Passes..(2 * Passes - 1)
      BY Zenon, <1>1, <1>2, <1>4, <1>7, JobAtFields
    <2>2. /\ LastStage - (n % Stages) = LastStage - (m % Stages)
          /\ (n - Passes) \div Stages = (m - Passes) \div Stages
      BY <1>1, <1>2, <1>7, <2>1, JobAtFields
    <2>3. n % Stages = m % Stages
      <3>1. n % Stages \in Int /\ m % Stages \in Int
        BY <1>5
      <3> QED
        BY <1>5, <2>2, <3>1
    <2>4. Passes <= n /\ Passes <= m
      BY <1>5, <1>7, <2>1
    <2>5. n = m
      BY Zenon, <1>5, <2>2, <2>3, <2>4, SameNumber
    <2> QED
      BY <1>1, <1>2, <2>5
  <1>8. CASE n >= 2 * Passes
    <2>1. m >= 2 * Passes
      BY Zenon, <1>1, <1>2, <1>4, <1>8, JobAtFields
    <2>2. n - 2 * Passes = m - 2 * Passes
      BY Zenon, <1>1, <1>2, <1>8, <2>1, JobAtFields
    <2> QED
      BY <1>1, <1>2, <1>5, <2>2
  <1> QED
    BY Zenon, <1>3, <1>6, <1>7, <1>8

\* Giving back the jobs P of S leaves the quota of the others.
LEMMA ReleasePart ==
  ASSUME NEW S, IsFiniteSet(S), NEW P \in SUBSET S
  PROVE  Release(PerHotkey(S), PerHotkey(P)) = PerHotkey(S \ P)
  <1>1. Release(Held(manifest, S), Held(manifest, P)) = Held(manifest, S \ P)
    BY Zenon, ReleaseHeld
  <1> QED
    BY Zenon, <1>1 DEF PerHotkey, Held

\* Nothing is reserved for no jobs.
LEMMA NoneReserved == PerHotkey({}) = [hk \in Hotkeys |-> 0]
  BY Zenon, HeldNone DEF PerHotkey, Held

\* The reservations, with what run_loop knows of the jobs of other epochs: a
\* new epoch starts without jobs, and gets each of its jobs once.
QInv ==
    /\ QuotaIsExact /\ IsFiniteSet(jobs)
    /\ \A j \in jobs \cup released : j \in Job /\ j.e <= epoch
    /\ pc \in {"discover", "done"} => \A j \in jobs \cup released : j.e < epoch
    /\ pc \in {"emit", "add"} =>
          /\ \A j \in released : j.e < epoch
          /\ \A j \in jobs : j.e = epoch => \E i \in 1..(next - 1) : j = JobAt(epoch, i)

\* At the start nothing is reserved.
LEMMA QInvInit == Init => QInv
  <1> SUFFICES ASSUME Init PROVE QInv
    BY Zenon
  <1>1. QuotaIsExact
    BY Zenon DEF Init, QuotaIsExact
  <1> QED
    BY Zenon, <1>1, FS_EmptySet DEF Init, QInv

\* What QuotaIsExact says, place by place: m are the manifests, U the jobs
\* that hold quota and j is the job being emitted.
QuotaAt(p, m, U, j) ==
    CASE p \in {"discover", "done"} -> [hk \in Hotkeys |-> 0]
      [] p = "add" -> Held(m, U \cup {j})
      [] OTHER -> Held(m, U)

QuotaCase(p, m, U, j) ==
    /\ p \in {"discover", "done"} => QuotaAt(p, m, U, j) = [hk \in Hotkeys |-> 0]
    /\ p = "add" => QuotaAt(p, m, U, j) = Held(m, U \cup {j})
    /\ p \notin {"discover", "done", "add"} => QuotaAt(p, m, U, j) = Held(m, U)

\* QuotaAt, by place.
LEMMA QuotaCases ==
  ASSUME NEW p, NEW m, NEW U, NEW j
  PROVE  QuotaCase(p, m, U, j)
  <1>1. CASE p \in {"discover", "done"}
    <2>1. p # "add"
      BY Zenon, <1>1
    <2> QED
      BY Zenon, <1>1, <2>1 DEF QuotaAt, QuotaCase
  <1>2. CASE p = "add"
    <2>1. p \notin {"discover", "done"}
      BY Zenon, <1>2
    <2> QED
      BY Zenon, <1>2, <2>1 DEF QuotaAt, QuotaCase
  <1>3. CASE p \notin {"discover", "done", "add"}
    BY Zenon, <1>3 DEF QuotaAt, QuotaCase
  <1> QED
    BY Zenon, <1>1, <1>2, <1>3

\* The quota the manager holds now and after a step, in these terms.
LEMMA QuotaNow ==
  /\ pc \in {"discover", "done"} => (QuotaIsExact <=> inflight = [hk \in Hotkeys |-> 0])
  /\ pc = "add" => (QuotaIsExact <=> inflight = Held(manifest, Unreleased \cup {JobAt(epoch, next)}))
  /\ pc \notin {"discover", "done", "add"} => (QuotaIsExact <=> inflight = Held(manifest, Unreleased))
  /\ pc' \in {"discover", "done"} => (QuotaIsExact' <=> inflight' = [hk \in Hotkeys |-> 0])
  /\ pc' = "add" =>
       (QuotaIsExact' <=> inflight' = Held(manifest', Unreleased' \cup {JobAt(epoch', next')}))
  /\ pc' \notin {"discover", "done", "add"} =>
       (QuotaIsExact' <=> inflight' = Held(manifest', Unreleased'))
  <1>1. QuotaIsExact <=> inflight = QuotaAt(pc, manifest, Unreleased, JobAt(epoch, next))
    BY Zenon DEF QuotaIsExact, QuotaAt, PerHotkey, Held
  <1>2. QuotaIsExact' <=> inflight' = QuotaAt(pc', manifest', Unreleased', JobAt(epoch', next'))
    BY Zenon DEF QuotaIsExact, QuotaAt, PerHotkey, Held, JobAt, Passes, LastStage
  <1>3. QuotaCase(pc, manifest, Unreleased, JobAt(epoch, next))
    BY Zenon, QuotaCases
  <1>4. QuotaCase(pc', manifest', Unreleased', JobAt(epoch', next'))
    BY Zenon, QuotaCases
  <1> QED
    BY Zenon, <1>1, <1>2, <1>3, <1>4 DEF QuotaCase

\* Every step keeps the quota exact.
LEMMA QInvStep == Positions /\ QInv /\ [Next]_vars => QInv'
  <1> SUFFICES ASSUME Positions, QInv, [Next]_vars PROVE QInv'
    BY Zenon
  <1> DEFINE j == JobAt(epoch, next)  U == Unreleased  Zero == [hk \in Hotkeys |-> 0]
  <1>1. /\ QuotaIsExact /\ IsFiniteSet(jobs)
        /\ IsFiniteSet(U) /\ U \in SUBSET jobs /\ U \in SUBSET Job
    BY Zenon, FS_Subset DEF QInv, Unreleased
  <1>2. epoch \in Nat /\ next \in Nat
    BY DEF Positions
  <1>3. ASSUME NEW k \in jobs \cup released PROVE k \in Job /\ k.e \in Nat /\ k.e <= epoch
    BY DEF QInv, Job, Epochs
  <1>4. CASE Discover
    <2>1. U = {} /\ inflight = Zero
      BY <1>1, <1>4, <1>2, <1>3, QuotaNow DEF Discover, QInv, Unreleased
    <2>2. pc' = "emit" /\ manifest' = manifest /\ Unreleased' = U /\ inflight' = inflight
      BY Zenon, <1>4 DEF Discover, store, Unreleased
    <2>3. inflight' = Held(manifest', Unreleased')
      BY Zenon, <2>1, <2>2, NoneReserved DEF PerHotkey, Held
    <2>4. QuotaIsExact'
      BY Zenon, <2>2, <2>3, QuotaNow
    <2> QED
      BY <1>1, <1>2, <1>3, <1>4, <2>4 DEF Discover, store, QInv
  <1>5. CASE EmitManifest
    <2> DEFINE hk == PickWorker(Pickable, inflight)
    <2>1. next \in 1..JobsPerEpoch /\ epoch \in Epochs /\ j \in Job /\ j.e = epoch
      BY <1>5, Sizes, JobAtType DEF EmitManifest, Positions
    <2>2. j \notin jobs
      <3> SUFFICES ASSUME j \in jobs PROVE FALSE
        BY Zenon
      <3>1. PICK i \in 1..(next - 1) : j = JobAt(epoch, i)
        BY Zenon, <1>5, <2>1 DEF EmitManifest, QInv
      <3>2. i \in 1..JobsPerEpoch /\ i # next
        BY <2>1, Sizes
      <3> QED
        BY Zenon, <2>1, <3>1, <3>2, JobAtOnce
    <2>3. inflight = Held(manifest, U)
      BY Zenon, <1>1, <1>5, QuotaNow DEF EmitManifest
    <2>4. hk \in Hotkeys
      <3>1. inflight \in [Hotkeys -> Nat]
        BY Zenon, <1>1, <2>3, PerHotkeyType DEF PerHotkey, Held
      <3> QED
        BY Zenon, <1>5, <3>1, PickIsCandidate DEF EmitManifest, Pickable, Positions
    <2>5. manifest' = [manifest EXCEPT ![j] = hk] /\ inflight' = Reserve(inflight, hk)
            /\ pc' = "add" /\ UNCHANGED <<epoch, next, jobs, released>>
      BY Zenon, <1>5 DEF EmitManifest
    <2>6. manifest'[j] = hk /\ \A k \in U : manifest'[k] = manifest[k]
      BY Zenon, <1>1, <2>1, <2>2, <2>5 DEF Positions
    <2>7. Unreleased' = U /\ JobAt(epoch', next') = j
      BY Zenon, <2>5 DEF Unreleased
    <2>8. inflight' = Held(manifest', Unreleased' \cup {JobAt(epoch', next')})
      <3>1. j \notin U
        BY Zenon, <1>1, <2>2
      <3> HIDE DEF U, j, hk
      <3>2. Held(manifest', U \cup {j}) = Reserve(Held(manifest, U), hk)
        BY <1>1, <2>4, <2>6, <3>1, ReserveOne
      <3> QED
        BY Zenon, <2>3, <2>5, <2>7, <3>2
    <2>9. QuotaIsExact'
      BY Zenon, <2>5, <2>8, QuotaNow
    <2> QED
      BY Zenon, <1>1, <1>3, <1>5, <2>5, <2>9 DEF EmitManifest, QInv
  <1>6. CASE EmitAdd
    <2>1. next \in 1..JobsPerEpoch /\ epoch \in Epochs /\ j \in Job /\ j.e = epoch
      BY <1>6, Sizes, JobAtType DEF EmitAdd, Positions
    <2>2. jobs' = jobs \cup {j} /\ pc' = "emit" /\ next' = next + 1
            /\ UNCHANGED <<epoch, inflight, released, manifest>>
      BY Zenon, <1>6 DEF EmitAdd
    <2>3. j \notin released
      BY <1>2, <1>6, <2>1 DEF EmitAdd, QInv
    <2>4. Unreleased' = U \cup {j}
      BY Zenon, <2>1, <2>2, <2>3 DEF Unreleased
    <2>5. QuotaIsExact'
      BY Zenon, <1>1, <1>6, <2>2, <2>4, QuotaNow DEF EmitAdd
    <2>6. \A k \in jobs' : k.e = epoch => \E i \in 1..(next' - 1) : k = JobAt(epoch, i)
      <3> SUFFICES ASSUME NEW k \in jobs', k.e = epoch
                   PROVE  \E i \in 1..next : k = JobAt(epoch, i)
        BY <1>2, <2>2
      <3>1. CASE k = j
        BY <2>1, <3>1
      <3>2. CASE k \in jobs
        BY <1>2, <1>6, <3>2 DEF EmitAdd, QInv
      <3> QED
        BY Zenon, <2>2, <3>1, <3>2
    <2>7. IsFiniteSet(jobs')
      BY Zenon, <1>1, <2>2, FS_AddElement
    <2> HIDE DEF j
    <2>8. \A k \in jobs' \cup released' : k \in Job /\ k.e <= epoch'
      BY <1>2, <1>3, <2>1, <2>2
    <2>9. \A k \in released' : k.e < epoch'
      BY Zenon, <1>6, <2>2 DEF EmitAdd, QInv
    <2>10. \A k \in jobs' : k.e = epoch' => \E i \in 1..(next' - 1) : k = JobAt(epoch', i)
      BY Zenon, <2>2, <2>6
    <2> QED
      BY Zenon, <2>2, <2>5, <2>7, <2>8, <2>9, <2>10 DEF QInv
  <1>7. CASE NoRoom
    <2>1. pc = "emit" /\ pc' = "no_room" /\ UNCHANGED <<epoch, next, inflight, jobs, released, manifest>>
      BY Zenon, <1>7 DEF NoRoom
    <2>2. Unreleased' = U
      BY Zenon, <2>1 DEF Unreleased
    <2>3. QuotaIsExact'
      BY Zenon, <1>1, <2>1, <2>2, QuotaNow
    <2> QED
      BY Zenon, <1>1, <1>3, <2>1, <2>3 DEF QInv
  <1>8. CASE StartWait
    <2>1. pc = "emit" /\ pc' = "wait" /\ released' = {} /\ UNCHANGED <<epoch, next, inflight, jobs, manifest>>
      BY Zenon, <1>8 DEF StartWait, store
    <2>2. Unreleased' = U
      BY <1>2, <1>3, <2>1 DEF Unreleased, QInv
    <2>3. QuotaIsExact'
      BY Zenon, <1>1, <2>1, <2>2, QuotaNow
    <2> QED
      BY Zenon, <1>1, <1>3, <2>1, <2>3 DEF QInv
  <1>9. ASSUME NEW P \in SUBSET U, pc = "wait", pc' \in {"wait", "timeout"},
               released' = released \cup P, inflight' = Release(inflight, PerHotkey(P)),
               UNCHANGED <<epoch, next, jobs, manifest>>
        PROVE  QInv'
    <2>1. Unreleased' = U \ P
      BY Zenon, <1>9 DEF Unreleased
    <2>2. inflight = PerHotkey(U)
      BY Zenon, <1>1, <1>9, QuotaNow DEF PerHotkey, Held
    <2> HIDE DEF U
    <2>3. inflight' = PerHotkey(U \ P)
      BY Zenon, <1>1, <1>9, <2>2, ReleasePart
    <2>4. inflight' = Held(manifest', Unreleased')
      BY Zenon, <1>9, <2>1, <2>3 DEF PerHotkey, Held
    <2>5. QuotaIsExact'
      BY Zenon, <1>9, <2>4, QuotaNow
    <2>6. \A k \in P : k \in jobs
      BY Zenon, <1>1, <1>9
    <2> QED
      BY Zenon, <1>1, <1>3, <1>9, <2>5, <2>6 DEF QInv
  <1>10. CASE Poll
    <2> DEFINE P == {k \in Unreleased : Outputs(k) \subseteq made}
    <2>1. P \in SUBSET U /\ pc = "wait" /\ pc' = "wait" /\ released' = released \cup P
            /\ inflight' = Release(inflight, PerHotkey(P)) /\ UNCHANGED <<epoch, next, jobs, manifest>>
      BY Zenon, <1>10 DEF Poll, store
    <2> HIDE DEF P, U
    <2> QED
      BY Zenon, <1>9, <2>1
  <1>11. CASE EpochEnds
    <2>1. /\ pc = "wait" /\ pc' \in {"done", "discover"} /\ epoch' = epoch + 1
          /\ inflight' = Release(inflight, PerHotkey(U)) /\ released' = released \cup U
          /\ jobs' = jobs
      BY Zenon, <1>11 DEF EpochEnds
    <2>2. inflight = PerHotkey(U)
      BY Zenon, <1>1, <2>1, QuotaNow DEF PerHotkey, Held
    <2>3. inflight' = PerHotkey(U \ U)
      <3> HIDE DEF U
      <3> QED
        BY Zenon, <1>1, <2>1, <2>2, ReleasePart
    <2>4. inflight' = Zero
      <3>1. U \ U = {}
        BY Zenon
      <3> QED
        BY Zenon, <2>3, <3>1, NoneReserved
    <2>5. QuotaIsExact'
      BY Zenon, <2>1, <2>4, QuotaNow
    <2>6. \A k \in jobs' \cup released' : k \in Job /\ k.e < epoch' /\ k.e <= epoch'
      BY <1>1, <1>2, <1>3, <2>1
    <2> QED
      BY Zenon, <1>1, <2>1, <2>5, <2>6 DEF QInv
  <1>12. CASE TimesOut
    <2>1. CASE pc = "wait"
      <3>1. pc' = "timeout" /\ released' = released \cup U
              /\ inflight' = Release(inflight, PerHotkey(U)) /\ UNCHANGED <<epoch, next, jobs, manifest>>
        BY Zenon, <1>12, <2>1 DEF TimesOut
      <3> HIDE DEF U
      <3> QED
        BY Zenon, <1>9, <2>1, <3>1
    <2>2. CASE pc = "discover"
      <3>1. pc' = "timeout" /\ UNCHANGED <<released, inflight, epoch, next, jobs, manifest>>
        BY Zenon, <1>12, <2>2 DEF TimesOut
      <3>2. U = {} /\ Unreleased' = U
        BY <1>2, <1>3, <2>2, <3>1 DEF Unreleased, QInv
      <3>3. inflight' = Held(manifest', Unreleased')
        BY <1>1, <2>2, <3>1, <3>2, QuotaNow, NoneReserved DEF PerHotkey, Held
      <3>4. QuotaIsExact'
        BY Zenon, <3>1, <3>3, QuotaNow
      <3> QED
        BY Zenon, <1>1, <1>3, <3>1, <3>4 DEF QInv
    <2> QED
      BY Zenon, <1>12, <2>1, <2>2 DEF TimesOut
  <1>13. CASE Restart
    <2>1. pc' = "discover" /\ inflight' = Zero /\ jobs' = {} /\ released' = {}
      BY Zenon, <1>13 DEF Restart
    <2>2. QuotaIsExact'
      BY Zenon, <2>1, QuotaNow
    <2> QED
      BY Zenon, <2>1, <2>2, FS_EmptySet DEF QInv
  <1>14. CASE Publish \/ Aside
    <2>1. UNCHANGED <<pc, epoch, next, inflight, jobs, released, manifest>>
      BY Zenon, <1>14, AsideKeeps DEF Publish, manager
    <2>2. Unreleased' = U
      BY Zenon, <2>1 DEF Unreleased
    <2>3. QuotaIsExact'
      BY Zenon, <1>1, <2>1, <2>2, QuotaNow
    <2> QED
      BY Zenon, <1>1, <1>3, <2>1, <2>3 DEF QInv
  <1> QED
    BY Zenon, <1>4, <1>5, <1>6, <1>7, <1>8, <1>10, <1>11, <1>12, <1>13, <1>14
       DEF Next, Orchestrate, Aside

\* Every account's inflight_cu is the number of its jobs of the current epoch
\* whose reservation has not been given back, at every step of every run: the
\* quota leaks nothing and is never given back twice, whatever crashes,
\* restarts or times out.
THEOREM QuotaStaysExact == Spec => []QuotaIsExact
  <1>1. QInv => QuotaIsExact
    BY Zenon DEF QInv
  <1> QED
    BY <1>1, PositionsInit, PositionsStep, QInvInit, QInvStep, PTL DEF Spec

-----------------------------------------------------------------------------
(* The stress emitter.  Its variables carry a prefix.                      *)

CONSTANTS MaxIterations, MaxFaults

VARIABLES
    st_pc, st_iteration, st_stage, st_accounts, st_inflight, st_jobs, st_queue,
    st_published, st_fresh, st_receipts, st_doing, st_expired, st_restarts

Stress == INSTANCE StressEmitter WITH
    pc <- st_pc, iteration <- st_iteration, stage <- st_stage, accounts <- st_accounts,
    inflight <- st_inflight, jobs <- st_jobs, queue <- st_queue, published <- st_published,
    fresh <- st_fresh, receipts <- st_receipts, doing <- st_doing, expired <- st_expired,
    restarts <- st_restarts

\* The types that the emitter's steps rest on.
EmitterTypes ==
    /\ st_pc \in {"loop", "emit"}
    /\ st_iteration \in Nat /\ st_iteration <= MaxIterations
    /\ st_stage \in Nat /\ st_restarts \in Nat
    /\ st_pc = "emit" => st_iteration >= 1
    /\ st_accounts \subseteq Hotkeys /\ st_inflight \in [Hotkeys -> Nat]
    /\ st_jobs \in [Stress!Job -> Hotkeys \cup {0}]
    /\ st_queue \in [Stress!Job -> Hotkeys \cup {0}]
    /\ st_published \in [Stress!Job -> Hotkeys \cup {0}]
    /\ st_fresh \subseteq st_receipts

\* Until a restart, the queue holds past epochs and, of the one being emitted,
\* exactly the stages already emitted, which are in self.jobs as well.
InOrder ==
    st_restarts = 0 =>
        /\ \A j \in Stress!Job : st_queue[j] # 0 =>
              /\ j[1] < st_iteration
              /\ st_pc = "emit" /\ Stress!InEpoch(j) => j[2] < st_stage
        /\ st_pc = "emit" => \A j \in Stress!Job :
              Stress!InEpoch(j) /\ j[2] < st_stage => st_queue[j] # 0 /\ st_jobs[j] # 0

EmitterInv == EmitterTypes /\ InOrder /\ Stress!NoOrphanStage

\* A job is an epoch and a stage; so is the one it reads from.
LEMMA JobPair ==
    ASSUME Stress!Configured, NEW j \in Stress!Job
    PROVE  /\ j = <<j[1], j[2]>> /\ j[1] \in Nat /\ j[2] \in Nat
           /\ j[1] < MaxIterations /\ j[2] < Stages
           /\ j[2] > 0 => <<j[1], j[2] - 1>> \in Stress!Job
PROOF BY DEF Stress!Configured, Stress!Job

\* And an epoch and a stage are a job.
LEMMA PairJob ==
    ASSUME Stress!Configured, NEW e \in Nat, NEW s \in Nat, e < MaxIterations, s < Stages
    PROVE  <<e, s>> \in Stress!Job
PROOF BY DEF Stress!Configured, Stress!Job

\* pick_worker returns a hotkey.
LEMMA StressPick ==
    ASSUME EmitterTypes, Stress!Pickable # {}
    PROVE  Stress!PickWorker(Stress!Pickable, st_inflight) \in Hotkeys
PROOF
<1>1. Stress!Pickable = Candidates(st_accounts, st_inflight, Stress!Depth)
    BY Zenon DEF Stress!Pickable, Stress!Candidates, Candidates, Stress!AvailableQuota, AvailableQuota
<1>2. Stress!PickWorker(Stress!Pickable, st_inflight) = PickWorker(Stress!Pickable, st_inflight)
    BY Zenon DEF Stress!PickWorker, PickWorker, Stress!SortsBefore, SortsBefore, Stress!AtLeastOne, AtLeastOne
<1> QED BY <1>1, <1>2, PickIsCandidate, Zenon DEF EmitterTypes

\* The emitter starts with nothing emitted.
LEMMA EmitterInit == Stress!Configured /\ Stress!Init => EmitterInv
PROOF
<1> SUFFICES ASSUME Stress!Configured, Stress!Init PROVE EmitterInv
    BY Zenon
<1>1. EmitterTypes
    BY DEF Stress!Configured, Stress!Init, Stress!NoJobs, EmitterTypes
<1>2. InOrder /\ Stress!NoOrphanStage
    BY Zenon DEF Stress!Init, Stress!NoJobs, InOrder, Stress!NoOrphanStage
<1> QED BY <1>1, <1>2, Zenon DEF EmitterInv

\* Every step keeps the types.
LEMMA EmitterTypesStep ==
    ASSUME Stress!Configured, EmitterTypes, [Stress!Next]_(Stress!vars) PROVE EmitterTypes'
PROOF
<1> DEFINE D == [Stress!Job -> Hotkeys \cup {0}]
<1>1. CASE Stress!Iterate
    <2>1. st_queue' \in D
        BY <1>1, Zenon DEF Stress!Iterate, EmitterTypes
    <2> QED BY <1>1, <2>1 DEF Stress!Iterate, EmitterTypes, Stress!Configured
<1>2. CASE Stress!Emit
    <2> DEFINE hk == Stress!PickWorker(Stress!Pickable, st_inflight)
               j == <<Stress!Epoch, st_stage>>
    <2>1. hk \in Hotkeys
        BY <1>2, StressPick, Zenon DEF Stress!Emit
    <2>2. /\ st_inflight' = [st_inflight EXCEPT ![hk] = @ + 1]
          /\ st_jobs' = [st_jobs EXCEPT ![j] = hk] /\ st_queue' = [st_queue EXCEPT ![j] = hk]
          /\ st_stage' = st_stage + 1
          /\ UNCHANGED <<st_pc, st_iteration, st_accounts, st_published, st_fresh, st_receipts, st_restarts>>
        BY <1>2, Zenon DEF Stress!Emit, Stress!Reserve
    <2> HIDE DEF hk, j
    <2>3. st_jobs' \in D /\ st_queue' \in D
        BY <2>1, <2>2, Zenon DEF EmitterTypes
    <2>4. st_inflight' \in [Hotkeys -> Nat]
        BY <2>1, <2>2 DEF EmitterTypes
    <2> QED BY <2>2, <2>3, <2>4 DEF EmitterTypes
<1>3. CASE Stress!BackOff
    <2>1. st_jobs' \in D /\ st_queue' \in D
        BY <1>3, Zenon DEF Stress!BackOff, EmitterTypes
    <2> QED BY Zenon, <1>3, <2>1 DEF Stress!BackOff, EmitterTypes
<1>4. CASE Stress!Emitted
    <2>1. st_jobs' \in D
        BY <1>4, Zenon DEF Stress!Emitted, EmitterTypes
    <2>2. st_inflight' \in [Hotkeys -> Nat]
        <3> DEFINE count == [hk \in Hotkeys |-> Cardinality({j \in Stress!Job : Stress!InEpoch(j) /\ st_jobs[j] = hk})]
        <3>1. IsFiniteSet(Stress!Job)
            <4>1. IsFiniteSet(0..(MaxIterations - 1)) /\ IsFiniteSet(0..(Stages - 1))
                BY FS_Interval DEF Stress!Configured
            <4> QED BY <4>1, FS_Product, Zenon DEF Stress!Job
        <3>2. ASSUME NEW hk \in Hotkeys PROVE count[hk] \in Nat
            <4> DEFINE T == {j \in Stress!Job : Stress!InEpoch(j) /\ st_jobs[j] = hk}
            <4>1. T \subseteq Stress!Job
                BY Zenon
            <4>2. Cardinality(T) \in Nat
                BY <4>1, <3>1, FS_Subset, FS_CardinalityType, Zenon
            <4> QED BY <4>2, Zenon
        <3>3. st_inflight' = Stress!Release(st_inflight, count)
            BY <1>4, Zenon DEF Stress!Emitted, Stress!Cardinality, Cardinality
        <3> HIDE DEF count
        <3> QED BY <3>2, <3>3 DEF EmitterTypes, Stress!Release
    <2> QED BY Zenon, <1>4, <2>1, <2>2 DEF Stress!Emitted, EmitterTypes
<1>5. CASE Stress!Publish
    BY <1>5, Zenon DEF Stress!Publish, Stress!loop, EmitterTypes
<1>6. CASE Stress!Restart
    <2>1. /\ st_jobs' = Stress!NoJobs /\ st_queue' = st_published /\ st_published' = st_published
          /\ st_fresh' \subseteq st_receipts /\ st_receipts' = st_receipts
          /\ st_inflight' = [hk \in Hotkeys |-> 0] /\ st_accounts' = {}
          /\ st_pc' = "loop" /\ st_iteration' = 0 /\ st_stage' = 0 /\ st_restarts' = st_restarts + 1
        BY <1>6, Zenon DEF Stress!Restart
    <2>2. st_jobs' \in D
        BY <2>1, Zenon DEF Stress!NoJobs
    <2> QED BY <2>1, <2>2 DEF EmitterTypes, Stress!Configured
<1>7. CASE Stress!Expire
    BY <1>7, Zenon DEF Stress!Expire, Stress!loop, EmitterTypes
<1>8. ASSUME NEW hk \in Hotkeys, Stress!Take(hk) PROVE EmitterTypes'
    BY <1>8, Zenon DEF Stress!Take, Stress!loop, EmitterTypes
<1>9. ASSUME NEW hk \in Hotkeys, Stress!Finish(hk) PROVE EmitterTypes'
    BY <1>9, Zenon DEF Stress!Finish, Stress!loop, EmitterTypes
<1>10. CASE UNCHANGED Stress!vars
    BY <1>10, Zenon DEF Stress!vars, Stress!loop, EmitterTypes
<1> QED BY <1>1, <1>2, <1>3, <1>4, <1>5, <1>6, <1>7, <1>8, <1>9, <1>10, Zenon DEF Stress!Next

\* A step that keeps the queue, self.jobs and the loop's place, and loses no
\* receipt and no deadline that has passed.
LEMMA NothingLost ==
    ASSUME EmitterInv, EmitterTypes', UNCHANGED <<st_pc, st_iteration, st_stage, st_jobs, st_queue, st_restarts>>,
           st_receipts \subseteq st_receipts', st_expired \subseteq st_expired'
    PROVE  EmitterInv'
PROOF
<1>1. InOrder'
    BY Zenon DEF EmitterInv, InOrder, Stress!InEpoch, Stress!Epoch
<1>2. Stress!NoOrphanStage'
    BY Zenon DEF EmitterInv, Stress!NoOrphanStage
<1> QED BY <1>1, <1>2, Zenon DEF EmitterInv

\* Every step keeps the queue in order and leaves no orphan.
LEMMA EmitterStep ==
    ASSUME Stress!Configured, EmitterInv, [Stress!Next]_(Stress!vars) PROVE EmitterInv'
PROOF
<1>0. EmitterTypes /\ EmitterTypes'
    BY EmitterTypesStep, Zenon DEF EmitterInv
<1> DEFINE up(j) == <<j[1], j[2] - 1>>
<1>1. CASE Stress!Iterate
    <2>1. /\ st_queue' = [j \in Stress!Job |-> IF j \in st_fresh \cup st_expired THEN 0 ELSE st_queue[j]]
          /\ st_iteration' = st_iteration + 1 /\ st_stage' = 0
          /\ UNCHANGED <<st_receipts, st_expired, st_restarts>>
        BY <1>1, Zenon DEF Stress!Iterate
    <2>2. InOrder'
        <3>1. ASSUME st_restarts = 0, NEW j \in Stress!Job, st_queue'[j] # 0
              PROVE  j[1] < st_iteration' /\ ~(Stress!InEpoch(j)')
            <4>1. st_queue[j] # 0
                BY <2>1, <3>1, Zenon
            <4>2. j[1] < st_iteration /\ j[1] \in Nat /\ st_iteration \in Nat
                BY <3>1, <4>1, <1>0, JobPair, Zenon DEF EmitterInv, InOrder, EmitterTypes
            <4> QED BY <4>2, <2>1 DEF Stress!InEpoch, Stress!Epoch
        <3>2. ASSUME NEW j \in Stress!Job PROVE ~(j[2] < st_stage')
            <4>1. j[2] \in Nat
                BY JobPair, Zenon
            <4> QED BY <4>1, <2>1
        <3> QED BY <2>1, <3>1, <3>2, Zenon DEF InOrder
    <2>3. Stress!NoOrphanStage'
        <3> SUFFICES ASSUME st_restarts = 0, NEW j \in Stress!Job, st_queue'[j] # 0, j[2] > 0
                     PROVE  st_queue'[up(j)] # 0 \/ up(j) \in st_receipts' \cup st_expired'
            BY <2>1, Zenon DEF Stress!NoOrphanStage
        <3>1. st_queue[j] # 0
            BY <2>1, Zenon
        <3>2. up(j) \in Stress!Job
            BY JobPair, Zenon
        <3>3. st_queue[up(j)] # 0 \/ up(j) \in st_receipts \cup st_expired
            BY <3>1, Zenon DEF EmitterInv, Stress!NoOrphanStage
        <3> HIDE DEF up
        <3> QED BY <2>1, <3>2, <3>3, <1>0, Zenon DEF EmitterTypes
    <2> QED BY <1>0, <2>2, <2>3, Zenon DEF EmitterInv
<1>2. CASE Stress!Emit
    <2> DEFINE hk == Stress!PickWorker(Stress!Pickable, st_inflight)
               new == <<Stress!Epoch, st_stage>>
    <2>1. hk # 0
        BY <1>0, <1>2, StressPick, Zenon DEF Stress!Emit, Stress!Configured
    <2>2. /\ st_jobs' = [st_jobs EXCEPT ![new] = hk] /\ st_queue' = [st_queue EXCEPT ![new] = hk]
          /\ st_expired' = st_expired \ {new} /\ st_stage' = st_stage + 1
          /\ st_pc = "emit" /\ st_stage < Stages
          /\ UNCHANGED <<st_pc, st_iteration, st_receipts, st_restarts>>
        BY <1>2, Zenon DEF Stress!Emit
    <2>3. /\ Stress!Epoch \in Nat /\ Stress!Epoch < MaxIterations /\ Stress!Epoch' = Stress!Epoch
          /\ st_stage \in Nat
        BY <2>2, <1>0 DEF EmitterTypes, Stress!Epoch, Stress!Configured
    <2>4. new \in Stress!Job
        BY <2>2, <2>3, PairJob, Zenon
    <2>5. new[1] = Stress!Epoch /\ new[2] = st_stage
        BY Zenon
    <2>6. ASSUME NEW j \in Stress!Job, j[1] = Stress!Epoch, j[2] = st_stage PROVE j = new
        BY <2>6, JobPair, Zenon
    <2> HIDE DEF hk, new
    <2>7. /\ st_queue'[new] # 0 /\ st_jobs'[new] # 0
          /\ \A j \in Stress!Job : j # new => st_queue'[j] = st_queue[j] /\ st_jobs'[j] = st_jobs[j]
        BY <2>1, <2>2, <2>4, <1>0, Zenon DEF EmitterTypes
    <2>8. InOrder'
        <3> SUFFICES ASSUME st_restarts = 0, NEW j \in Stress!Job
                     PROVE  /\ st_queue'[j] # 0 => j[1] < st_iteration /\ (Stress!InEpoch(j) => j[2] < st_stage')
                            /\ Stress!InEpoch(j) /\ j[2] < st_stage' => st_queue'[j] # 0 /\ st_jobs'[j] # 0
            BY <2>2, <2>3, Zenon DEF InOrder, Stress!InEpoch
        <3>1. CASE j = new
            <4>1. j[1] < st_iteration /\ j[2] < st_stage'
                BY <3>1, <2>2, <2>3, <2>5, <1>0 DEF Stress!Epoch, EmitterTypes
            <4> QED BY <3>1, <4>1, <2>7, Zenon
        <3>2. CASE j # new
            <4>1. st_queue'[j] = st_queue[j] /\ st_jobs'[j] = st_jobs[j]
                BY <3>2, <2>7, Zenon
            <4>2. /\ st_queue[j] # 0 => j[1] < st_iteration /\ (Stress!InEpoch(j) => j[2] < st_stage)
                  /\ Stress!InEpoch(j) /\ j[2] < st_stage => st_queue[j] # 0 /\ st_jobs[j] # 0
                BY <2>2, Zenon DEF EmitterInv, InOrder
            <4>3. Stress!InEpoch(j) => j[2] # st_stage
                BY <3>2, <2>6, Zenon DEF Stress!InEpoch
            <4>4. j[2] \in Nat
                BY JobPair, Zenon
            <4>5. /\ j[2] < st_stage => j[2] < st_stage'
                  /\ j[2] < st_stage' => j[2] < st_stage \/ j[2] = st_stage
                BY <4>4, <2>2, <2>3
            <4> QED BY <4>1, <4>2, <4>3, <4>5, Zenon
        <3> QED BY Zenon, <3>1, <3>2
    <2>9. Stress!NoOrphanStage'
        <3> SUFFICES ASSUME st_restarts = 0, NEW j \in Stress!Job, st_queue'[j] # 0, j[2] > 0
                     PROVE  st_queue'[up(j)] # 0 \/ up(j) \in st_receipts' \cup st_expired'
            BY <2>2, Zenon DEF Stress!NoOrphanStage
        <3>1. up(j) \in Stress!Job
            BY JobPair, Zenon
        <3>2. st_queue[up(j)] # 0 \/ up(j) \in st_receipts \cup st_expired
            <4>1. CASE j = new
                <5>1. up(j)[1] = Stress!Epoch /\ up(j)[2] < st_stage
                    BY <4>1, <2>3, <2>5
                <5> HIDE DEF up
                <5> QED BY <5>1, <3>1, <2>2, Zenon DEF EmitterInv, InOrder, Stress!InEpoch
            <4>2. CASE j # new
                BY <4>2, <2>7, Zenon DEF EmitterInv, Stress!NoOrphanStage
            <4> QED BY Zenon, <4>1, <4>2
        <3> HIDE DEF up
        <3> QED BY <3>1, <3>2, <2>2, <2>7, Zenon
    <2> QED BY <1>0, <2>8, <2>9, Zenon DEF EmitterInv
<1>3. CASE Stress!BackOff
    <2>1. /\ st_queue' = [j \in Stress!Job |-> IF st_jobs[j] # 0 /\ Stress!InEpoch(j) THEN 0 ELSE st_queue[j]]
          /\ st_pc = "emit" /\ st_pc' = "loop"
          /\ UNCHANGED <<st_iteration, st_receipts, st_expired, st_restarts>>
        BY <1>3, Zenon DEF Stress!BackOff
    <2>2. ASSUME st_restarts = 0, NEW j \in Stress!Job
          PROVE  st_queue'[j] = IF Stress!InEpoch(j) THEN 0 ELSE st_queue[j]
        BY <2>1, <2>2, Zenon DEF EmitterInv, InOrder
    <2>3. InOrder'
        BY <2>1, <2>2, Zenon DEF EmitterInv, InOrder
    <2>4. Stress!NoOrphanStage'
        <3> SUFFICES ASSUME st_restarts = 0, NEW j \in Stress!Job, st_queue'[j] # 0, j[2] > 0
                     PROVE  st_queue'[up(j)] # 0 \/ up(j) \in st_receipts' \cup st_expired'
            BY <2>1, Zenon DEF Stress!NoOrphanStage
        <3>1. up(j) \in Stress!Job /\ up(j)[1] = j[1]
            BY Zenon, JobPair
        <3>2. ~Stress!InEpoch(j) /\ st_queue[j] # 0
            BY <2>2, Zenon
        <3>3. st_queue[up(j)] # 0 \/ up(j) \in st_receipts \cup st_expired
            BY <3>2, Zenon DEF EmitterInv, Stress!NoOrphanStage
        <3>4. ~Stress!InEpoch(up(j))
            BY <3>1, <3>2, Zenon DEF Stress!InEpoch
        <3> HIDE DEF up
        <3> QED BY <2>1, <2>2, <3>1, <3>3, <3>4, Zenon
    <2> QED BY <1>0, <2>3, <2>4, Zenon DEF EmitterInv
<1>4. CASE Stress!Emitted
    <2>1. /\ st_pc' = "loop" /\ UNCHANGED <<st_iteration, st_queue, st_receipts, st_expired, st_restarts>>
        BY <1>4, Zenon DEF Stress!Emitted
    <2>2. InOrder'
        BY <2>1, Zenon DEF EmitterInv, InOrder
    <2>3. Stress!NoOrphanStage'
        BY <2>1, Zenon DEF EmitterInv, Stress!NoOrphanStage
    <2> QED BY <1>0, <2>2, <2>3, Zenon DEF EmitterInv
<1>5. CASE Stress!Publish
    BY <1>0, <1>5, NothingLost, Zenon DEF Stress!Publish, Stress!loop
<1>6. CASE Stress!Restart
    <2>1. st_restarts' = st_restarts + 1 /\ st_restarts \in Nat
        BY <1>0, <1>6, Zenon DEF Stress!Restart, EmitterTypes
    <2>2. st_restarts' # 0
        BY <2>1
    <2> QED BY <1>0, <2>2, Zenon DEF EmitterInv, InOrder, Stress!NoOrphanStage
<1>7. CASE Stress!Expire
    BY <1>0, <1>7, NothingLost, Zenon DEF Stress!Expire, Stress!loop
<1>8. ASSUME NEW hk \in Hotkeys, Stress!Take(hk) PROVE EmitterInv'
    BY <1>0, <1>8, NothingLost, Zenon DEF Stress!Take, Stress!loop
<1>9. ASSUME NEW hk \in Hotkeys, Stress!Finish(hk) PROVE EmitterInv'
    BY <1>0, <1>9, NothingLost, Zenon DEF Stress!Finish, Stress!loop
<1>10. CASE UNCHANGED Stress!vars
    BY <1>0, <1>10, NothingLost, Zenon DEF Stress!vars, Stress!loop
<1> QED BY <1>1, <1>2, <1>3, <1>4, <1>5, <1>6, <1>7, <1>8, <1>9, <1>10, Zenon DEF Stress!Next

\* The stress mode leaves no orphan stage in the queue, for any miners, epochs
\* and stages.
THEOREM StressLeavesNoOrphan ==
    ASSUME Stress!Configured PROVE Stress!Spec => []Stress!NoOrphanStage
PROOF
<1>1. Stress!Init => EmitterInv
    BY Zenon, EmitterInit
<1>2. EmitterInv /\ [Stress!Next]_(Stress!vars) => EmitterInv'
    BY Zenon, EmitterStep
<1>3. EmitterInv => Stress!NoOrphanStage
    BY Zenon DEF EmitterInv
<1> QED BY <1>1, <1>2, <1>3, PTL DEF Stress!Spec
=============================================================================
