----------------------- MODULE OrchestratorQueue_proofs -----------------------
(***************************************************************************)
(* Proofs about the queue, for any number of jobs, of writers of any kind, *)
(* of faults and of mutations.                                             *)
(***************************************************************************)
EXTENDS OrchestratorQueue, TLAPS

------------------------------------------------------------------------------
\* Type correctness: one lemma per group of actions.

\* The empty queue and the frame of a thread outside flush() have their types.
LEMMA EmptyQueue == Empty \in Queue /\ IdleFrame \in Frame
BY DEF Empty, Queue, IdleFrame, Frame

\* Marking the running flushes of a process as raced keeps its frames in their type.
LEMMA RacedType == ASSUME TypeOK, NEW w \in Writers
                   PROVE  Raced(w) \in [Threads -> Frame]
<1> SUFFICES ASSUME NEW t \in Threads
             PROVE  /\ frame[w][t] \in Frame
                    /\ [frame[w][t] EXCEPT !.raced = TRUE] \in Frame
    BY Zenon DEF Raced
<1>1. frame[w][t] \in Frame
    BY DEF TypeOK
<1>2. \A f \in Frame : [f EXCEPT !.raced = TRUE] \in Frame
    BY ZenonT(20) DEF Frame
<1> QED BY <1>1, <1>2

\* A mutator (add, remove, replay, prune_expired) keeps every variable in its type.
LEMMA MutateType ==
    ASSUME TypeOK, NEW w \in Writers, NEW q \in Queue, Mutate(w, q),
           gone' \in [Writers -> SUBSET Jobs]
    PROVE  TypeOK'
<1> USE DEF Mutate
<1>1. frame' \in [Writers -> [Threads -> Frame]]
    BY RacedType DEF TypeOK
<1>2. outstanding' \in [Writers -> Queue]
    BY DEF TypeOK
<1>3. dirty' \in [Writers -> BOOLEAN] /\ pending' \in [Writers -> BOOLEAN]
    BY DEF TypeOK
<1>4. mutations' \in Nat
    BY DEF TypeOK
<1> QED BY <1>1, <1>2, <1>3, <1>4 DEF TypeOK

\* A thread that moves to a frame leaves every frame in its type.
LEMMA GotoType ==
    ASSUME TypeOK, NEW w \in Writers, NEW t \in Threads, NEW f \in Frame, Goto(w, t, f)
    PROVE  frame' \in [Writers -> [Threads -> Frame]]
BY DEF Goto, TypeOK

\* The first locked section of flush() keeps the numbers and the frames in their types.
LEMMA SnapshotType ==
    ASSUME TypeOK, NEW w \in Writers, NEW t \in Threads, NEW again \in BOOLEAN,
           Snapshot(w, t, again)
    PROVE  /\ snapshot_id' \in [Writers -> Nat]
           /\ frame' \in [Writers -> [Threads -> Frame]]
<1> DEFINE f == [pc |-> "put", retry |-> again, q |-> outstanding[w],
                 sid |-> snapshot_id[w] + 1, etag |-> etag[w], raced |-> FALSE]
<1>1. f \in Frame
    BY DEF TypeOK, Frame
<1>2. Goto(w, t, f)
    BY DEF Snapshot
<1> HIDE DEF f
<1>3. frame' \in [Writers -> [Threads -> Frame]]
    BY <1>1, <1>2, GotoType
<1>4. snapshot_id' \in [Writers -> Nat]
    BY DEF Snapshot, TypeOK
<1> QED BY <1>3, <1>4

\* What a thread carries through flush() has its type.
LEMMA FrameType ==
    ASSUME TypeOK, NEW w \in Writers, NEW t \in Threads
    PROVE  /\ frame[w][t] \in Frame
           /\ frame[w][t].q \in Queue
           /\ frame[w][t].sid \in Nat
           /\ frame[w][t].etag \in Nat
           /\ frame[w][t].raced \in BOOLEAN
BY DEF TypeOK, Frame

\* A PUT of a snapshot leaves a well-formed queue object in the bucket.
LEMMA WriteType ==
    ASSUME TypeOK, NEW w \in Writers, NEW t \in Threads, Write(w, frame[w][t])
    PROVE  bucket' \in [etag : Nat, sid : Nat, q : Queue, by : Writers \cup {None}]
BY FrameType DEF Write, TypeOK

\* Removing or pruning any set of jobs keeps every variable in its type.
LEMMA DropType ==
    ASSUME TypeOK, NEW w \in Writers, NEW js \in SUBSET Jobs, Drop(w, js)
    PROVE  TypeOK'
<1> DEFINE q == [j \in Jobs |-> IF j \in js THEN None ELSE outstanding[w][j]]
<1>1. q \in Queue
    BY DEF TypeOK, Queue
<1>2. gone' \in [Writers -> SUBSET Jobs]
    BY DEF Drop, TypeOK
<1>3. Mutate(w, q)
    BY DEF Drop
<1> QED BY <1>1, <1>2, <1>3, MutateType

\* Every call of a mutator keeps every variable in its type.
LEMMA MutateStepType == ASSUME TypeOK, NEW w \in Writers, MutateStep(w) PROVE TypeOK'
<1>1. ASSUME NEW j \in Jobs, NEW d \in Deadlines, Add(w, j, d) PROVE TypeOK'
    <2> DEFINE q == [outstanding[w] EXCEPT ![j] = [attempt |-> 0, deadline |-> d]]
    <2>1. q \in Queue
        BY ConstantsAssumption DEF TypeOK, Queue, Entry
    <2>2. Mutate(w, q) /\ gone' \in [Writers -> SUBSET Jobs]
        BY <1>1 DEF Add, TypeOK
    <2> QED BY <2>1, <2>2, MutateType
<1>2. ASSUME NEW js \in SUBSET Jobs, RemoveMany(w, js) PROVE TypeOK'
    BY <1>2, DropType DEF RemoveMany
<1>3. ASSUME NEW j \in Jobs, NEW a \in 1..MaxAttempt, NEW d \in Deadlines, Replay(w, j, a, d)
      PROVE  TypeOK'
    <2> DEFINE q == [outstanding[w] EXCEPT ![j] = [attempt |-> a, deadline |-> d]]
    <2>1. q \in Queue
        BY ConstantsAssumption DEF TypeOK, Queue, Entry
    <2>2. Mutate(w, q) /\ gone' \in [Writers -> SUBSET Jobs]
        BY <1>3 DEF Replay, TypeOK
    <2> QED BY <2>1, <2>2, MutateType
<1>4. ASSUME PruneExpired(w) PROVE TypeOK'
    BY <1>4, DropType DEF PruneExpired, Expired, Ids
<1> QED BY <1>1, <1>2, <1>3, <1>4 DEF MutateStep

\* Every step of flush(), failures included, keeps every variable in its type.
LEMMA FlushStepType ==
    ASSUME TypeOK, NEW w \in Writers, NEW t \in Threads,
           FlushStep(w, t) \/ BucketError(w, t)
    PROVE  TypeOK'
<1> DEFINE f == frame[w][t]
<1>1. f \in Frame /\ f.q \in Queue /\ f.sid \in Nat /\ f.etag \in Nat /\ f.raced \in BOOLEAN
    BY FrameType
<1>3. [f EXCEPT !.pc = "write"] \in Frame
    BY <1>1 DEF Frame
<1>4. bucket.etag \in Nat /\ bucket.sid \in Nat /\ bucket.q \in Queue
    BY ZenonT(20) DEF TypeOK
<1>2. [f EXCEPT !.pc = "finish", !.etag = bucket.etag + 1] \in Frame
    <2>1. \A e \in Nat : [f EXCEPT !.pc = "finish", !.etag = e] \in Frame
        BY ZenonT(20), <1>1 DEF Frame
    <2>2. bucket.etag + 1 \in Nat
        BY <1>4
    <2> QED BY ZenonT(20), <2>1, <2>2
<1>5. /\ [IdleFrame EXCEPT !.pc = "reread"] \in Frame
      /\ [IdleFrame EXCEPT !.pc = "resnap"] \in Frame
      /\ \A q \in Queue, n, e \in Nat :
            [IdleFrame EXCEPT !.pc = "merge", !.q = q, !.sid = n, !.etag = e] \in Frame
    BY ZenonT(20), EmptyQueue DEF Frame
<1>6. CASE PutOk(w, t)
    <2>1. frame' \in [Writers -> [Threads -> Frame]]
        BY <1>2, <1>6, GotoType DEF PutOk
    <2>2. Write(w, f)
        BY <1>6 DEF PutOk
    <2> QED BY <1>6, <2>1, <2>2, WriteType DEF PutOk, TypeOK, local, budget, history
<1>7. CASE PutCheck(w, t)
    <2>1. frame' \in [Writers -> [Threads -> Frame]]
        BY <1>3, <1>7, GotoType DEF PutCheck
    <2> QED BY <1>7, <2>1 DEF PutCheck, TypeOK, local, budget, history
<1>8. CASE PutWrite(w, t)
    <2>1. frame' \in [Writers -> [Threads -> Frame]]
        BY <1>2, <1>8, GotoType DEF PutWrite
    <2>2. Write(w, f)
        BY <1>8 DEF PutWrite
    <2> QED BY <1>8, <2>1, <2>2, WriteType DEF PutWrite, TypeOK, local, budget, history
<1>9. CASE PutConflict(w, t)
    <2>1. frame' \in [Writers -> [Threads -> Frame]]
        BY ZenonT(20), <1>5, <1>9, GotoType, EmptyQueue DEF PutConflict, Abort
    <2> QED BY ZenonT(20), <1>9, <2>1 DEF PutConflict, TypeOK, local, budget, history
<1>10. CASE BucketError(w, t)
    <2>1. frame' \in [Writers -> [Threads -> Frame]]
        BY ZenonT(20), <1>10, GotoType, EmptyQueue DEF BucketError, Abort
    <2>2. bucket' = bucket \/ Write(w, f)
        BY <1>10 DEF BucketError
    <2>3. bucket' \in [etag : Nat, sid : Nat, q : Queue, by : Writers \cup {None}]
        BY <2>2, WriteType DEF TypeOK
    <2>4. faults' \in Nat
        BY <1>10 DEF BucketError, TypeOK
    <2> QED BY ZenonT(20), <1>10, <2>1, <2>3, <2>4 DEF BucketError, TypeOK, local, history
<1>11. CASE Reread(w, t)
    <2>1. frame' \in [Writers -> [Threads -> Frame]]
        BY ZenonT(20), <1>4, <1>5, <1>11, GotoType DEF Reread
    <2> QED BY ZenonT(20), <1>11, <2>1 DEF Reread, TypeOK, local, budget, history
<1>12. CASE Merge(w, t)
    <2> DEFINE q == Merged(outstanding[w], f.q)
               fs == IF q = outstanding[w] THEN frame[w] ELSE Raced(w)
    <2>1. q \in Queue
        BY <1>1 DEF Merged, Queue, TypeOK
    <2>2. outstanding' \in [Writers -> Queue]
        BY <1>12, <2>1 DEF Merge, TypeOK
    <2>3. snapshot_id' \in [Writers -> Nat] /\ etag' \in [Writers -> Nat]
        BY <1>1, <1>12 DEF Merge, TypeOK, Max2
    <2>4. fs \in [Threads -> Frame]
        BY RacedType DEF TypeOK
    <2>5. frame' = [frame EXCEPT ![w] = [fs EXCEPT ![t] = [IdleFrame EXCEPT !.pc = "resnap"]]]
        BY ZenonT(20), <1>12 DEF Merge
    <2> HIDE DEF fs
    <2>6. frame' \in [Writers -> [Threads -> Frame]]
        BY ZenonT(20), <1>5, <2>4, <2>5 DEF TypeOK
    <2> QED BY <1>12, <2>2, <2>3, <2>6 DEF Merge, TypeOK, budget, history
<1>13. CASE Resnapshot(w, t)
    <2>1. /\ snapshot_id' \in [Writers -> Nat]
          /\ frame' \in [Writers -> [Threads -> Frame]]
        BY ZenonT(20), <1>13, SnapshotType DEF Resnapshot
    <2> QED BY <1>13, <2>1 DEF Resnapshot, Snapshot, TypeOK, budget, history
<1>14. CASE Finish(w, t)
    <2>1. frame' \in [Writers -> [Threads -> Frame]]
        BY <1>14, GotoType, EmptyQueue DEF Finish
    <2>2. etag' \in [Writers -> Nat] /\ dirty' \in [Writers -> BOOLEAN]
        BY <1>1, <1>14 DEF Finish, TypeOK
    <2>3. pending' \in [Writers -> BOOLEAN] /\ lost' \in [Writers -> BOOLEAN]
        BY <1>1, <1>14 DEF Finish, TypeOK
    <2> QED BY <1>14, <2>1, <2>2, <2>3 DEF Finish, TypeOK, budget
<1> QED BY <1>6, <1>7, <1>8, <1>9, <1>10, <1>11, <1>12, <1>13, <1>14 DEF FlushStep

\* Starting, stopping and crashing keep every variable in its type.
LEMMA ProcessStepType == ASSUME TypeOK, NEW w \in Writers, ProcessStep(w) PROVE TypeOK'
<1>1. CASE Start(w)
    <2>1. bucket.etag \in Nat /\ bucket.sid \in Nat /\ bucket.q \in Queue
        BY DEF TypeOK
    <2>2. /\ outstanding' \in [Writers -> Queue]
          /\ snapshot_id' \in [Writers -> Nat]
          /\ etag' \in [Writers -> Nat]
        BY <1>1, <2>1 DEF Start, TypeOK
    <2>3. /\ mode' \in [Writers -> {"down", "up", "stopping", "final"}]
          /\ gone' \in [Writers -> SUBSET Jobs]
        BY <1>1 DEF Start, TypeOK
    <2>4. /\ dirty' \in [Writers -> BOOLEAN]
          /\ pending' \in [Writers -> BOOLEAN]
          /\ lost' \in [Writers -> BOOLEAN]
        BY <1>1 DEF Start, TypeOK
    <2> QED BY <1>1, <2>2, <2>3, <2>4 DEF Start, TypeOK, budget
<1>2. CASE StopRequest(w)
    <2>1. mode' \in [Writers -> {"down", "up", "stopping", "final"}]
        BY <1>2 DEF StopRequest, TypeOK
    <2> QED BY <1>2, <2>1 DEF StopRequest, TypeOK, local, budget, history
<1>3. CASE StopFlush(w)
    <2>1. mode' \in [Writers -> {"down", "up", "stopping", "final"}]
        BY <1>3 DEF StopFlush, TypeOK
    <2>2. CASE Snapshot(w, "main", FALSE)
        <3>1. /\ snapshot_id' \in [Writers -> Nat]
              /\ frame' \in [Writers -> [Threads -> Frame]]
            BY ZenonT(20), <2>2, SnapshotType DEF Threads
        <3> QED BY <1>3, <2>1, <2>2, <3>1 DEF StopFlush, Snapshot, TypeOK, budget, history
    <2>3. CASE UNCHANGED <<bucket, local, frame, history>>
        BY <1>3, <2>1, <2>3 DEF StopFlush, TypeOK, local, budget, history
    <2> QED BY ZenonT(20), <1>3, <2>2, <2>3 DEF StopFlush
<1>4. ASSUME Down(w), faults' \in Nat PROVE TypeOK'
    <2>1. mode' \in [Writers -> {"down", "up", "stopping", "final"}]
        BY <1>4 DEF Down, TypeOK
    <2>2. frame' \in [Writers -> [Threads -> Frame]]
        BY ZenonT(20), <1>4, EmptyQueue DEF Down, TypeOK
    <2> QED BY <1>4, <2>1, <2>2 DEF Down, TypeOK, local, history
<1>5. CASE Exit(w)
    BY ZenonT(20), <1>4, <1>5 DEF Exit, TypeOK
<1>6. CASE Crash(w)
    BY <1>4, <1>6 DEF Crash, TypeOK
<1> QED BY <1>1, <1>2, <1>3, <1>5, <1>6 DEF ProcessStep

\* Every step keeps every variable in its type.
LEMMA NextType == ASSUME TypeOK, [Next]_vars PROVE TypeOK'
<1>1. CASE UNCHANGED vars
    BY ZenonT(20), <1>1 DEF TypeOK, vars, local, budget, history
<1>2. CASE Tick
    BY SMTT(40), <1>2 DEF Tick, TypeOK, local, history
<1>3. ASSUME NEW w \in Writers, BackgroundFlush(w) \/ ForceFlush(w) PROVE TypeOK'
    <2>1. \E t \in Threads : Snapshot(w, t, FALSE)
        BY ZenonT(20), <1>3 DEF BackgroundFlush, ForceFlush, Threads
    <2>2. /\ snapshot_id' \in [Writers -> Nat]
          /\ frame' \in [Writers -> [Threads -> Frame]]
        BY ZenonT(20), <2>1, SnapshotType
    <2>3. mode' = mode /\ now' = now /\ faults' = faults
        BY ZenonT(20), <1>3 DEF BackgroundFlush, ForceFlush, budget
    <2>4. mutations' = mutations \/ mutations' = mutations + 1
        BY ZenonT(20), <1>3 DEF BackgroundFlush, ForceFlush, budget
    <2> QED BY SMTT(40), <2>1, <2>2, <2>3, <2>4 DEF Snapshot, TypeOK, history
<1> QED BY ZenonT(20), <1>1, <1>2, <1>3, MutateStepType, FlushStepType, ProcessStepType DEF Next

\* Every variable starts in its type.
LEMMA InitType == Init => TypeOK
BY EmptyQueue DEF Init, TypeOK

\* Type correctness of the queue for every value of the constants: whatever the
\* processes, faults and interleavings, the published object and every process's
\* in-memory queue stay maps from job ids to entries, with natural etags and ids.
THEOREM TypeCorrect == Spec => []TypeOK
BY InitType, NextType, PTL DEF Spec

------------------------------------------------------------------------------
\* The safety of conditional PUTs.

\* What EtagMeansSeen says of one thread.
ThreadInv(w, t) ==
    /\ FrameInv(w, t)
    /\ frame[w][t].pc # "write"
    /\ mode[w] = "down" => frame[w][t].pc = "idle"

\* The invariant, taken apart into processes and threads, and put together again.
LEMMA SeenIntro ==
    ASSUME \A w \in Writers : WriterInv(w)' /\ \A t \in Threads : ThreadInv(w, t)'
    PROVE  EtagMeansSeen'
BY DEF EtagMeansSeen, ThreadInv

\* The same in the other direction.
LEMMA SeenElim ==
    ASSUME AtomicPut, EtagMeansSeen, NEW w \in Writers
    PROVE  WriterInv(w) /\ \A t \in Threads : ThreadInv(w, t)
BY ZenonT(20) DEF EtagMeansSeen, ThreadInv

\* A step that leaves the bucket alone, and forgets nothing that a process
\* accounts for, keeps what is known of a thread that stands still.
LEMMA ThreadKept ==
    ASSUME TypeOK, TypeOK', NEW w \in Writers, NEW t \in Threads, ThreadInv(w, t),
           bucket' = bucket,
           mode'[w] = "down" => mode[w] = "down",
           snapshot_id[w] <= snapshot_id'[w],
           gone[w] \subseteq gone'[w],
           Accounted(w) \subseteq Accounted(w)',
           frame'[w][t].pc = frame[w][t].pc,
           frame'[w][t].etag = frame[w][t].etag,
           frame'[w][t].sid = frame[w][t].sid,
           frame'[w][t].q = frame[w][t].q
    PROVE  ThreadInv(w, t)'
<1>1. /\ frame[w][t].sid \in Nat /\ frame[w][t].etag \in Nat
      /\ snapshot_id[w] \in Nat /\ snapshot_id'[w] \in Nat
      /\ bucket.etag \in Nat /\ bucket.sid \in Nat
    BY ZenonT(20), FrameType DEF TypeOK
<1> QED BY SMTT(40), <1>1 DEF ThreadInv, FrameInv, Ids

\* Such a step keeps what is known of a process as well.
LEMMA WriterKept ==
    ASSUME TypeOK, TypeOK', NEW w \in Writers, WriterInv(w),
           bucket' = bucket, etag'[w] = etag[w],
           snapshot_id[w] <= snapshot_id'[w],
           Accounted(w) \subseteq Accounted(w)'
    PROVE  WriterInv(w)'
<1>1. /\ etag[w] \in Nat
      /\ snapshot_id[w] \in Nat /\ snapshot_id'[w] \in Nat
      /\ bucket.etag \in Nat /\ bucket.sid \in Nat
    BY DEF TypeOK
<1> QED BY <1>1 DEF WriterInv, Ids

\* Two frames at the same point of flush() that carry the same snapshot.
SameFlush(f, g) == f.pc = g.pc /\ f.etag = g.etag /\ f.sid = g.sid /\ f.q = g.q

\* Marking a flush as raced changes nothing else about it.
LEMMA RacedFrame ==
    ASSUME NEW f \in Frame, NEW g, g = f \/ g = [f EXCEPT !.raced = TRUE]
    PROVE  SameFlush(g, f)
<1>1. CASE g = f
    BY <1>1 DEF SameFlush
<1>2. CASE g = [f EXCEPT !.raced = TRUE]
    BY ZenonT(20), <1>2 DEF SameFlush, Frame
<1> QED BY <1>1, <1>2

\* A mutator keeps the invariant: what leaves the queue goes to gone.
LEMMA MutateSeen ==
    ASSUME AtomicPut, TypeOK, TypeOK', EtagMeansSeen, NEW w \in Writers, NEW q \in Queue,
           Mutate(w, q), gone[w] \subseteq gone'[w],
           \A v \in Writers : v # w => gone'[v] = gone[v],
           Ids(outstanding[w]) \subseteq Ids(q) \cup gone'[w]
    PROVE  EtagMeansSeen'
<1> SUFFICES ASSUME NEW v \in Writers
             PROVE  WriterInv(v)' /\ \A t \in Threads : ThreadInv(v, t)'
    BY SeenIntro
<1>1. WriterInv(v) /\ \A t \in Threads : ThreadInv(v, t)
    BY SeenElim
<1>2. /\ bucket' = bucket /\ mode' = mode /\ etag' = etag /\ snapshot_id' = snapshot_id
      /\ outstanding' = [outstanding EXCEPT ![w] = q]
      /\ frame' = [frame EXCEPT ![w] = Raced(w)]
    BY ZenonT(20) DEF Mutate
<1>3. Accounted(v) \subseteq Accounted(v)' /\ gone[v] \subseteq gone'[v]
    BY <1>2 DEF Accounted, Ids, TypeOK
<1>4. snapshot_id[v] <= snapshot_id'[v]
    BY SMTT(40), <1>2 DEF TypeOK
<1>5. WriterInv(v)'
    BY ZenonT(20), <1>1, <1>2, <1>3, <1>4, WriterKept
<1>6. ASSUME NEW t \in Threads PROVE ThreadInv(v, t)'
    <2>1. frame[v][t] \in Frame /\ frame \in [Writers -> [Threads -> Frame]]
        BY DEF TypeOK
    <2>3. \/ frame'[v][t] = frame[v][t]
          \/ frame'[v][t] = [frame[v][t] EXCEPT !.raced = TRUE]
        BY ZenonT(20), <1>2, <2>1 DEF Raced
    <2>4. SameFlush(frame'[v][t], frame[v][t])
        BY <2>1, <2>3, RacedFrame
    <2> QED BY ZenonT(20), <1>1, <1>2, <1>3, <1>4, <2>4, ThreadKept DEF SameFlush
<1> QED BY ZenonT(20), <1>5, <1>6

\* Every call of a mutator keeps EtagMeansSeen.
LEMMA MutateStepSeen ==
    ASSUME AtomicPut, TypeOK, EtagMeansSeen, NEW w \in Writers, MutateStep(w)
    PROVE  EtagMeansSeen'
<1>0. TypeOK'
    BY MutateStepType
<1>1. ASSUME NEW js \in SUBSET Jobs, Drop(w, js) PROVE EtagMeansSeen'
    <2> DEFINE q == [j \in Jobs |-> IF j \in js THEN None ELSE outstanding[w][j]]
    <2>1. q \in Queue /\ Mutate(w, q)
        BY <1>1 DEF Drop, TypeOK, Queue
    <2>2. /\ gone[w] \subseteq gone'[w]
          /\ \A v \in Writers : v # w => gone'[v] = gone[v]
          /\ Ids(outstanding[w]) \subseteq Ids(q) \cup gone'[w]
        BY <1>1 DEF Drop, TypeOK, Ids
    <2> QED BY <1>0, <2>1, <2>2, MutateSeen
<1>2. ASSUME NEW j \in Jobs, NEW e \in Entry,
             Mutate(w, [outstanding[w] EXCEPT ![j] = e]), gone' = gone
      PROVE  EtagMeansSeen'
    <2> DEFINE q == [outstanding[w] EXCEPT ![j] = e]
    <2>1. q \in Queue
        BY ZenonT(20) DEF TypeOK, Queue
    <2>2. Ids(outstanding[w]) \subseteq Ids(q) \cup gone'[w]
        BY ZenonT(20), NoneAssumption DEF TypeOK, Queue, Ids
    <2> QED BY <1>0, <1>2, <2>1, <2>2, MutateSeen
<1>3. ASSUME NEW j \in Jobs, NEW d \in Deadlines, Add(w, j, d) PROVE EtagMeansSeen'
    BY ZenonT(20), <1>2, <1>3, ConstantsAssumption DEF Add, Entry
<1>4. ASSUME NEW j \in Jobs, NEW a \in 1..MaxAttempt, NEW d \in Deadlines, Replay(w, j, a, d)
      PROVE  EtagMeansSeen'
    <2>1. [attempt |-> a, deadline |-> d] \in Entry
        BY ConstantsAssumption DEF Entry
    <2> QED BY <1>2, <1>4, <2>1 DEF Replay
<1>5. ASSUME NEW js \in SUBSET Jobs, RemoveMany(w, js) PROVE EtagMeansSeen'
    BY <1>1, <1>5 DEF RemoveMany
<1>6. ASSUME PruneExpired(w) PROVE EtagMeansSeen'
    BY <1>1, <1>6 DEF PruneExpired, Expired, Ids
<1> QED BY <1>3, <1>4, <1>5, <1>6 DEF MutateStep

\* A thread that moves to a frame leaves the other threads where they are.
LEMMA Elsewhere ==
    ASSUME TypeOK, NEW w \in Writers, NEW t \in Threads, NEW f, Goto(w, t, f),
           NEW v \in Writers, NEW u \in Threads, v # w \/ u # t
    PROVE  frame'[v][u] = frame[v][u]
BY ZenonT(20) DEF TypeOK, Goto

\* Taking a snapshot keeps the invariant: the frame inherits what the process knows.
LEMMA SnapshotSeen ==
    ASSUME AtomicPut, TypeOK, TypeOK', EtagMeansSeen, NEW w \in Writers, NEW t \in Threads,
           NEW again \in BOOLEAN, Snapshot(w, t, again),
           mode[w] # "down", mode'[w] # "down",
           \A v \in Writers : v # w => mode'[v] = mode[v]
    PROVE  EtagMeansSeen'
<1> SUFFICES ASSUME NEW v \in Writers
             PROVE  WriterInv(v)' /\ \A u \in Threads : ThreadInv(v, u)'
    BY SeenIntro
<1>1. WriterInv(v) /\ \A u \in Threads : ThreadInv(v, u)
    BY ZenonT(20), SeenElim
<1>2. /\ bucket' = bucket /\ etag' = etag /\ outstanding' = outstanding /\ gone' = gone
      /\ snapshot_id' = [snapshot_id EXCEPT ![w] = @ + 1]
      /\ frame' = [frame EXCEPT ![w][t] =
                     [pc |-> "put", retry |-> again, q |-> outstanding[w],
                      sid |-> snapshot_id[w] + 1, etag |-> etag[w], raced |-> FALSE]]
    BY ZenonT(20) DEF Snapshot, Goto, history
<1>3. Accounted(v) \subseteq Accounted(v)' /\ gone[v] \subseteq gone'[v]
    BY ZenonT(20), <1>2 DEF Accounted, Ids
<1>4. snapshot_id[v] <= snapshot_id'[v]
    BY SMTT(40), <1>2 DEF TypeOK
<1>5. WriterInv(v)'
    BY ZenonT(20), <1>1, <1>2, <1>3, <1>4, WriterKept
<1>6. ASSUME NEW u \in Threads, v # w \/ u # t PROVE ThreadInv(v, u)'
    <2>1. frame'[v][u] = frame[v][u]
        BY ZenonT(20), <1>6, Elsewhere DEF Snapshot
    <2> QED BY ZenonT(20), <1>1, <1>2, <1>3, <1>4, <2>1, ThreadKept
<1>7. ASSUME v = w PROVE ThreadInv(w, t)'
    <2>1. /\ frame'[w][t].pc = "put"
          /\ frame'[w][t].q = outstanding[w]
          /\ frame'[w][t].sid = snapshot_id[w] + 1
          /\ frame'[w][t].etag = etag[w]
        BY SMTT(40), <1>2 DEF TypeOK
    <2>2. snapshot_id'[w] = snapshot_id[w] + 1
        BY ZenonT(20), <1>2 DEF TypeOK
    <2>3. snapshot_id[w] \in Nat /\ bucket.sid \in Nat
        BY ZenonT(20) DEF TypeOK
    <2> QED BY SMTT(40), <1>1, <1>2, <1>7, <2>1, <2>2, <2>3
            DEF WriterInv, ThreadInv, FrameInv, Accounted, Ids
<1> QED BY <1>5, <1>6, <1>7

\* When a PUT makes a new etag, every etag in other hands is outdated: nothing
\* needs to hold of the processes and threads that carry one.
LEMMA Outdated ==
    ASSUME TypeOK, TypeOK', NEW v \in Writers, bucket'.etag = bucket.etag + 1,
           mode' = mode, outstanding' = outstanding, etag' = etag,
           snapshot_id' = snapshot_id, gone' = gone
    PROVE  /\ WriterInv(v) => WriterInv(v)'
           /\ \A u \in Threads :
                (/\ ThreadInv(v, u)
                 /\ frame'[v][u] = frame[v][u] \/ frame'[v][u] = IdleFrame)
                => ThreadInv(v, u)'
<1>1. bucket.etag \in Nat /\ etag[v] \in Nat
    BY ZenonT(20) DEF TypeOK
<1>2. WriterInv(v) => WriterInv(v)'
    BY SMTT(40), <1>1 DEF WriterInv
<1>3. ASSUME NEW u \in Threads, ThreadInv(v, u), frame'[v][u] = frame[v][u]
      PROVE  ThreadInv(v, u)'
    <2>1. frame[v][u].etag \in Nat
        BY ZenonT(20), FrameType
    <2>2. /\ frame'[v][u].etag <= bucket'.etag /\ frame'[v][u].etag # bucket'.etag
        BY <1>1, <1>3, <2>1 DEF ThreadInv, FrameInv
    <2>3. Accounted(v)' = Accounted(v)
        BY ZenonT(20) DEF Accounted, Ids
    <2>4. frame'[v][u].pc = "put"
            => frame'[v][u].sid <= snapshot_id'[v] /\ Ids(frame'[v][u].q) \subseteq Accounted(v)'
        BY ZenonT(20), <1>3, <2>3 DEF ThreadInv, FrameInv, Ids
    <2>5. FrameInv(v, u)'
        BY ZenonT(20), <2>2, <2>4 DEF FrameInv, Ids
    <2> QED BY <1>3, <2>5 DEF ThreadInv
<1>4. ASSUME NEW u \in Threads, frame'[v][u] = IdleFrame PROVE ThreadInv(v, u)'
    BY SMTT(40), <1>1, <1>4 DEF ThreadInv, FrameInv, IdleFrame
<1> QED BY ZenonT(20), <1>2, <1>3, <1>4

\* A thread that moves on while the bucket and its process stand still: only its
\* own new frame needs an argument.
LEMMA MoveSeen ==
    ASSUME AtomicPut, TypeOK, TypeOK', EtagMeansSeen, NEW w \in Writers, NEW t \in Threads,
           NEW f \in Frame, Goto(w, t, f),
           bucket' = bucket, mode' = mode, outstanding' = outstanding, etag' = etag,
           snapshot_id' = snapshot_id, gone' = gone,
           mode[w] # "down",
           f.etag <= bucket.etag,
           \/ f.pc \in {"idle", "reread", "resnap"}
           \/ f.pc = "merge" /\ f.q = bucket.q /\ f.sid = bucket.sid
    PROVE  EtagMeansSeen'
<1> SUFFICES ASSUME NEW v \in Writers
             PROVE  WriterInv(v)' /\ \A u \in Threads : ThreadInv(v, u)'
    BY ZenonT(20), SeenIntro
<1>1. WriterInv(v) /\ \A u \in Threads : ThreadInv(v, u)
    BY SeenElim
<1>2. Accounted(v) \subseteq Accounted(v)' /\ gone[v] \subseteq gone'[v]
    BY ZenonT(20) DEF Accounted, Ids
<1>3. snapshot_id[v] <= snapshot_id'[v]
    BY SMTT(40) DEF TypeOK
<1>4. WriterInv(v)'
    BY ZenonT(20), <1>1, <1>2, <1>3, WriterKept
<1>5. ASSUME NEW u \in Threads, v # w \/ u # t PROVE ThreadInv(v, u)'
    <2>1. frame'[v][u] = frame[v][u]
        BY ZenonT(20), <1>5, Elsewhere
    <2> QED BY ZenonT(20), <1>1, <1>2, <1>3, <2>1, ThreadKept
<1>6. ThreadInv(w, t)'
    <2>1. frame'[w][t] = f
        BY ZenonT(20) DEF TypeOK, Goto
    <2> QED BY ZenonT(20), <2>1 DEF ThreadInv, FrameInv
<1> QED BY ZenonT(20), <1>4, <1>5, <1>6

\* Every step of flush() keeps EtagMeansSeen; the merge does because the process
\* takes over every entry that comes with the etag.
LEMMA FlushStepSeen ==
    ASSUME AtomicPut, TypeOK, EtagMeansSeen, NEW w \in Writers, NEW t \in Threads,
           FlushStep(w, t) \/ BucketError(w, t)
    PROVE  EtagMeansSeen'
<1> DEFINE f == frame[w][t]
<1>0. TypeOK'
    BY ZenonT(20), FlushStepType
<1>1. f \in Frame /\ f.q \in Queue /\ f.sid \in Nat /\ f.etag \in Nat
    BY FrameType
<1>2. WriterInv(w) /\ ThreadInv(w, t)
    BY SeenElim
<1>3. bucket.etag \in Nat /\ bucket.sid \in Nat /\ bucket.q \in Queue
    BY DEF TypeOK
<1>4. CASE PutOk(w, t)
    <2>1. /\ bucket' = [etag |-> bucket.etag + 1, sid |-> f.sid, q |-> f.q, by |-> w]
          /\ f.pc = "put" /\ mode[w] # "down"
          /\ frame' = [frame EXCEPT ![w][t] = [f EXCEPT !.pc = "finish", !.etag = bucket.etag + 1]]
          /\ mode' = mode /\ outstanding' = outstanding /\ etag' = etag
          /\ snapshot_id' = snapshot_id /\ gone' = gone
        BY <1>4 DEF PutOk, At, Write, Goto, local, history
    <2>2. bucket'.etag = bucket.etag + 1
        BY <2>1
    <2>3. \A v \in Writers : WriterInv(v)'
        BY ZenonT(20), <1>0, <2>1, <2>2, SeenElim, Outdated
    <2>4. ASSUME NEW v \in Writers, NEW u \in Threads, v # w \/ u # t PROVE ThreadInv(v, u)'
        <3>1. frame'[v][u] = frame[v][u]
            BY ZenonT(20), <2>1, <2>4 DEF TypeOK
        <3> QED BY ZenonT(20), <1>0, <2>1, <2>2, <3>1, SeenElim, Outdated
    <2>5. ThreadInv(w, t)'
        <3>1. frame'[w][t] = [f EXCEPT !.pc = "finish", !.etag = bucket.etag + 1]
            BY ZenonT(20), <2>1 DEF TypeOK
        <3>2. frame'[w][t].pc = "finish" /\ frame'[w][t].etag = bucket'.etag
            <4>1. \A h \in Frame, e \in Nat :
                    /\ [h EXCEPT !.pc = "finish", !.etag = e].pc = "finish"
                    /\ [h EXCEPT !.pc = "finish", !.etag = e].etag = e
                BY DEF Frame
            <4>2. bucket.etag + 1 \in Nat /\ bucket'.etag = bucket.etag + 1
                BY <1>3, <2>1
            <4> QED BY <1>1, <3>1, <4>1, <4>2
        <3>3. bucket'.sid = f.sid /\ bucket'.q = f.q /\ bucket'.etag \in Nat
            BY <1>3, <2>1
        <3> QED BY <1>2, <2>1, <3>2, <3>3 DEF ThreadInv, FrameInv, Accounted, Ids
    <2> QED BY <2>3, <2>4, <2>5, SeenIntro
<1>5. CASE PutCheck(w, t) \/ PutWrite(w, t)
    BY <1>2, <1>5 DEF PutCheck, PutWrite, ThreadInv, At
<1>6. CASE PutConflict(w, t)
    <2> DEFINE h == [IdleFrame EXCEPT !.pc = "reread"]
               g == IF f.retry THEN IdleFrame ELSE h
    <2>1. g \in Frame /\ g.etag = 0 /\ g.pc \in {"idle", "reread"}
        <3>1. h \in Frame /\ h.etag = 0 /\ h.pc = "reread"
            BY ZenonT(20), EmptyQueue DEF Frame, IdleFrame
        <3>2. IdleFrame \in Frame /\ IdleFrame.etag = 0 /\ IdleFrame.pc = "idle"
            BY EmptyQueue DEF IdleFrame
        <3> HIDE DEF h
        <3> QED BY <3>1, <3>2
    <2>2. /\ Goto(w, t, g) /\ mode[w] # "down"
          /\ bucket' = bucket /\ mode' = mode /\ outstanding' = outstanding /\ etag' = etag
          /\ snapshot_id' = snapshot_id /\ gone' = gone
        BY <1>6 DEF PutConflict, Abort, At, local, history
    <2> HIDE DEF g
    <2>3. g.etag <= bucket.etag
        BY <1>3, <2>1
    <2> QED BY <1>0, <2>1, <2>2, <2>3, MoveSeen
<1>7. CASE BucketError(w, t)
    <2>1. /\ Goto(w, t, IdleFrame) /\ mode[w] # "down"
          /\ mode' = mode /\ outstanding' = outstanding /\ etag' = etag
          /\ snapshot_id' = snapshot_id /\ gone' = gone
        BY <1>7 DEF BucketError, Abort, At, local, history
    <2>2. CASE bucket' = bucket
        <3>1. IdleFrame.etag <= bucket.etag /\ IdleFrame.pc = "idle"
            BY SMTT(40), <1>3 DEF IdleFrame
        <3> QED BY ZenonT(20), <1>0, <2>1, <2>2, <3>1, EmptyQueue, MoveSeen
    <2>3. CASE Write(w, f)
        <3>1. bucket'.etag = bucket.etag + 1
            BY ZenonT(20), <2>3 DEF Write
        <3>2. ASSUME NEW v \in Writers, NEW u \in Threads
              PROVE  frame'[v][u] = frame[v][u] \/ frame'[v][u] = IdleFrame
            BY ZenonT(20), <2>1 DEF Goto, TypeOK
        <3> QED BY ZenonT(20), <1>0, <2>1, <3>1, <3>2, SeenElim, SeenIntro, Outdated
    <2> QED BY <1>7, <2>2, <2>3 DEF BucketError
<1>8. CASE Reread(w, t)
    <2> DEFINE g == [IdleFrame EXCEPT !.pc = "merge", !.q = bucket.q,
                                      !.sid = bucket.sid, !.etag = bucket.etag]
    <2>1. g \in Frame /\ g.etag = bucket.etag /\ g.pc = "merge" /\ g.q = bucket.q /\ g.sid = bucket.sid
        BY ZenonT(20), <1>3, EmptyQueue DEF Frame, IdleFrame
    <2>2. /\ Goto(w, t, g) /\ mode[w] # "down"
          /\ bucket' = bucket /\ mode' = mode /\ outstanding' = outstanding /\ etag' = etag
          /\ snapshot_id' = snapshot_id /\ gone' = gone
        BY <1>8 DEF Reread, At, local, history
    <2> HIDE DEF g
    <2>3. g.etag <= bucket.etag
        BY <1>3, <2>1
    <2> QED BY <1>0, <2>1, <2>2, <2>3, MoveSeen
<1>9. CASE Merge(w, t)
    <2> DEFINE q == Merged(outstanding[w], f.q)
               fs == IF q = outstanding[w] THEN frame[w] ELSE Raced(w)
               g == [IdleFrame EXCEPT !.pc = "resnap"]
    <2>1. /\ f.pc = "merge" /\ mode[w] # "down"
          /\ outstanding' = [outstanding EXCEPT ![w] = q]
          /\ snapshot_id' = [snapshot_id EXCEPT ![w] = Max2(@, f.sid)]
          /\ etag' = [etag EXCEPT ![w] = f.etag]
          /\ frame' = [frame EXCEPT ![w] = [fs EXCEPT ![t] = g]]
          /\ bucket' = bucket /\ mode' = mode /\ gone' = gone
        BY <1>9 DEF Merge, At, history
    <2>2. Ids(q) = Ids(outstanding[w]) \cup Ids(f.q)
        BY <1>1 DEF Merged, Ids, TypeOK, Queue
    <2>3. /\ snapshot_id[w] \in Nat
          /\ snapshot_id'[w] = Max2(snapshot_id[w], f.sid)
          /\ snapshot_id[w] <= snapshot_id'[w] /\ f.sid <= snapshot_id'[w]
        BY <1>1, <2>1 DEF TypeOK, Max2
    <2>4. outstanding'[w] = q /\ etag'[w] = f.etag
        BY ZenonT(20), <2>1 DEF TypeOK
    <2>5. Accounted(w)' = Accounted(w) \cup Ids(f.q)
        BY ZenonT(20), <2>1, <2>2, <2>4 DEF Accounted, Ids
    <2>6. WriterInv(w)'
        BY ZenonT(20), <1>1, <1>2, <1>3, <2>1, <2>3, <2>4, <2>5 DEF WriterInv, ThreadInv, FrameInv, Ids
    <2>7. ASSUME NEW v \in Writers, v # w
          PROVE  WriterInv(v)' /\ \A u \in Threads : ThreadInv(v, u)'
        <3>1. /\ outstanding'[v] = outstanding[v] /\ snapshot_id'[v] = snapshot_id[v]
              /\ etag'[v] = etag[v] /\ frame'[v] = frame[v]
            BY <2>1, <2>7 DEF TypeOK
        <3>2. Accounted(v)' = Accounted(v) /\ snapshot_id[v] <= snapshot_id'[v]
            BY <2>1, <3>1 DEF Accounted, Ids, TypeOK
        <3>3. WriterInv(v) /\ \A u \in Threads : ThreadInv(v, u)
            BY ZenonT(20), SeenElim
        <3> QED BY ZenonT(20), <1>0, <2>1, <3>1, <3>2, <3>3, WriterKept, ThreadKept
    <2>8. ThreadInv(w, t)'
        <3>1. fs \in [Threads -> Frame]
            BY RacedType DEF TypeOK
        <3>2. g.pc = "resnap" /\ g.etag = 0
            BY ZenonT(20) DEF IdleFrame
        <3> HIDE DEF fs, g
        <3>3. frame'[w][t] = g
            BY ZenonT(20), <2>1, <3>1 DEF TypeOK
        <3> QED BY SMTT(40), <1>3, <2>1, <3>2, <3>3 DEF ThreadInv, FrameInv
    <2>9. ASSUME NEW u \in Threads, u # t PROVE ThreadInv(w, u)'
        <3>1. fs \in [Threads -> Frame]
            BY RacedType DEF TypeOK
        <3>2. fs[u] = frame[w][u] \/ fs[u] = [frame[w][u] EXCEPT !.raced = TRUE]
            BY ZenonT(20) DEF Raced
        <3> HIDE DEF fs, g
        <3>3. frame'[w][u] = fs[u]
            BY ZenonT(20), <2>1, <2>9, <3>1 DEF TypeOK
        <3>4. frame[w][u] \in Frame
            BY FrameType
        <3>5. SameFlush(frame'[w][u], frame[w][u])
            BY <3>2, <3>3, <3>4, RacedFrame
        <3>6. ThreadInv(w, u)
            BY ZenonT(20), SeenElim
        <3> QED BY ZenonT(20), <1>0, <2>1, <2>3, <2>5, <3>5, <3>6, ThreadKept DEF SameFlush
    <2> QED BY <2>6, <2>7, <2>8, <2>9, SeenIntro
<1>10. CASE Resnapshot(w, t)
    BY ZenonT(20), <1>0, <1>10, SnapshotSeen DEF Resnapshot, At
<1>11. CASE Finish(w, t)
    <2>1. /\ f.pc = "finish" /\ mode[w] # "down"
          /\ etag' = [etag EXCEPT ![w] = f.etag]
          /\ frame' = [frame EXCEPT ![w][t] = IdleFrame]
          /\ bucket' = bucket /\ mode' = mode /\ outstanding' = outstanding
          /\ snapshot_id' = snapshot_id /\ gone' = gone
        BY <1>11 DEF Finish, At, Goto
    <2>2. etag'[w] = f.etag
        BY <2>1 DEF TypeOK
    <2>3. WriterInv(w)'
        BY <1>2, <2>1, <2>2 DEF WriterInv, ThreadInv, FrameInv, Accounted, Ids
    <2>4. ASSUME NEW v \in Writers
          PROVE  /\ WriterInv(v) /\ snapshot_id[v] <= snapshot_id'[v]
                 /\ Accounted(v)' = Accounted(v)
                 /\ v # w => etag'[v] = etag[v]
                 /\ \A u \in Threads : ThreadInv(v, u)
        BY SMTT(40), <2>1, SeenElim DEF Accounted, Ids, TypeOK
    <2>5. ASSUME NEW v \in Writers, v # w PROVE WriterInv(v)'
        BY ZenonT(20), <1>0, <2>1, <2>4, <2>5, WriterKept
    <2>6. ASSUME NEW v \in Writers, NEW u \in Threads, v # w \/ u # t PROVE ThreadInv(v, u)'
        <3>1. frame'[v][u] = frame[v][u]
            BY ZenonT(20), <2>1, <2>6 DEF TypeOK
        <3> QED BY SMTT(40), <1>0, <2>1, <2>4, <3>1, ThreadKept
    <2>7. ThreadInv(w, t)'
        <3>1. frame'[w][t] = IdleFrame
            BY ZenonT(20), <2>1 DEF TypeOK
        <3> QED BY SMTT(40), <1>3, <2>1, <3>1 DEF ThreadInv, FrameInv, IdleFrame
    <2> QED BY <2>3, <2>5, <2>6, <2>7, SeenIntro
<1> QED BY <1>4, <1>5, <1>6, <1>7, <1>8, <1>9, <1>10, <1>11 DEF FlushStep

\* A step that changes nothing but modes and frames, and sends frames to idle only,
\* keeps the invariant.
LEMMA StandStillSeen ==
    ASSUME AtomicPut, TypeOK, TypeOK', EtagMeansSeen,
           bucket' = bucket, UNCHANGED local, UNCHANGED history,
           \A v \in Writers, u \in Threads :
              \/ frame'[v][u] = IdleFrame
              \/ frame'[v][u] = frame[v][u] /\ (mode'[v] = "down" => mode[v] = "down")
    PROVE  EtagMeansSeen'
<1>0. \A v \in Writers : WriterInv(v) /\ \A u \in Threads : ThreadInv(v, u)
    BY ZenonT(20), SeenElim
<1>1. ASSUME NEW v \in Writers
      PROVE  /\ Accounted(v)' = Accounted(v) /\ snapshot_id[v] <= snapshot_id'[v]
             /\ etag'[v] = etag[v] /\ gone'[v] = gone[v]
    BY SMTT(40) DEF Accounted, Ids, TypeOK, local, history
<1>2. ASSUME NEW v \in Writers PROVE WriterInv(v)'
    BY ZenonT(20), <1>0, <1>1, WriterKept
<1>3. ASSUME NEW v \in Writers, NEW u \in Threads, frame'[v][u] = IdleFrame
      PROVE  ThreadInv(v, u)'
    <2>1. bucket.etag \in Nat
        BY ZenonT(20) DEF TypeOK
    <2>2. frame'[v][u].pc = "idle" /\ frame'[v][u].etag = 0
        BY SMTT(40), <1>3 DEF IdleFrame
    <2> QED BY SMTT(40), <2>1, <2>2 DEF ThreadInv, FrameInv
<1>4. ASSUME NEW v \in Writers, NEW u \in Threads, frame'[v][u] = frame[v][u],
             mode'[v] = "down" => mode[v] = "down"
      PROVE  ThreadInv(v, u)'
    BY ZenonT(20), <1>0, <1>1, <1>4, ThreadKept
<1> QED BY ZenonT(20), <1>2, <1>3, <1>4, SeenIntro

\* Starting, stopping and crashing keep EtagMeansSeen: a restart reads queue and
\* etag together, and a process that is down has no thread inside flush().
LEMMA ProcessStepSeen ==
    ASSUME AtomicPut, TypeOK, EtagMeansSeen, NEW w \in Writers, ProcessStep(w)
    PROVE  EtagMeansSeen'
<1>0. TypeOK'
    BY ProcessStepType
<1>1. \A v \in Writers : WriterInv(v) /\ \A u \in Threads : ThreadInv(v, u)
    BY SeenElim
<1>2. CASE Start(w)
    <2>1. /\ mode[w] = "down" /\ mode' = [mode EXCEPT ![w] = "up"]
          /\ outstanding' = [outstanding EXCEPT ![w] = bucket.q]
          /\ snapshot_id' = [snapshot_id EXCEPT ![w] = bucket.sid]
          /\ etag' = [etag EXCEPT ![w] = bucket.etag]
          /\ gone' = [gone EXCEPT ![w] = {}]
          /\ bucket' = bucket /\ frame' = frame
        BY ZenonT(20), <1>2 DEF Start
    <2>2. /\ outstanding'[w] = bucket.q /\ snapshot_id'[w] = bucket.sid
          /\ etag'[w] = bucket.etag /\ bucket.sid \in Nat /\ bucket.etag \in Nat
        BY ZenonT(20), <2>1 DEF TypeOK
    <2>3. WriterInv(w)'
        BY SMTT(40), <2>1, <2>2 DEF WriterInv, Accounted, Ids
    <2>4. ASSUME NEW u \in Threads PROVE ThreadInv(w, u)'
        <3>1. frame[w][u].pc = "idle"
            BY ZenonT(20), <1>1, <2>1 DEF ThreadInv
        <3> QED BY ZenonT(20), <1>1, <2>1, <3>1 DEF ThreadInv, FrameInv
    <2>5. ASSUME NEW v \in Writers, v # w
          PROVE  WriterInv(v)' /\ \A u \in Threads : ThreadInv(v, u)'
        <3>1. /\ mode'[v] = mode[v] /\ outstanding'[v] = outstanding[v]
              /\ snapshot_id'[v] = snapshot_id[v]
              /\ etag'[v] = etag[v] /\ gone'[v] = gone[v]
            BY ZenonT(20), <2>1, <2>5 DEF TypeOK
        <3>2. Accounted(v)' = Accounted(v) /\ snapshot_id[v] <= snapshot_id'[v]
            BY SMTT(40), <3>1 DEF Accounted, Ids, TypeOK
        <3> QED BY ZenonT(20), <1>0, <1>1, <2>1, <3>1, <3>2, WriterKept, ThreadKept
    <2> QED BY ZenonT(20), <2>3, <2>4, <2>5, SeenIntro
<1>4. CASE StopRequest(w)
    BY ZenonT(20), <1>0, <1>4, StandStillSeen DEF StopRequest, TypeOK
<1>5. CASE StopFlush(w)
    <2>1. /\ mode[w] # "down" /\ mode'[w] # "down"
          /\ \A v \in Writers : v # w => mode'[v] = mode[v]
        BY ZenonT(20), <1>5 DEF StopFlush, TypeOK
    <2>2. CASE Snapshot(w, "main", FALSE)
        BY ZenonT(20), <1>0, <2>1, <2>2, SnapshotSeen DEF Threads
    <2>3. CASE UNCHANGED <<bucket, local, frame, history>>
        BY ZenonT(20), <1>0, <2>1, <2>3, StandStillSeen
    <2> QED BY ZenonT(20), <1>5, <2>2, <2>3 DEF StopFlush
<1>6. ASSUME Down(w) PROVE EtagMeansSeen'
    BY ZenonT(20), <1>0, <1>6, StandStillSeen DEF Down, TypeOK
<1> QED BY <1>2, <1>4, <1>5, <1>6 DEF ProcessStep, Exit, Crash

\* Every step keeps EtagMeansSeen.
LEMMA NextSeen ==
    ASSUME AtomicPut, TypeOK, EtagMeansSeen, [Next]_vars
    PROVE  EtagMeansSeen'
<1>1. CASE UNCHANGED vars \/ Tick
    <2>1. UNCHANGED <<bucket, mode, local, frame, history>>
        BY <1>1 DEF vars, Tick
    <2>2. bucket' = bucket /\ mode' = mode /\ UNCHANGED local /\ frame' = frame /\ UNCHANGED history
        BY <2>1
    <2> QED BY ZenonT(20), <2>2, NextType, StandStillSeen
<1>2. ASSUME NEW w \in Writers, BackgroundFlush(w) \/ ForceFlush(w) PROVE EtagMeansSeen'
    <2>1. \E t \in Threads : Snapshot(w, t, FALSE)
        BY ZenonT(20), <1>2 DEF BackgroundFlush, ForceFlush, Threads
    <2>2. mode[w] # "down" /\ mode' = mode
        BY ZenonT(20), <1>2 DEF BackgroundFlush, ForceFlush, CanMutate
    <2> QED BY ZenonT(20), <2>1, <2>2, NextType, SnapshotSeen
<1> QED BY ZenonT(20), <1>1, <1>2, MutateStepSeen, FlushStepSeen, ProcessStepSeen DEF Next

\* EtagMeansSeen holds before any process has started.
LEMMA InitSeen == Init => EtagMeansSeen
BY DEF Init, EtagMeansSeen, WriterInv, FrameInv, Accounted, Ids, Empty, IdleFrame

\* With conditional PUTs (If-Match, put_with_etag of S3Bucket), a current etag in
\* anyone's hands means that its holder has seen all that is published: for any
\* number of processes, jobs, crashes, failed PUTs, lost replies and slow threads.
THEOREM CurrentEtagMeansSeen == AtomicPut => (Spec => []EtagMeansSeen)
<1> SUFFICES ASSUME AtomicPut PROVE Spec => []EtagMeansSeen
    OBVIOUS
<1>1. Init => EtagMeansSeen
    BY InitSeen
<1>2. TypeOK /\ EtagMeansSeen /\ [Next]_vars => EtagMeansSeen'
    BY ZenonT(20), NextSeen
<1> QED BY <1>1, <1>2, TypeCorrect, PTL DEF Spec

\* The only steps that change the bucket are PUTs of a frame whose etag is current.
LEMMA OnlyPutsWrite ==
    ASSUME AtomicPut, TypeOK, EtagMeansSeen, [Next]_vars, bucket' # bucket
    PROVE  \E w \in Writers, t \in Threads :
              /\ frame[w][t].pc = "put" /\ frame[w][t].etag = bucket.etag
              /\ Write(w, frame[w][t])
<1>1. ASSUME NEW w \in Writers, MutateStep(w) PROVE FALSE
    BY ZenonT(20), <1>1 DEF MutateStep, Add, RemoveMany, Replay, PruneExpired, Drop, Mutate
<1>2. ASSUME NEW w \in Writers, BackgroundFlush(w) \/ ForceFlush(w) \/ ProcessStep(w) PROVE FALSE
    BY ZenonT(20), <1>2 DEF BackgroundFlush, ForceFlush, ProcessStep, Start, StopRequest, StopFlush,
                Exit, Crash, Down, Snapshot
<1>3. ASSUME NEW w \in Writers, NEW t \in Threads, FlushStep(w, t) \/ BucketError(w, t)
      PROVE  /\ frame[w][t].pc = "put" /\ frame[w][t].etag = bucket.etag
             /\ Write(w, frame[w][t])
    <2>1. frame[w][t].pc # "write"
        BY ZenonT(20), SeenElim DEF ThreadInv
    <2>2. PutOk(w, t) \/ BucketError(w, t)
        BY ZenonT(20), <1>3, <2>1 DEF FlushStep, PutCheck, PutWrite, PutConflict, Reread, Merge,
                          Resnapshot, Snapshot, Finish, At
    <2> QED BY ZenonT(20), <2>2 DEF PutOk, BucketError, At
<1>4. CASE UNCHANGED vars \/ Tick
    BY ZenonT(20), <1>4 DEF vars, Tick
<1> QED BY ZenonT(20), <1>1, <1>2, <1>3, <1>4 DEF Next

\* A PUT of such a frame drops only what its process dropped, under a larger number.
LEMMA WriteIsSafe ==
    ASSUME AtomicPut, TypeOK, EtagMeansSeen, [Next]_vars, bucket' # bucket
    PROVE  /\ Ids(bucket.q) \ Ids(bucket'.q) \subseteq gone[bucket'.by]
           /\ bucket.sid < bucket'.sid
<1>1. PICK w \in Writers, t \in Threads :
              /\ frame[w][t].pc = "put" /\ frame[w][t].etag = bucket.etag
              /\ Write(w, frame[w][t])
    BY ZenonT(20), OnlyPutsWrite
<1>2. bucket.sid < frame[w][t].sid /\ Ids(bucket.q) \subseteq Ids(frame[w][t].q) \cup gone[w]
    BY ZenonT(20), <1>1, SeenElim DEF ThreadInv, FrameInv
<1>3. bucket'.sid = frame[w][t].sid /\ bucket'.q = frame[w][t].q /\ bucket'.by = w
    BY <1>1 DEF Write
<1>4. Ids(bucket'.q) = Ids(frame[w][t].q)
    BY <1>3 DEF Ids
<1> QED BY ZenonT(20), <1>2, <1>3, <1>4

\* With conditional PUTs no process ever drops another's published entry unseen:
\* flush(), its merge and its retry never lose a job that someone else published.
THEOREM NothingDroppedUnseen == AtomicPut => (Spec => NoSilentDrop)
<1> SUFFICES ASSUME AtomicPut PROVE Spec => NoSilentDrop
    BY ZenonT(20)
<1>1. TypeOK /\ EtagMeansSeen /\ [Next]_vars
        => [bucket' # bucket => Ids(bucket.q) \ Ids(bucket'.q) \subseteq gone[bucket'.by]]_vars
    BY WriteIsSafe
<1> QED BY <1>1, TypeCorrect, CurrentEtagMeansSeen, PTL DEF Spec, NoSilentDrop

\* With conditional PUTs the published snapshot_id grows with every PUT: a reader
\* that compares two of them (the dashboard's sampler) sees which is newer.
THEOREM SnapshotIdsGrow == AtomicPut => (Spec => SnapshotIdAdvances)
<1> SUFFICES ASSUME AtomicPut PROVE Spec => SnapshotIdAdvances
    OBVIOUS
<1>1. TypeOK /\ EtagMeansSeen /\ [Next]_vars
        => [bucket' # bucket => bucket.sid < bucket'.sid]_vars
    BY WriteIsSafe
<1> QED BY <1>1, TypeCorrect, CurrentEtagMeansSeen, PTL DEF Spec, SnapshotIdAdvances

------------------------------------------------------------------------------
\* A clean queue is a published one.

\* The processes that flush only what is dirty: managers and send_job.  Their
\* stop() waits for the background thread.
OneFlushAtATime == ~SlowPuts /\ \A w \in Writers : Kind[w] # "one_shot"

\* A flush runs on a dirty queue.  It carries what the process holds unless it
\* was raced, and after its PUT what the bucket holds unless another followed.
CleanFrame(w, t) ==
    LET f == frame[w][t] IN
    /\ f.etag <= bucket.etag
    /\ f.pc # "idle" => dirty[w]
    /\ f.pc \in {"put", "write", "finish"} /\ ~f.raced => f.q = outstanding[w]
    /\ f.pc = "finish" /\ f.etag = bucket.etag => f.q = bucket.q

\* A process flushes from one thread at a time; CleanUnlessRaced holds of it.
CleanWriter(w) ==
    /\ etag[w] <= bucket.etag
    /\ mode[w] \in {"down", "final"} => frame[w]["bg"].pc = "idle"
    /\ mode[w] # "final" => frame[w]["main"].pc = "idle"
    /\ (mode[w] # "down" /\ ~dirty[w] /\ ~lost[w] /\ etag[w] = bucket.etag) => outstanding[w] = bucket.q

CleanInv == \A w \in Writers : CleanWriter(w) /\ \A t \in Threads : CleanFrame(w, t)

\* The bucket stays as it is, or a PUT gives it an etag that nobody has.
Fresh == bucket' = bucket \/ bucket'.etag = bucket.etag + 1

\* What an etag in someone's hands says of a bucket that has changed since: nothing.
LEMMA EtagStale ==
    ASSUME NEW e \in Nat, NEW b \in Nat, e <= b, NEW c, c = b + 1
    PROVE  e <= c /\ e # c
OBVIOUS

\* A process that a step leaves alone keeps the invariant.
LEMMA CleanAside ==
    ASSUME TypeOK, CleanInv, Fresh, NEW v \in Writers, frame'[v] = frame[v], mode'[v] = mode[v],
           outstanding'[v] = outstanding[v], etag'[v] = etag[v], dirty'[v] = dirty[v], lost'[v] = lost[v]
    PROVE  CleanWriter(v)' /\ \A t \in Threads : CleanFrame(v, t)'
<1>1. bucket.etag \in Nat /\ etag[v] \in Nat /\ \A t \in Threads : frame[v][t].etag \in Nat
    BY Zenon, FrameType DEF TypeOK
<1>2. CleanWriter(v) /\ \A t \in Threads : CleanFrame(v, t)
    BY Zenon DEF CleanInv
<1>3. CASE bucket' = bucket
    BY Zenon, <1>2, <1>3 DEF CleanWriter, CleanFrame
<1>4. CASE bucket'.etag = bucket.etag + 1
    <2>1. etag[v] <= bucket'.etag /\ etag[v] # bucket'.etag
        BY Zenon, <1>1, <1>2, <1>4, EtagStale DEF CleanWriter
    <2>2. \A t \in Threads : frame[v][t].etag <= bucket'.etag /\ frame[v][t].etag # bucket'.etag
        BY Zenon, <1>1, <1>2, <1>4, EtagStale DEF CleanFrame
    <2> QED BY Zenon, <1>2, <2>1, <2>2 DEF CleanWriter, CleanFrame
<1> QED BY Zenon, <1>3, <1>4 DEF Fresh

\* A step of one process keeps the invariant if it keeps it for that process.
LEMMA CleanLocal ==
    ASSUME TypeOK, CleanInv, Fresh, NEW w \in Writers,
           \A v \in Writers \ {w} : /\ frame'[v] = frame[v] /\ mode'[v] = mode[v] /\ outstanding'[v] = outstanding[v]
                                    /\ etag'[v] = etag[v] /\ dirty'[v] = dirty[v] /\ lost'[v] = lost[v],
           CleanWriter(w)', \A t \in Threads : CleanFrame(w, t)'
    PROVE  CleanInv'
BY Zenon, CleanAside DEF CleanInv

\* Where a thread that moves is then, and that no one else moves.
LEMMA Moved ==
    ASSUME TypeOK, NEW w \in Writers, NEW t \in Threads, NEW f, Goto(w, t, f)
    PROVE  /\ frame'[w][t] = f /\ \A u \in Threads \ {t} : frame'[w][u] = frame[w][u]
           /\ \A v \in Writers \ {w} : frame'[v] = frame[v]
BY ZenonT(20) DEF TypeOK, Goto

\* A thread in flush() is the only one, and the queue is dirty.
LEMMA Flushing ==
    ASSUME CleanInv, TypeOK, NEW w \in Writers, NEW t \in Threads, frame[w][t].pc # "idle"
    PROVE  /\ dirty[w] /\ mode[w] # "down" /\ \A u \in Threads \ {t} : frame[w][u].pc = "idle"
           /\ t = "bg" => mode[w] # "final"
           /\ t = "main" => mode[w] = "final"
<1>1. CleanWriter(w) /\ CleanFrame(w, t) /\ t \in {"main", "bg"}
    BY Zenon DEF CleanInv, Threads
<1>2. CASE t = "bg"
    BY <1>1, <1>2 DEF CleanWriter, CleanFrame, Threads
<1>3. CASE t = "main"
    BY <1>1, <1>3 DEF CleanWriter, CleanFrame, Threads
<1> QED BY <1>1, <1>2, <1>3

\* A thread in flush() moves on to a frame of which the invariant can be told.
LEMMA CleanMove ==
    ASSUME TypeOK, CleanInv, Fresh, NEW w \in Writers, NEW t \in Threads, NEW f, Goto(w, t, f),
           frame[w][t].pc # "idle", UNCHANGED <<mode, dirty, lost, outstanding, etag>>,
           f.etag <= bucket'.etag,
           f.pc \in {"put", "write", "finish"} /\ ~f.raced => f.q = outstanding[w],
           f.pc = "finish" /\ f.etag = bucket'.etag => f.q = bucket'.q
    PROVE  CleanInv'
<1>1. /\ frame'[w][t] = f /\ \A u \in Threads \ {t} : frame'[w][u] = frame[w][u]
      /\ \A v \in Writers \ {w} : frame'[v] = frame[v]
    BY ZenonT(20), Moved
<1>2. /\ dirty[w] /\ mode[w] # "down" /\ \A u \in Threads \ {t} : frame[w][u].pc = "idle"
      /\ t = "bg" => mode[w] # "final"
      /\ t = "main" => mode[w] = "final"
    BY Zenon, Flushing
<1>3. bucket.etag \in Nat /\ etag[w] \in Nat /\ \A u \in Threads : frame[w][u].etag \in Nat
    BY Zenon, FrameType DEF TypeOK
<1>4. etag[w] <= bucket'.etag /\ \A u \in Threads : frame[w][u].etag <= bucket'.etag
    <2>1. etag[w] <= bucket.etag /\ \A u \in Threads : frame[w][u].etag <= bucket.etag
        BY Zenon DEF CleanInv, CleanWriter, CleanFrame
    <2>2. CASE bucket'.etag = bucket.etag + 1
        BY Zenon, <1>3, <2>1, <2>2, EtagStale
    <2> QED BY Zenon, <2>1, <2>2 DEF Fresh
<1>5. ASSUME NEW u \in Threads PROVE CleanFrame(w, u)'
    <2>1. CASE u = t
        BY Zenon, <1>1, <1>2, <2>1 DEF CleanFrame
    <2>2. CASE u # t
        <3>1. frame'[w][u] = frame[w][u] /\ frame[w][u].pc = "idle"
            BY Zenon, <1>1, <1>2, <2>2
        <3> QED BY <1>2, <1>4, <3>1 DEF CleanFrame
    <2> QED BY <2>1, <2>2
<1>6. CleanWriter(w)'
    <2>1. t # "bg" => frame'[w]["bg"] = frame[w]["bg"]
        BY Zenon, <1>1 DEF Threads
    <2>2. t # "main" => frame'[w]["main"] = frame[w]["main"]
        BY Zenon, <1>1 DEF Threads
    <2>3. CASE t = "bg"
        BY <1>2, <1>4, <2>2, <2>3 DEF CleanWriter, CleanInv
    <2>4. CASE t = "main"
        BY <1>2, <1>4, <2>1, <2>4 DEF CleanWriter, CleanInv
    <2> QED BY <2>3, <2>4 DEF Threads
<1> QED BY Zenon, <1>1, <1>5, <1>6, CleanLocal

\* A mutator: the queue is dirty, and a flush that runs is raced.
LEMMA CleanMutate ==
    ASSUME TypeOK, CleanInv, NEW w \in Writers, NEW q, Mutate(w, q)
    PROVE  CleanInv'
<1>1. /\ outstanding' = [outstanding EXCEPT ![w] = q] /\ dirty' = [dirty EXCEPT ![w] = TRUE]
      /\ frame' = [frame EXCEPT ![w] = Raced(w)] /\ UNCHANGED <<bucket, mode, etag, lost>>
    BY Zenon DEF Mutate
<1>2. /\ dirty'[w] /\ frame'[w] = Raced(w)
      /\ \A v \in Writers \ {w} : frame'[v] = frame[v] /\ outstanding'[v] = outstanding[v] /\ dirty'[v] = dirty[v]
    BY Zenon, <1>1 DEF TypeOK
<1>3. ASSUME NEW t \in Threads
      PROVE  /\ frame'[w][t].pc = frame[w][t].pc /\ frame'[w][t].etag = frame[w][t].etag /\ frame'[w][t].q = frame[w][t].q
             /\ frame[w][t].pc \in {"put", "write", "finish"} => frame'[w][t].raced
    <2>1. frame[w][t] \in Frame
        BY ZenonT(20), FrameType
    <2>2. frame'[w][t] = IF frame[w][t].pc \in {"put", "write", "finish"}
                         THEN [frame[w][t] EXCEPT !.raced = TRUE] ELSE frame[w][t]
        BY <1>2 DEF Raced
    <2>3. [frame[w][t] EXCEPT !.raced = TRUE].raced
        BY Zenon, <2>1 DEF Frame
    <2>4. SameFlush(frame'[w][t], frame[w][t])
        BY Zenon, <2>1, <2>2, RacedFrame
    <2> QED BY Zenon, <2>2, <2>3, <2>4 DEF SameFlush
<1>4. CleanWriter(w) /\ \A t \in Threads : CleanFrame(w, t)
    BY Zenon DEF CleanInv
<1>5. ASSUME NEW t \in Threads PROVE CleanFrame(w, t)'
    BY Zenon, <1>1, <1>2, <1>3, <1>4 DEF CleanFrame
<1>6. CleanWriter(w)'
    BY Zenon, <1>1, <1>2, <1>3, <1>4 DEF CleanWriter, Threads
<1> QED BY Zenon, <1>1, <1>2, <1>5, <1>6, CleanLocal DEF Fresh

\* The first locked section of a flush of a dirty queue, while no other runs.
LEMMA CleanSnapshot ==
    ASSUME TypeOK, CleanInv, NEW w \in Writers, NEW t \in Threads, NEW again, Snapshot(w, t, again), dirty[w],
           \A v \in Writers \ {w} : mode'[v] = mode[v], mode'[w] # "down",
           \A u \in Threads \ {t} : frame[w][u].pc = "idle",
           t = "bg" => mode'[w] # "final", t = "main" => mode'[w] = "final"
    PROVE  CleanInv'
<1> DEFINE f == [pc |-> "put", retry |-> again, q |-> outstanding[w],
                 sid |-> snapshot_id[w] + 1, etag |-> etag[w], raced |-> FALSE]
<1>1. Goto(w, t, f) /\ UNCHANGED <<bucket, outstanding, etag, dirty, lost>>
    BY Zenon DEF Snapshot, history
<1>2. f.pc = "put" /\ f.q = outstanding[w] /\ f.etag = etag[w]
    BY Zenon
<1> HIDE DEF f
<1>3. /\ frame'[w][t] = f /\ \A u \in Threads \ {t} : frame'[w][u] = frame[w][u]
      /\ \A v \in Writers \ {w} : frame'[v] = frame[v]
    BY ZenonT(20), <1>1, Moved
<1>4. CleanWriter(w) /\ \A u \in Threads : CleanFrame(w, u)
    BY Zenon DEF CleanInv
<1>5. ASSUME NEW u \in Threads PROVE CleanFrame(w, u)'
    <2>1. CASE u = t
        BY <1>1, <1>2, <1>3, <1>4, <2>1 DEF CleanFrame, CleanWriter
    <2>2. CASE u # t
        <3>1. frame'[w][u] = frame[w][u] /\ frame[w][u].pc = "idle"
            BY Zenon, <1>3, <2>2
        <3> QED BY <1>1, <1>4, <3>1 DEF CleanFrame
    <2> QED BY <2>1, <2>2
<1>6. CleanWriter(w)'
    <2>1. t # "bg" => frame'[w]["bg"].pc = "idle"
        BY Zenon, <1>3 DEF Threads
    <2>2. t # "main" => frame'[w]["main"].pc = "idle"
        BY Zenon, <1>3 DEF Threads
    <2> QED BY <1>1, <1>4, <2>1, <2>2 DEF CleanWriter, Threads
<1> QED BY Zenon, <1>1, <1>3, <1>5, <1>6, CleanLocal DEF Fresh

\* A PUT that takes effect: the frame and the bucket have the snapshot.
LEMMA CleanWrite ==
    ASSUME TypeOK, CleanInv, NEW w \in Writers, NEW t \in Threads, frame[w][t].pc \in {"put", "write"},
           Write(w, frame[w][t]), UNCHANGED <<mode, local, history>>,
           \/ Goto(w, t, [frame[w][t] EXCEPT !.pc = "finish", !.etag = bucket.etag + 1])
           \/ Goto(w, t, IdleFrame)
    PROVE  CleanInv'
<1> DEFINE f == frame[w][t]
           g == [f EXCEPT !.pc = "finish", !.etag = bucket.etag + 1]
<1>1. f \in Frame /\ bucket.etag \in Nat
    BY Zenon, FrameType DEF TypeOK
<1>2. g.etag = bucket.etag + 1 /\ g.pc = "finish" /\ g.q = f.q /\ g.raced = f.raced
    BY <1>1 DEF Frame
<1>3. bucket'.etag = bucket.etag + 1 /\ bucket'.q = f.q
    BY Zenon DEF Write
<1>4. f.pc # "idle" /\ (~f.raced => f.q = outstanding[w])
    BY Zenon DEF CleanInv, CleanFrame
<1>5. UNCHANGED <<mode, dirty, lost, outstanding, etag>>
    BY Zenon DEF local, history
<1> HIDE DEF g
<1>6. CASE Goto(w, t, g)
    <2>1. g.etag <= bucket'.etag
        BY <1>1, <1>2, <1>3
    <2> QED BY Zenon, <1>2, <1>3, <1>4, <1>5, <1>6, <2>1, CleanMove DEF Fresh
<1>7. CASE Goto(w, t, IdleFrame)
    <2>1. IdleFrame.etag <= bucket'.etag /\ IdleFrame.pc = "idle"
        BY <1>1, <1>3 DEF IdleFrame
    <2> QED BY <1>3, <1>4, <1>5, <1>7, <2>1, CleanMove DEF Fresh
<1> QED BY Zenon, <1>6, <1>7 DEF g

\* The merge: the only flush of the process goes on to a new snapshot of a queue
\* that is dirty still.
LEMMA CleanMerge ==
    ASSUME TypeOK, CleanInv, NEW w \in Writers, NEW t \in Threads, Merge(w, t)
    PROVE  CleanInv'
<1> DEFINE f == frame[w][t]
           r == [IdleFrame EXCEPT !.pc = "resnap"]
<1>1. /\ f.pc = "merge" /\ UNCHANGED <<bucket, mode, dirty, lost>>
      /\ outstanding' = [outstanding EXCEPT ![w] = Merged(outstanding[w], f.q)]
      /\ etag' = [etag EXCEPT ![w] = f.etag]
      /\ \/ frame' = [frame EXCEPT ![w] = [frame[w] EXCEPT ![t] = r]]
         \/ frame' = [frame EXCEPT ![w] = [Raced(w) EXCEPT ![t] = r]]
    BY ZenonT(20) DEF Merge, At, history
<1>2. /\ dirty[w] /\ mode[w] # "down" /\ \A u \in Threads \ {t} : frame[w][u].pc = "idle"
      /\ t = "bg" => mode[w] # "final"
      /\ t = "main" => mode[w] = "final"
    <2>1. f.pc # "idle"
        BY <1>1
    <2> QED BY Zenon, <2>1, Flushing
<1>3. \A u \in Threads \ {t} : Raced(w)[u] = frame[w][u]
    BY <1>2 DEF Raced
<1>4. Raced(w) \in [Threads -> Frame] /\ frame[w] \in [Threads -> Frame] /\ frame \in [Writers -> [Threads -> Frame]]
    BY Zenon, RacedType DEF TypeOK
<1>5. /\ frame'[w][t] = r /\ \A u \in Threads \ {t} : frame'[w][u] = frame[w][u]
      /\ \A v \in Writers \ {w} : frame'[v] = frame[v]
    BY ZenonT(20), <1>1, <1>3, <1>4
<1>6. /\ etag'[w] = f.etag /\ \A v \in Writers \ {w} : etag'[v] = etag[v] /\ outstanding'[v] = outstanding[v]
    BY Zenon, <1>1 DEF TypeOK
<1>7. r.pc = "resnap" /\ r.etag = 0
    BY DEF IdleFrame
<1> HIDE DEF r
<1>8. CleanWriter(w) /\ \A u \in Threads : CleanFrame(w, u)
    BY Zenon DEF CleanInv
<1>9. bucket.etag \in Nat
    BY Zenon DEF TypeOK
<1>10. ASSUME NEW u \in Threads PROVE CleanFrame(w, u)'
    <2>1. CASE u = t
        BY <1>1, <1>2, <1>5, <1>7, <1>9, <2>1 DEF CleanFrame
    <2>2. CASE u # t
        <3>1. frame'[w][u] = frame[w][u] /\ frame[w][u].pc = "idle"
            BY Zenon, <1>2, <1>5, <2>2
        <3> QED BY <1>1, <1>8, <3>1 DEF CleanFrame
    <2> QED BY <2>1, <2>2
<1>11. CleanWriter(w)'
    <2>1. t # "bg" => frame'[w]["bg"].pc = "idle"
        BY Zenon, <1>2, <1>5 DEF Threads
    <2>2. t # "main" => frame'[w]["main"].pc = "idle"
        BY Zenon, <1>2, <1>5 DEF Threads
    <2>3. etag'[w] <= bucket'.etag
        BY Zenon, <1>1, <1>6, <1>8 DEF CleanFrame
    <2>4. /\ mode'[w] \in {"down", "final"} => frame'[w]["bg"].pc = "idle"
          /\ mode'[w] # "final" => frame'[w]["main"].pc = "idle"
        BY <1>1, <1>2, <2>1, <2>2 DEF Threads
    <2> QED BY Zenon, <1>1, <1>2, <2>3, <2>4 DEF CleanWriter
<1> QED BY Zenon, <1>1, <1>5, <1>6, <1>10, <1>11, CleanLocal DEF Fresh

\* The last locked section: an etag that is current still, of a flush that was not
\* raced, stands for what the process holds.
LEMMA CleanFinish ==
    ASSUME TypeOK, CleanInv, NEW w \in Writers, NEW t \in Threads, Finish(w, t)
    PROVE  CleanInv'
<1> DEFINE f == frame[w][t]
<1>1. /\ f.pc = "finish" /\ UNCHANGED <<bucket, mode, outstanding>> /\ Goto(w, t, IdleFrame)
      /\ etag' = [etag EXCEPT ![w] = f.etag] /\ dirty' = [dirty EXCEPT ![w] = FALSE]
      /\ lost' = [lost EXCEPT ![w] = f.raced]
    BY Zenon DEF Finish, At
<1>2. /\ frame'[w][t] = IdleFrame /\ \A u \in Threads \ {t} : frame'[w][u] = frame[w][u]
      /\ \A v \in Writers \ {w} : frame'[v] = frame[v]
    BY ZenonT(20), <1>1, Moved
<1>3. \A u \in Threads \ {t} : frame[w][u].pc = "idle"
    <2>1. f.pc # "idle"
        BY <1>1
    <2> QED BY Zenon, <2>1, Flushing
<1>4. /\ etag'[w] = f.etag /\ lost'[w] = f.raced
      /\ \A v \in Writers \ {w} : etag'[v] = etag[v] /\ dirty'[v] = dirty[v] /\ lost'[v] = lost[v]
    BY Zenon, <1>1 DEF TypeOK
<1>5. CleanWriter(w) /\ \A u \in Threads : CleanFrame(w, u)
    BY Zenon DEF CleanInv
<1>6. IdleFrame.pc = "idle" /\ IdleFrame.etag = 0 /\ bucket.etag \in Nat
    BY DEF IdleFrame, TypeOK
<1>7. ASSUME NEW u \in Threads PROVE CleanFrame(w, u)' /\ frame'[w][u].pc = "idle"
    <2>1. CASE u = t
        BY <1>1, <1>2, <1>6, <2>1 DEF CleanFrame
    <2>2. CASE u # t
        <3>1. frame'[w][u] = frame[w][u] /\ frame[w][u].pc = "idle"
            BY Zenon, <1>2, <1>3, <2>2
        <3> QED BY <1>1, <1>5, <3>1 DEF CleanFrame
    <2> QED BY <2>1, <2>2
<1>8. CleanWriter(w)'
    <2>1. f.etag <= bucket.etag
        BY Zenon, <1>5 DEF CleanFrame
    <2>2. ~f.raced /\ f.etag = bucket.etag => outstanding[w] = bucket.q
        BY <1>1, <1>5 DEF CleanFrame
    <2>3. frame'[w]["bg"].pc = "idle" /\ frame'[w]["main"].pc = "idle"
        BY Zenon, <1>7 DEF Threads
    <2> QED BY Zenon, <1>1, <1>4, <2>1, <2>2, <2>3 DEF CleanWriter
<1> QED BY Zenon, <1>1, <1>2, <1>4, <1>7, <1>8, CleanLocal DEF Fresh

\* The steps of flush().
LEMMA CleanFlush ==
    ASSUME TypeOK, CleanInv, NEW w \in Writers, NEW t \in Threads, FlushStep(w, t) \/ BucketError(w, t)
    PROVE  CleanInv'
<1> DEFINE f == frame[w][t]
<1>1. f \in Frame /\ bucket.etag \in Nat /\ CleanFrame(w, t)
    BY Zenon, FrameType DEF TypeOK, CleanInv
<1>2. \A p : /\ [IdleFrame EXCEPT !.pc = p].pc = p /\ [IdleFrame EXCEPT !.pc = p].etag = 0
    BY DEF IdleFrame
<1>3. ASSUME f.pc # "idle", bucket' = bucket, UNCHANGED <<mode, local, history>>,
             \/ Goto(w, t, IdleFrame)
             \/ \E g : /\ g.pc \notin {"put", "write", "finish"} /\ g.etag <= bucket.etag
                       /\ Goto(w, t, g)
      PROVE  CleanInv'
    <2>1. IdleFrame.pc \notin {"put", "write", "finish"} /\ IdleFrame.etag <= bucket.etag
        BY <1>1 DEF IdleFrame
    <2>2. PICK g : /\ g.pc \notin {"put", "write", "finish"} /\ g.etag <= bucket.etag
                   /\ Goto(w, t, g)
        BY Zenon, <1>3, <2>1
    <2>3. UNCHANGED <<mode, dirty, lost, outstanding, etag>>
        BY Zenon, <1>3 DEF local, history
    <2>4. g.pc # "finish"
        BY Zenon, <2>2
    <2> QED BY Zenon, <1>3, <2>2, <2>3, <2>4, CleanMove DEF Fresh
<1>4. CASE PutOk(w, t)
    BY Zenon, <1>4, CleanWrite DEF PutOk, At
<1>5. CASE PutCheck(w, t)
    <2> DEFINE g == [f EXCEPT !.pc = "write"]
    <2>1. f.pc = "put" /\ bucket' = bucket /\ UNCHANGED <<mode, dirty, lost, outstanding, etag>> /\ Goto(w, t, g)
        BY Zenon, <1>5 DEF PutCheck, At, local, history
    <2>2. g.pc = "write" /\ g.etag = f.etag /\ g.q = f.q /\ g.raced = f.raced
        BY Zenon, <1>1 DEF Frame
    <2> HIDE DEF g
    <2>3. g.etag <= bucket'.etag /\ (~g.raced => g.q = outstanding[w]) /\ g.pc # "finish" /\ f.pc # "idle"
        BY <1>1, <2>1, <2>2 DEF CleanFrame
    <2> QED BY Zenon, <2>1, <2>3, CleanMove DEF Fresh
<1>6. CASE PutWrite(w, t)
    BY Zenon, <1>6, CleanWrite DEF PutWrite, At
<1>7. CASE PutConflict(w, t)
    <2>1. /\ f.pc = "put" /\ bucket' = bucket /\ UNCHANGED <<mode, local, history>>
          /\ Goto(w, t, IdleFrame) \/ Goto(w, t, [IdleFrame EXCEPT !.pc = "reread"])
        BY Zenon, <1>7 DEF PutConflict, At, Abort
    <2>2. /\ [IdleFrame EXCEPT !.pc = "reread"].pc \notin {"put", "write", "finish"}
          /\ [IdleFrame EXCEPT !.pc = "reread"].etag <= bucket.etag
        BY <1>1, <1>2
    <2>3. f.pc # "idle"
        BY <2>1
    <2> QED BY Zenon, <1>3, <2>1, <2>2, <2>3
<1>8. CASE Reread(w, t)
    <2> DEFINE g == [IdleFrame EXCEPT !.pc = "merge", !.q = bucket.q, !.sid = bucket.sid, !.etag = bucket.etag]
    <2>1. f.pc = "reread" /\ bucket' = bucket /\ UNCHANGED <<mode, local, history>> /\ Goto(w, t, g)
        BY Zenon, <1>8 DEF Reread, At
    <2>2. g.pc = "merge" /\ g.etag = bucket.etag
        BY DEF IdleFrame
    <2> HIDE DEF g
    <2>3. g.pc \notin {"put", "write", "finish"} /\ g.etag <= bucket.etag /\ f.pc # "idle"
        BY <1>1, <2>1, <2>2
    <2> QED BY Zenon, <1>3, <2>1, <2>3
<1>9. CASE Resnapshot(w, t)
    <2>1. f.pc = "resnap" /\ Snapshot(w, t, TRUE) /\ mode' = mode
        BY Zenon, <1>9 DEF Resnapshot, At
    <2>2. f.pc # "idle"
        BY <2>1
    <2>3. /\ dirty[w] /\ mode[w] # "down" /\ \A u \in Threads \ {t} : frame[w][u].pc = "idle"
          /\ t = "bg" => mode[w] # "final"
          /\ t = "main" => mode[w] = "final"
        BY Zenon, <2>2, Flushing
    <2> QED BY Zenon, <2>1, <2>3, CleanSnapshot
<1>10. CASE BucketError(w, t)
    <2>1. /\ f.pc \in {"put", "write", "reread"} /\ Goto(w, t, IdleFrame) /\ UNCHANGED <<mode, local, history>>
          /\ bucket' = bucket \/ (f.pc = "put" /\ Write(w, f))
        BY Zenon, <1>10 DEF BucketError, Abort
    <2>2. f.pc # "idle"
        BY <2>1
    <2>3. CASE bucket' = bucket
        BY Zenon, <1>3, <2>1, <2>2, <2>3
    <2>4. CASE f.pc = "put" /\ Write(w, f)
        BY Zenon, <2>1, <2>4, CleanWrite
    <2> QED BY Zenon, <2>1, <2>3, <2>4
<1> QED BY Zenon, <1>4, <1>5, <1>6, <1>7, <1>8, <1>9, <1>10, CleanMerge, CleanFinish DEF FlushStep

\* The constructor, stop(), and the end of a process.
LEMMA CleanProcess ==
    ASSUME OneFlushAtATime, TypeOK, CleanInv, NEW w \in Writers, BackgroundFlush(w) \/ ForceFlush(w) \/ ProcessStep(w)
    PROVE  CleanInv'
<1>1. CleanWriter(w) /\ \A t \in Threads : CleanFrame(w, t)
    BY Zenon DEF CleanInv
<1>2. "bg" \in Threads /\ "main" \in Threads /\ \A t \in Threads : t = "bg" \/ t = "main"
    BY Zenon DEF Threads
<1>3. \A v \in Writers \ {w} : \A m : mode' = [mode EXCEPT ![w] = m] => mode'[v] = mode[v]
    BY Zenon DEF TypeOK
<1>4. \A m : mode' = [mode EXCEPT ![w] = m] => mode'[w] = m
    BY Zenon DEF TypeOK
<1>5. bucket.etag \in Nat /\ IdleFrame.pc = "idle" /\ IdleFrame.etag = 0
    BY DEF TypeOK, IdleFrame
<1>6. ~ForceFlush(w)
    BY Zenon DEF OneFlushAtATime, ForceFlush
<1>7. CASE BackgroundFlush(w)
    <2>1. mode[w] = "up" /\ dirty[w] /\ Snapshot(w, "bg", FALSE) /\ mode' = mode
        BY Zenon, <1>7 DEF BackgroundFlush
    <2>2. frame[w]["main"].pc = "idle" /\ mode'[w] # "down" /\ mode'[w] # "final"
        BY <1>1, <2>1 DEF CleanWriter
    <2>3. \A u \in Threads \ {"bg"} : frame[w][u].pc = "idle"
        BY Zenon, <1>2, <2>2
    <2> QED BY Zenon, <1>2, <2>1, <2>2, <2>3, CleanSnapshot
<1>8. CASE Start(w)
    <2>1. /\ mode[w] = "down" /\ mode' = [mode EXCEPT ![w] = "up"]
          /\ outstanding' = [outstanding EXCEPT ![w] = bucket.q] /\ etag' = [etag EXCEPT ![w] = bucket.etag]
          /\ dirty' = [dirty EXCEPT ![w] = bucket.etag = 0] /\ lost' = [lost EXCEPT ![w] = FALSE]
          /\ UNCHANGED <<bucket, frame>>
        BY Zenon, <1>8 DEF Start
    <2>2. /\ mode'[w] = "up" /\ outstanding'[w] = bucket.q /\ etag'[w] = bucket.etag
          /\ \A v \in Writers \ {w} : /\ mode'[v] = mode[v] /\ outstanding'[v] = outstanding[v] /\ etag'[v] = etag[v]
                                      /\ dirty'[v] = dirty[v] /\ lost'[v] = lost[v]
        BY Zenon, <2>1 DEF TypeOK
    <2>3. frame[w]["bg"].pc = "idle" /\ frame[w]["main"].pc = "idle"
        BY <1>1, <2>1 DEF CleanWriter
    <2>4. ASSUME NEW t \in Threads PROVE CleanFrame(w, t)'
        <3>1. frame[w][t].pc = "idle" /\ frame[w][t].etag <= bucket.etag
            BY Zenon, <1>1, <1>2, <2>3 DEF CleanFrame
        <3> QED BY <2>1, <3>1 DEF CleanFrame
    <2>5. CleanWriter(w)'
        BY <1>5, <2>1, <2>2, <2>3 DEF CleanWriter
    <2> QED BY Zenon, <2>1, <2>2, <2>4, <2>5, CleanLocal DEF Fresh
<1>9. CASE StopRequest(w) \/ (StopFlush(w) /\ UNCHANGED frame)
    <2>1. /\ UNCHANGED <<bucket, outstanding, etag, dirty, lost, frame>>
          /\ \/ mode[w] = "up" /\ mode' = [mode EXCEPT ![w] = "stopping"]
             \/ mode[w] = "stopping" /\ mode' = [mode EXCEPT ![w] = "final"] /\ frame[w]["bg"].pc = "idle"
        BY Zenon, <1>9 DEF StopRequest, StopFlush, OneFlushAtATime, local, history, Snapshot
    <2>2. CleanWriter(w)'
        BY <1>1, <1>4, <2>1 DEF CleanWriter
    <2>3. \A t \in Threads : CleanFrame(w, t)'
        BY Zenon, <1>1, <2>1 DEF CleanFrame
    <2> QED BY Zenon, <1>3, <2>1, <2>2, <2>3, CleanLocal DEF Fresh
<1>10. CASE StopFlush(w) /\ Snapshot(w, "main", FALSE) /\ dirty[w]
    <2>1. mode' = [mode EXCEPT ![w] = "final"] /\ frame[w]["bg"].pc = "idle"
        BY Zenon, <1>10 DEF StopFlush, OneFlushAtATime
    <2>2. mode'[w] = "final" /\ \A u \in Threads \ {"main"} : frame[w][u].pc = "idle"
        BY Zenon, <1>2, <1>4, <2>1
    <2>3. mode'[w] # "down"
        BY <2>2
    <2> QED BY Zenon, <1>2, <1>3, <1>10, <2>1, <2>2, <2>3, CleanSnapshot
<1>11. CASE Down(w)
    <2>1. /\ mode' = [mode EXCEPT ![w] = "down"] /\ frame' = [frame EXCEPT ![w] = [t \in Threads |-> IdleFrame]]
          /\ UNCHANGED <<bucket, outstanding, etag, dirty, lost>>
        BY Zenon, <1>11 DEF Down, local, history
    <2>2. /\ \A t \in Threads : frame'[w][t] = IdleFrame
          /\ \A v \in Writers \ {w} : frame'[v] = frame[v]
        BY ZenonT(20), <2>1 DEF TypeOK
    <2>3. CleanWriter(w)'
        BY <1>1, <1>2, <1>4, <1>5, <2>1, <2>2 DEF CleanWriter
    <2>4. \A t \in Threads : CleanFrame(w, t)'
        BY <1>5, <2>1, <2>2 DEF CleanFrame
    <2> QED BY Zenon, <1>3, <2>1, <2>2, <2>3, <2>4, CleanLocal DEF Fresh
<1>12. CASE StopFlush(w)
    BY Zenon, <1>9, <1>10, <1>12 DEF StopFlush
<1> QED BY Zenon, <1>6, <1>7, <1>8, <1>9, <1>11, <1>12 DEF ProcessStep, Exit, Crash

\* The queues start clean, with nobody in flush().
LEMMA CleanInit == Init => CleanInv
<1>1. IdleFrame.pc = "idle" /\ IdleFrame.etag = 0
    BY DEF IdleFrame
<1> QED BY <1>1 DEF Init, CleanInv, CleanWriter, CleanFrame, Threads

\* Every step keeps the invariant.
LEMMA CleanStep ==
    ASSUME OneFlushAtATime, TypeOK, CleanInv, [Next]_vars
    PROVE  CleanInv'
<1>1. CASE UNCHANGED vars
    BY Zenon, <1>1 DEF vars, local, history, CleanInv, CleanWriter, CleanFrame
<1>2. CASE Tick
    BY Zenon, <1>2 DEF Tick, local, history, CleanInv, CleanWriter, CleanFrame
<1>3. ASSUME NEW w \in Writers, MutateStep(w) PROVE CleanInv'
    BY Zenon, <1>3, CleanMutate DEF MutateStep, Add, RemoveMany, Replay, PruneExpired, Drop
<1> QED BY Zenon, <1>1, <1>2, <1>3, CleanFlush, CleanProcess DEF Next

\* Where managers and send_job are the writers and stop() waits for a flush that
\* runs, a clean queue with the current etag is a published one unless a mutator
\* raced its last flush: for any number of processes over one bucket, with PUTs
\* that are conditional or not, lost replies, failed calls and crashes.
THEOREM CleanIsPublishedUnlessRaced ==
    ASSUME OneFlushAtATime
    PROVE  Spec => []CleanUnlessRaced
<1>1. CleanInv => CleanUnlessRaced
    BY Zenon DEF CleanInv, CleanWriter, CleanUnlessRaced
<1> QED BY <1>1, CleanInit, CleanStep, TypeCorrect, PTL DEF Spec

------------------------------------------------------------------------------
\* An orchestrator alone brings no finished work back.

\* One process at a time over the bucket, and PUTs that raise took no effect.
NobodyElse == OneFlushAtATime /\ ~LostReplies /\ \A v, w \in Writers : v = w

\* The process's etag is the current one, and so is its flush's; no flush comes
\* to a merge.
InStep(w) ==
    mode[w] # "down" =>
        /\ \A t \in Threads : \/ frame[w][t].pc = "idle"
                              \/ frame[w][t].pc \in {"put", "write", "finish"} /\ frame[w][t].etag = bucket.etag
        /\ (\A t \in Threads : frame[w][t].pc # "finish") => etag[w] = bucket.etag

LoneInv == \A w \in Writers : InStep(w)

\* A flush starts with the current etag.
LEMMA InStepSnapshot ==
    ASSUME TypeOK, LoneInv, NEW w \in Writers, NEW t \in Threads, NEW again, Snapshot(w, t, again), mode[w] # "down",
           \A u \in Threads : frame[w][u].pc = "idle"
    PROVE  InStep(w)'
<1> DEFINE f == [pc |-> "put", retry |-> again, q |-> outstanding[w],
                 sid |-> snapshot_id[w] + 1, etag |-> etag[w], raced |-> FALSE]
<1>1. Goto(w, t, f) /\ UNCHANGED <<bucket, etag>>
    BY Zenon DEF Snapshot
<1>2. f.pc = "put" /\ f.etag = etag[w]
    BY Zenon
<1> HIDE DEF f
<1>3. frame'[w][t] = f /\ \A u \in Threads \ {t} : frame'[w][u] = frame[w][u]
    BY ZenonT(20), <1>1, Moved
<1>4. etag[w] = bucket.etag
    BY DEF LoneInv, InStep
<1> QED BY <1>1, <1>2, <1>3, <1>4 DEF InStep

\* The flush of a process moves on, and no other thread of it is in one.
LEMMA InStepMove ==
    ASSUME TypeOK, NEW w \in Writers, NEW t \in Threads, NEW f, Goto(w, t, f),
           \A u \in Threads \ {t} : frame[w][u].pc = "idle",
           \/ f.pc \in {"put", "write"} /\ f.etag = bucket'.etag /\ etag'[w] = bucket'.etag
           \/ f.pc = "finish" /\ f.etag = bucket'.etag
           \/ f.pc = "idle" /\ etag'[w] = bucket'.etag
    PROVE  InStep(w)'
<1>1. frame'[w][t] = f /\ \A u \in Threads \ {t} : frame'[w][u] = frame[w][u]
    BY ZenonT(20), Moved
<1> QED BY <1>1 DEF InStep

\* The steps of flush() that a process alone comes to.
LEMMA InStepFlush ==
    ASSUME NobodyElse, TypeOK, CleanInv, LoneInv, NEW w \in Writers, NEW t \in Threads,
           FlushStep(w, t) \/ BucketError(w, t)
    PROVE  InStep(w)' /\ outstanding' = outstanding
<1> DEFINE f == frame[w][t]
<1>1. f \in Frame /\ bucket.etag \in Nat
    BY Zenon, FrameType DEF TypeOK
<1>2. f.pc # "idle"
    BY DEF FlushStep, PutOk, PutCheck, PutWrite, PutConflict, Reread, Merge, Resnapshot, Finish, BucketError, At
<1>3. mode[w] # "down" /\ \A u \in Threads \ {t} : frame[w][u].pc = "idle"
    BY Zenon, <1>2, Flushing
<1>4. f.pc \in {"put", "write", "finish"} /\ f.etag = bucket.etag
    BY Zenon, <1>2, <1>3 DEF LoneInv, InStep
<1>5. f.pc # "finish" => etag[w] = bucket.etag
    BY <1>3 DEF LoneInv, InStep
<1>6. /\ ~PutConflict(w, t) /\ ~Reread(w, t) /\ ~Merge(w, t) /\ ~Resnapshot(w, t)
    BY <1>4 DEF PutConflict, Reread, Merge, Resnapshot, At
<1>7. CASE PutOk(w, t) \/ PutWrite(w, t)
    <2> DEFINE g == [f EXCEPT !.pc = "finish", !.etag = bucket.etag + 1]
    <2>1. Goto(w, t, g) /\ Write(w, f) /\ UNCHANGED outstanding
        BY Zenon, <1>7 DEF PutOk, PutWrite, local
    <2>2. g.pc = "finish" /\ g.etag = bucket.etag + 1
        BY <1>1 DEF Frame
    <2>3. bucket'.etag = bucket.etag + 1
        BY Zenon, <2>1 DEF Write
    <2> HIDE DEF g
    <2> QED BY Zenon, <1>3, <2>1, <2>2, <2>3, InStepMove
<1>8. CASE PutCheck(w, t)
    <2> DEFINE g == [f EXCEPT !.pc = "write"]
    <2>1. f.pc = "put" /\ Goto(w, t, g) /\ UNCHANGED <<bucket, etag, outstanding>>
        BY Zenon, <1>8 DEF PutCheck, At, local
    <2>2. g.pc = "write" /\ g.etag = f.etag
        BY Zenon, <1>1 DEF Frame
    <2> HIDE DEF g
    <2>3. g.pc \in {"put", "write"} /\ etag'[w] = bucket'.etag /\ g.etag = bucket'.etag
        BY <1>4, <1>5, <2>1, <2>2
    <2> QED BY Zenon, <1>3, <2>1, <2>3, InStepMove
<1>9. CASE Finish(w, t)
    <2>1. Goto(w, t, IdleFrame) /\ etag' = [etag EXCEPT ![w] = f.etag] /\ UNCHANGED <<bucket, outstanding>>
        BY Zenon, <1>9 DEF Finish
    <2>2. IdleFrame.pc = "idle" /\ etag'[w] = bucket'.etag
        BY <1>4, <2>1 DEF IdleFrame, TypeOK
    <2> QED BY Zenon, <1>3, <2>1, <2>2, InStepMove
<1>10. CASE BucketError(w, t)
    <2>1. f.pc \in {"put", "write", "reread"} /\ Goto(w, t, IdleFrame) /\ UNCHANGED <<bucket, etag, outstanding>>
        BY Zenon, <1>10 DEF BucketError, Abort, local, NobodyElse
    <2>2. IdleFrame.pc = "idle" /\ etag'[w] = bucket'.etag
        BY <1>5, <2>1 DEF IdleFrame
    <2> QED BY Zenon, <1>3, <2>1, <2>2, InStepMove
<1> QED BY Zenon, <1>6, <1>7, <1>8, <1>9, <1>10 DEF FlushStep

\* The other steps of a process.
LEMMA InStepProcess ==
    ASSUME NobodyElse, TypeOK, CleanInv, LoneInv, NEW w \in Writers,
           BackgroundFlush(w) \/ ForceFlush(w) \/ ProcessStep(w)
    PROVE  InStep(w)' /\ (outstanding' = outstanding \/ \A v \in Writers : mode[v] = "down")
<1>1. CleanWriter(w) /\ InStep(w)
    BY Zenon DEF CleanInv, LoneInv
<1>2. \A t \in Threads : t = "bg" \/ t = "main"
    BY Zenon DEF Threads
<1>3. ~ForceFlush(w)
    BY Zenon DEF NobodyElse, OneFlushAtATime, ForceFlush
<1>4. CASE BackgroundFlush(w)
    <2>1. mode[w] = "up" /\ Snapshot(w, "bg", FALSE) /\ frame[w]["bg"].pc = "idle" /\ outstanding' = outstanding
        BY Zenon, <1>4 DEF BackgroundFlush, Snapshot
    <2>2. mode[w] # "down" /\ frame[w]["main"].pc = "idle"
        BY <1>1, <2>1 DEF CleanWriter
    <2>3. "bg" \in Threads
        BY Zenon DEF Threads
    <2> QED BY Zenon, <1>2, <2>1, <2>2, <2>3, InStepSnapshot
<1>5. CASE Start(w)
    <2>1. mode[w] = "down" /\ etag' = [etag EXCEPT ![w] = bucket.etag] /\ UNCHANGED <<bucket, frame>>
        BY Zenon, <1>5 DEF Start
    <2>2. frame[w]["bg"].pc = "idle" /\ frame[w]["main"].pc = "idle"
        BY <1>1, <2>1 DEF CleanWriter
    <2>3. \A t \in Threads : frame'[w][t].pc = "idle"
        BY Zenon, <1>2, <2>1, <2>2
    <2>4. etag'[w] = bucket'.etag
        BY Zenon, <2>1 DEF TypeOK
    <2>5. \A v \in Writers : mode[v] = "down"
        BY Zenon, <2>1 DEF NobodyElse
    <2> QED BY Zenon, <2>3, <2>4, <2>5 DEF InStep
<1>6. CASE StopRequest(w)
    <2>1. mode[w] = "up" /\ UNCHANGED <<bucket, etag, outstanding, frame>>
        BY Zenon, <1>6 DEF StopRequest, local
    <2>2. mode[w] # "down"
        BY <2>1
    <2> QED BY Zenon, <1>1, <2>1, <2>2 DEF InStep
<1>7. CASE StopFlush(w)
    <2>1. /\ mode[w] = "stopping" /\ frame[w]["bg"].pc = "idle" /\ outstanding' = outstanding
          /\ Snapshot(w, "main", FALSE) \/ UNCHANGED <<bucket, etag, frame>>
        BY Zenon, <1>7 DEF StopFlush, local, Snapshot, NobodyElse, OneFlushAtATime
    <2>2. mode[w] # "down" /\ frame[w]["main"].pc = "idle"
        BY <1>1, <2>1 DEF CleanWriter
    <2>3. CASE Snapshot(w, "main", FALSE)
        <3>1. "main" \in Threads
            BY Zenon DEF Threads
        <3> QED BY Zenon, <1>2, <2>1, <2>2, <2>3, <3>1, InStepSnapshot
    <2>4. CASE UNCHANGED <<bucket, etag, frame>>
        BY Zenon, <1>1, <2>1, <2>2, <2>4 DEF InStep
    <2> QED BY Zenon, <2>1, <2>3, <2>4
<1>8. CASE Exit(w) \/ Crash(w)
    <2>1. mode' = [mode EXCEPT ![w] = "down"] /\ outstanding' = outstanding
        BY Zenon, <1>8 DEF Exit, Crash, Down, local
    <2>2. mode'[w] = "down"
        BY Zenon, <2>1 DEF TypeOK
    <2> QED BY Zenon, <2>1, <2>2 DEF InStep
<1> QED BY Zenon, <1>3, <1>4, <1>5, <1>6, <1>7, <1>8 DEF ProcessStep

\* A mutator changes no etag, and adds a job by add() alone.
LEMMA InStepMutate ==
    ASSUME TypeOK, LoneInv, NEW w \in Writers, MutateStep(w)
    PROVE  InStep(w)' /\ NothingResurrected
<1>1. PICK q : Mutate(w, q)
    BY Zenon DEF MutateStep, Add, RemoveMany, Replay, PruneExpired, Drop
<1>2. /\ outstanding' = [outstanding EXCEPT ![w] = q]
      /\ frame' = [frame EXCEPT ![w] = Raced(w)] /\ UNCHANGED <<bucket, mode, etag>>
    BY Zenon, <1>1 DEF Mutate
<1>3. ASSUME NEW t \in Threads PROVE SameFlush(frame'[w][t], frame[w][t])
    <2>1. frame[w][t] \in Frame /\ frame'[w] = Raced(w)
        BY ZenonT(20), <1>2, FrameType DEF TypeOK
    <2>2. frame'[w][t] = frame[w][t] \/ frame'[w][t] = [frame[w][t] EXCEPT !.raced = TRUE]
        BY <2>1 DEF Raced
    <2> QED BY Zenon, <2>1, <2>2, RacedFrame
<1>4. InStep(w)'
    BY Zenon, <1>2, <1>3 DEF LoneInv, InStep, SameFlush
<1>5. ASSUME NEW v \in Writers, NEW j \in Jobs, j \notin Ids(outstanding[v]), j \in Ids(outstanding'[v])
      PROVE  \E d \in Deadlines : Add(v, j, d)
    <2>1. v = w
        BY Zenon, <1>2, <1>5 DEF TypeOK, Ids
    <2>2. outstanding[w][j] = None /\ outstanding'[w][j] # None
        BY Zenon, <1>5, <2>1 DEF Ids
    <2>3. ASSUME NEW js, Drop(w, js) PROVE FALSE
        <3>1. outstanding' = [outstanding EXCEPT ![w] = [k \in Jobs |-> IF k \in js THEN None ELSE outstanding[w][k]]]
            BY Zenon, <2>3 DEF Drop, Mutate
        <3>2. outstanding'[w][j] = IF j \in js THEN None ELSE outstanding[w][j]
            BY Zenon, <3>1 DEF TypeOK
        <3> QED BY Zenon, <2>2, <3>2
    <2>4. ASSUME NEW k \in Jobs, NEW e, Mutate(w, [outstanding[w] EXCEPT ![k] = e]), k # j PROVE FALSE
        <3>1. outstanding'[w] = [outstanding[w] EXCEPT ![k] = e]
            BY Zenon, <2>4 DEF Mutate, TypeOK
        <3>2. outstanding'[w][j] = outstanding[w][j]
            BY Zenon, <2>4, <3>1 DEF TypeOK, Queue
        <3> QED BY Zenon, <2>2, <3>2
    <2>5. ASSUME NEW k \in Jobs, NEW a \in 1..MaxAttempt, NEW d \in Deadlines, Replay(w, k, a, d) PROVE FALSE
        BY Zenon, <1>5, <2>1, <2>4, <2>5 DEF Replay
    <2>6. ASSUME NEW k \in Jobs, NEW d \in Deadlines, Add(w, k, d) PROVE Add(v, j, d)
        BY Zenon, <2>1, <2>4, <2>6 DEF Add
    <2> QED BY Zenon, <2>3, <2>5, <2>6 DEF MutateStep, RemoveMany, PruneExpired
<1> QED BY Zenon, <1>4, <1>5 DEF NothingResurrected

\* A manager alone over its bucket, whose PUTs either take effect or do not, never
\* holds a finished job again unless it is added anew: across restarts and
\* crashes its etag is the bucket's, and flush() comes to no merge.
THEOREM AloneNothingReturns ==
    ASSUME NobodyElse
    PROVE  Spec => NoResurrection
<1>1. Init => CleanInv /\ LoneInv
    BY CleanInit DEF Init, LoneInv, InStep
<1>2. ASSUME TypeOK, CleanInv, LoneInv, [Next]_vars PROVE LoneInv' /\ [NothingResurrected]_vars
    <2>1. ASSUME outstanding' = outstanding \/ \A v \in Writers : mode[v] = "down" PROVE NothingResurrected
        BY Zenon, <2>1 DEF NothingResurrected, Ids
    <2>2. ASSUME NEW w \in Writers, InStep(w)' PROVE LoneInv'
        BY Zenon, <2>2 DEF NobodyElse, LoneInv
    <2>3. CASE UNCHANGED vars
        BY Zenon, <1>2, <2>3 DEF vars, local, LoneInv, InStep
    <2>4. CASE Tick
        BY Zenon, <1>2, <2>1, <2>4 DEF Tick, local, LoneInv, InStep
    <2>5. ASSUME NEW w \in Writers, MutateStep(w) PROVE LoneInv' /\ NothingResurrected
        BY Zenon, <1>2, <2>2, <2>5, InStepMutate
    <2>6. ASSUME NEW w \in Writers, BackgroundFlush(w) \/ ForceFlush(w) \/ ProcessStep(w)
          PROVE  LoneInv' /\ NothingResurrected
        BY Zenon, <1>2, <2>1, <2>2, <2>6, InStepProcess
    <2>7. ASSUME NEW w \in Writers, NEW t \in Threads, FlushStep(w, t) \/ BucketError(w, t)
          PROVE  LoneInv' /\ NothingResurrected
        BY Zenon, <1>2, <2>1, <2>2, <2>7, InStepFlush
    <2> QED BY Zenon, <1>2, <2>3, <2>4, <2>5, <2>6, <2>7 DEF Next
<1>3. OneFlushAtATime
    BY DEF NobodyElse
<1> QED BY <1>1, <1>2, <1>3, CleanStep, TypeCorrect, PTL DEF Spec, NoResurrection
===============================================================================
