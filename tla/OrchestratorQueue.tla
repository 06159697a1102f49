-------------------------- MODULE OrchestratorQueue --------------------------
(***************************************************************************)
(* The outstanding-work queue of teuton_runtime/queue.py: one queue object *)
(* in the bucket, and the processes ("writers") that each hold an          *)
(* OrchestratorQueue over it.  A "manager" (RunManager or                  *)
(* StreamingRunManager) runs the background flush and calls stop() when it *)
(* ends; "send_job" (send_pipe_forward_job) builds a StreamingRunManager,  *)
(* adds one job and returns without stop(); a "one_shot"                   *)
(* (submit_manifest_file, AuditJobManager) has no background thread and    *)
(* flushes itself.                                                         *)
(*                                                                         *)
(* A process has two threads that touch the queue: "main", which calls the *)
(* mutators and stop(), and "bg", the daemon running _flush_loop.  Every   *)
(* section under self._lock is one atomic step; the bucket calls between   *)
(* two such sections are steps of their own.                               *)
(*                                                                         *)
(* The bucket object is a version number (its etag; 0: no object), the     *)
(* snapshot_id and the outstanding entries.  Every PUT makes a fresh etag. *)
(***************************************************************************)
EXTENDS Naturals

CONSTANTS
    Jobs,          \* job ids
    Writers,       \* processes that own an OrchestratorQueue for the run
    Kind,          \* Kind[w]: "manager", "send_job" or "one_shot"
    Deadlines,     \* deadline_unix values of new entries; 0 means none
    None,          \* "no entry"
    MaxAttempt,    \* bound on the attempt numbers given to replay()
    MaxNow,        \* bound on the clock
    MaxMutations,  \* bound on the calls that change the queue
    MaxFaults,     \* bound on crashes and failed bucket calls
    LostReplies,   \* TRUE: a PUT may take effect and still raise
    SlowPuts,      \* TRUE: a PUT may outlast the 2 s join of stop()
    AtomicPut      \* TRUE: S3 conditional PUT; FALSE: LocalBucket's stat, then write

ASSUME ConstantsAssumption ==
    /\ Deadlines \subseteq Nat
    /\ Kind \in [Writers -> {"manager", "send_job", "one_shot"}]
    /\ MaxAttempt \in Nat /\ MaxNow \in Nat /\ MaxMutations \in Nat /\ MaxFaults \in Nat
    /\ LostReplies \in BOOLEAN /\ SlowPuts \in BOOLEAN /\ AtomicPut \in BOOLEAN

Threads == {"main", "bg"}

Entry == [attempt : Nat, deadline : Nat]

\* None is told apart from every entry.
ASSUME NoneAssumption == None \notin Entry

Queue == [Jobs -> Entry \cup {None}]

Empty == [j \in Jobs |-> None]

Ids(q) == {j \in Jobs : q[j] # None}

\* A thread's progress through flush(), with the locals that it carries.
\* q/sid: the snapshot to PUT, or the one read back for the merge;
\* etag: the If-Match value, the etag read back, or the one the PUT returned;
\* raced: the in-memory queue changed since the snapshot was taken.
Frame == [pc : {"idle", "put", "write", "reread", "merge", "resnap", "finish"},
          retry : BOOLEAN, q : Queue, sid : Nat, etag : Nat, raced : BOOLEAN]

IdleFrame == [pc |-> "idle", retry |-> FALSE, q |-> Empty, sid |-> 0,
              etag |-> 0, raced |-> FALSE]

VARIABLES
    bucket,        \* the queue object: [etag, sid, q, by], by: who wrote it
    mode,          \* mode[w]: "down", "up", "stopping" or "final"
    outstanding,   \* self._outstanding
    snapshot_id,   \* self._snapshot_id
    etag,          \* self._etag; 0 for None
    dirty,         \* self._dirty
    pending,       \* self._pending_changes > 0
    frame,         \* frame[w][t]: where thread t of w is in flush()
    now,           \* the clock
    mutations, faults,  \* what is spent of MaxMutations and MaxFaults
    gone,          \* history: jobs this process has removed or pruned
    lost           \* history: the last flush to finish was raced

local == <<outstanding, snapshot_id, etag, dirty, pending>>
budget == <<now, mutations, faults>>
history == <<gone, lost>>
vars == <<bucket, mode, local, frame, budget, history>>

------------------------------------------------------------------------------
\* Mutators: main thread, under the lock.

\* Mutant: the merge keeps its own snapshot_id.
First(a, b) == a

Max2(a, b) == IF a > b THEN a ELSE b

\* The frames of w after its in-memory queue changed: a flush between its
\* snapshot and its last locked section does not know of the change.
Raced(w) == [t \in Threads |-> IF frame[w][t].pc \in {"put", "write", "finish"}
                               THEN [frame[w][t] EXCEPT !.raced = TRUE]
                               ELSE frame[w][t]]

CanMutate(w) ==
    /\ mode[w] = "up"
    /\ frame[w]["main"].pc = "idle"
    /\ mutations < MaxMutations

\* Mutant: the change is counted but the queue is not marked dirty.
MutateUnmarked(w, q) ==
    /\ outstanding' = [outstanding EXCEPT ![w] = q]
    /\ pending' = [pending EXCEPT ![w] = TRUE]
    /\ frame' = [frame EXCEPT ![w] = Raced(w)]
    /\ mutations' = mutations + 1
    /\ UNCHANGED <<bucket, mode, snapshot_id, etag, dirty, now, faults, lost>>

\* _mark_dirty after the in-memory queue became q.
Mutate(w, q) ==
    /\ outstanding' = [outstanding EXCEPT ![w] = q]
    /\ dirty' = [dirty EXCEPT ![w] = TRUE]
    /\ pending' = [pending EXCEPT ![w] = TRUE]
    /\ frame' = [frame EXCEPT ![w] = Raced(w)]
    /\ mutations' = mutations + 1
    /\ UNCHANGED <<bucket, mode, snapshot_id, etag, now, faults, lost>>

Drop(w, js) ==
    /\ Mutate(w, [j \in Jobs |-> IF j \in js THEN None ELSE outstanding[w][j]])
    /\ gone' = [gone EXCEPT ![w] = @ \cup js]

Add(w, j, d) ==
    /\ CanMutate(w)
    /\ Mutate(w, [outstanding[w] EXCEPT ![j] = [attempt |-> 0, deadline |-> d]])
    /\ UNCHANGED gone

\* remove() is remove_many() of one job.  Absent jobs change nothing.
RemoveMany(w, js) ==
    /\ CanMutate(w)
    /\ js # {}
    /\ js \subseteq Ids(outstanding[w])
    /\ Drop(w, js)

Replay(w, j, a, d) ==
    /\ CanMutate(w)
    /\ j \in Ids(outstanding[w])
    /\ Mutate(w, [outstanding[w] EXCEPT ![j] = [attempt |-> a, deadline |-> d]])
    /\ UNCHANGED gone

Expired(q) == {j \in Ids(q) : q[j].deadline # 0 /\ q[j].deadline < now}

PruneExpired(w) ==
    /\ CanMutate(w)
    /\ Expired(outstanding[w]) # {}
    /\ Drop(w, Expired(outstanding[w]))

------------------------------------------------------------------------------
\* flush(), step by step.  The thread moves from frame to frame.

Goto(w, t, f) == frame' = [frame EXCEPT ![w][t] = f]

\* The first locked section: number the snapshot, copy the queue, note the etag.
Snapshot(w, t, again) ==
    /\ snapshot_id' = [snapshot_id EXCEPT ![w] = @ + 1]
    /\ Goto(w, t, [pc |-> "put", retry |-> again, q |-> outstanding[w],
                   sid |-> snapshot_id[w] + 1, etag |-> etag[w], raced |-> FALSE])
    /\ UNCHANGED <<bucket, outstanding, etag, dirty, pending, history>>

\* _flush_loop: one iteration that decides to flush.
BackgroundFlush(w) ==
    /\ mode[w] = "up"
    /\ Kind[w] # "one_shot"
    /\ frame[w]["bg"].pc = "idle"
    /\ dirty[w] /\ pending[w]
    /\ Snapshot(w, "bg", FALSE)
    /\ UNCHANGED <<mode, budget>>

\* flush(force=True), called by submit-manifest and by AuditJobManager.
ForceFlush(w) ==
    /\ CanMutate(w)
    /\ Kind[w] = "one_shot"
    /\ Snapshot(w, "main", FALSE)
    /\ mutations' = mutations + 1
    /\ UNCHANGED <<mode, now, faults>>

\* A PUT that takes effect.
Write(w, f) == bucket' = [etag |-> bucket.etag + 1, sid |-> f.sid, q |-> f.q, by |-> w]

At(w, t, pc) == mode[w] # "down" /\ frame[w][t].pc = pc

\* Mutant: an exception ends the background thread.
AbortThread(w, t) == Goto(w, t, [IdleFrame EXCEPT !.pc = "dead"])

\* The thread leaves flush() with an exception.  _flush_loop and stop() swallow it.
Abort(w, t) == Goto(w, t, IdleFrame)

\* Mutant: the PUT carries no If-Match.
PutUnconditional(w, t) ==
    LET f == frame[w][t] IN
    /\ At(w, t, "put")
    /\ AtomicPut
    /\ Write(w, f)
    /\ Goto(w, t, [f EXCEPT !.pc = "finish", !.etag = bucket.etag + 1])
    /\ UNCHANGED <<mode, local, budget, history>>

PutOk(w, t) ==
    LET f == frame[w][t] IN
    /\ At(w, t, "put")
    /\ AtomicPut
    /\ f.etag = bucket.etag
    /\ Write(w, f)
    /\ Goto(w, t, [f EXCEPT !.pc = "finish", !.etag = bucket.etag + 1])
    /\ UNCHANGED <<mode, local, budget, history>>

\* LocalBucket.put_with_etag: the etag is compared first ...
PutCheck(w, t) ==
    LET f == frame[w][t] IN
    /\ At(w, t, "put")
    /\ ~AtomicPut
    /\ f.etag = bucket.etag
    /\ Goto(w, t, [f EXCEPT !.pc = "write"])
    /\ UNCHANGED <<bucket, mode, local, budget, history>>

\* ... and the file is replaced afterwards, whatever it holds by then.
PutWrite(w, t) ==
    LET f == frame[w][t] IN
    /\ At(w, t, "write")
    /\ Write(w, f)
    /\ Goto(w, t, [f EXCEPT !.pc = "finish", !.etag = bucket.etag + 1])
    /\ UNCHANGED <<mode, local, budget, history>>

\* PreconditionFailed: merge and retry once; the second time it propagates.
PutConflict(w, t) ==
    LET f == frame[w][t] IN
    /\ At(w, t, "put")
    /\ f.etag # bucket.etag
    /\ IF f.retry THEN Abort(w, t) ELSE Goto(w, t, [IdleFrame EXCEPT !.pc = "reread"])
    /\ UNCHANGED <<bucket, mode, local, budget, history>>

\* Any other failure of a bucket call: refused, or a PUT done with its reply lost.
BucketError(w, t) ==
    /\ mode[w] # "down"
    /\ frame[w][t].pc \in {"put", "write", "reread"}
    /\ faults < MaxFaults
    /\ \/ UNCHANGED bucket
       \/ /\ LostReplies /\ AtomicPut
          /\ frame[w][t].pc = "put" /\ frame[w][t].etag = bucket.etag
          /\ Write(w, frame[w][t])
    /\ Abort(w, t)
    /\ faults' = faults + 1
    /\ UNCHANGED <<mode, local, now, mutations, history>>

\* _merge_from_bucket: read_queue outside the lock ...
Reread(w, t) ==
    /\ At(w, t, "reread")
    /\ Goto(w, t, [IdleFrame EXCEPT !.pc = "merge", !.q = bucket.q,
                                    !.sid = bucket.sid, !.etag = bucket.etag])
    /\ UNCHANGED <<bucket, mode, local, budget, history>>

\* Mutant: the merge adopts the etag but none of the entries.
MergedNothing(mine, read) == mine

\* ... then setdefault() of what was read, under it.
Merged(mine, read) == [j \in Jobs |-> IF mine[j] # None THEN mine[j] ELSE read[j]]

Merge(w, t) ==
    LET f == frame[w][t]
        q == Merged(outstanding[w], f.q)
    IN  /\ At(w, t, "merge")
        /\ outstanding' = [outstanding EXCEPT ![w] = q]
        /\ snapshot_id' = [snapshot_id EXCEPT ![w] = Max2(@, f.sid)]
        /\ etag' = [etag EXCEPT ![w] = f.etag]
        /\ frame' = [frame EXCEPT ![w] =
                        [(IF q = outstanding[w] THEN frame[w] ELSE Raced(w))
                            EXCEPT ![t] = [IdleFrame EXCEPT !.pc = "resnap"]]]
        /\ UNCHANGED <<bucket, mode, dirty, pending, budget, history>>

Resnapshot(w, t) ==
    /\ At(w, t, "resnap")
    /\ Snapshot(w, t, TRUE)
    /\ UNCHANGED <<mode, budget>>

\* Mutant: the etag that the PUT returned is forgotten.
FinishKeepsEtag(w, t) ==
    /\ At(w, t, "finish")
    /\ dirty' = [dirty EXCEPT ![w] = FALSE]
    /\ pending' = [pending EXCEPT ![w] = FALSE]
    /\ lost' = [lost EXCEPT ![w] = frame[w][t].raced]
    /\ Goto(w, t, IdleFrame)
    /\ UNCHANGED <<bucket, mode, outstanding, snapshot_id, etag, budget, gone>>

\* The last locked section: the queue is declared clean.
Finish(w, t) ==
    LET f == frame[w][t] IN
    /\ At(w, t, "finish")
    /\ etag' = [etag EXCEPT ![w] = f.etag]
    /\ dirty' = [dirty EXCEPT ![w] = FALSE]
    /\ pending' = [pending EXCEPT ![w] = FALSE]
    /\ lost' = [lost EXCEPT ![w] = f.raced]
    /\ Goto(w, t, IdleFrame)
    /\ UNCHANGED <<bucket, mode, outstanding, snapshot_id, budget, gone>>

------------------------------------------------------------------------------
\* The life of a process.

\* The constructor, reconcile_from_bucket and start_background_flush.
Start(w) ==
    /\ mode[w] = "down"
    /\ mode' = [mode EXCEPT ![w] = "up"]
    /\ outstanding' = [outstanding EXCEPT ![w] = bucket.q]
    /\ snapshot_id' = [snapshot_id EXCEPT ![w] = bucket.sid]
    /\ etag' = [etag EXCEPT ![w] = bucket.etag]
    /\ dirty' = [dirty EXCEPT ![w] = bucket.etag = 0]
    /\ pending' = [pending EXCEPT ![w] = FALSE]
    /\ gone' = [gone EXCEPT ![w] = {}]
    /\ lost' = [lost EXCEPT ![w] = FALSE]
    /\ UNCHANGED <<bucket, frame, budget>>

\* stop(): raise the stop event.
StopRequest(w) ==
    /\ mode[w] = "up"
    /\ Kind[w] = "manager"
    /\ frame[w]["main"].pc = "idle"
    /\ mode' = [mode EXCEPT ![w] = "stopping"]
    /\ UNCHANGED <<bucket, local, frame, budget, history>>

\* stop(): the join returns, or times out; then flush(force=False).
StopFlush(w) ==
    /\ mode[w] = "stopping"
    /\ SlowPuts \/ frame[w]["bg"].pc = "idle"
    /\ mode' = [mode EXCEPT ![w] = "final"]
    /\ IF dirty[w] THEN Snapshot(w, "main", FALSE)
       ELSE UNCHANGED <<bucket, local, frame, history>>
    /\ UNCHANGED budget

\* The process ends and takes its daemon thread with it.
Down(w) ==
    /\ mode' = [mode EXCEPT ![w] = "down"]
    /\ frame' = [frame EXCEPT ![w] = [t \in Threads |-> IdleFrame]]
    /\ UNCHANGED <<bucket, local, now, mutations, history>>

Exit(w) ==
    /\ mode[w] = (IF Kind[w] = "manager" THEN "final" ELSE "up")
    /\ frame[w]["main"].pc = "idle"
    /\ Down(w)
    /\ UNCHANGED faults

Crash(w) ==
    /\ mode[w] # "down"
    /\ faults < MaxFaults
    /\ faults' = faults + 1
    /\ Down(w)

Tick ==
    /\ now < MaxNow
    /\ now' = now + 1
    /\ UNCHANGED <<bucket, mode, local, frame, mutations, faults, history>>

Init ==
    /\ bucket = [etag |-> 0, sid |-> 0, q |-> Empty, by |-> None]
    /\ mode = [w \in Writers |-> "down"]
    /\ outstanding = [w \in Writers |-> Empty]
    /\ snapshot_id = [w \in Writers |-> 0]
    /\ etag = [w \in Writers |-> 0]
    /\ dirty = [w \in Writers |-> FALSE]
    /\ pending = [w \in Writers |-> FALSE]
    /\ frame = [w \in Writers |-> [t \in Threads |-> IdleFrame]]
    /\ now = 0
    /\ mutations = 0
    /\ faults = 0
    /\ gone = [w \in Writers |-> {}]
    /\ lost = [w \in Writers |-> FALSE]

MutateStep(w) ==
    \/ \E j \in Jobs, d \in Deadlines : Add(w, j, d)
    \/ \E js \in SUBSET Jobs : RemoveMany(w, js)
    \/ \E j \in Jobs, a \in 1..MaxAttempt, d \in Deadlines : Replay(w, j, a, d)
    \/ PruneExpired(w)

\* The steps that a thread inside flush() takes without any new fault.
FlushStep(w, t) ==
    \/ PutOk(w, t)
    \/ PutCheck(w, t)
    \/ PutWrite(w, t)
    \/ PutConflict(w, t)
    \/ Reread(w, t)
    \/ Merge(w, t)
    \/ Resnapshot(w, t)
    \/ Finish(w, t)

ProcessStep(w) ==
    \/ Start(w)
    \/ StopRequest(w)
    \/ StopFlush(w)
    \/ Exit(w)
    \/ Crash(w)

Next ==
    \/ Tick
    \/ \E w \in Writers :
        \/ MutateStep(w)
        \/ BackgroundFlush(w)
        \/ ForceFlush(w)
        \/ \E t \in Threads : FlushStep(w, t) \/ BucketError(w, t)
        \/ ProcessStep(w)

Spec == Init /\ [][Next]_vars

------------------------------------------------------------------------------
\* Properties.

TypeOK ==
    /\ bucket \in [etag : Nat, sid : Nat, q : Queue, by : Writers \cup {None}]
    /\ mode \in [Writers -> {"down", "up", "stopping", "final"}]
    /\ outstanding \in [Writers -> Queue]
    /\ snapshot_id \in [Writers -> Nat]
    /\ etag \in [Writers -> Nat]
    /\ dirty \in [Writers -> BOOLEAN]
    /\ pending \in [Writers -> BOOLEAN]
    /\ frame \in [Writers -> [Threads -> Frame]]
    /\ now \in Nat /\ mutations \in Nat /\ faults \in Nat
    /\ gone \in [Writers -> SUBSET Jobs]
    /\ lost \in [Writers -> BOOLEAN]

\* The point of If-Match on every PUT: an entry disappears from the published
\* queue only through a process that itself removed or pruned that entry.  What
\* another process published is never dropped unseen.
NoSilentDrop ==
    [][bucket' # bucket => Ids(bucket.q) \ Ids(bucket'.q) \subseteq gone[bucket'.by]]_vars

\* Readers take a larger snapshot_id for a newer snapshot: each PUT that takes
\* effect publishes a larger one, across processes, merges and restarts.
SnapshotIdAdvances ==
    [][bucket' # bucket => bucket.sid < bucket'.sid]_vars

\* The jobs that a process accounts for: it holds them or has dropped them.
Accounted(w) == Ids(outstanding[w]) \cup gone[w]

\* The etag a process remembers stands for a snapshot that it accounts for.
WriterInv(w) ==
    /\ etag[w] <= bucket.etag
    /\ etag[w] = bucket.etag
        => bucket.sid <= snapshot_id[w] /\ Ids(bucket.q) \subseteq Accounted(w)

\* So does the etag that a thread carries through flush().
FrameInv(w, t) ==
    LET f == frame[w][t] IN
    /\ f.etag <= bucket.etag
    /\ f.pc = "put" => f.sid <= snapshot_id[w] /\ Ids(f.q) \subseteq Accounted(w)
    /\ (f.pc = "put" /\ f.etag = bucket.etag)
        => bucket.sid < f.sid /\ Ids(bucket.q) \subseteq Ids(f.q) \cup gone[w]
    /\ (f.pc = "merge" /\ f.etag = bucket.etag) => f.q = bucket.q /\ f.sid = bucket.sid
    /\ (f.pc = "finish" /\ f.etag = bucket.etag)
        => bucket.sid <= snapshot_id[w] /\ Ids(bucket.q) \subseteq Accounted(w)

\* With conditional PUTs, an etag in anyone's hands that is still the current
\* one proves that its holder has seen everything in the published queue: the
\* inductive reason why a PUT under If-Match drops nothing unseen.
EtagMeansSeen ==
    AtomicPut =>
        \A w \in Writers :
            /\ WriterInv(w)
            /\ \A t \in Threads :
                /\ FrameInv(w, t)
                /\ frame[w][t].pc # "write"
                /\ mode[w] = "down" => frame[w][t].pc = "idle"

\* A process whose queue is clean, whose last flush was not raced by a mutator
\* and whose etag is current has published exactly what it holds in memory.
CleanUnlessRaced ==
    \A w \in Writers :
        (mode[w] # "down" /\ ~dirty[w] /\ ~lost[w] /\ etag[w] = bucket.etag)
            => outstanding[w] = bucket.q

\* What the class promises ("Mutations ... mark the queue dirty.  A coalesced
\* flush(...) is what publishes the snapshot"): with no flush running, a clean
\* queue with the current etag is a published queue.
CleanIsPublished ==
    \A w \in Writers :
        (/\ mode[w] # "down" /\ ~dirty[w] /\ etag[w] = bucket.etag
         /\ \A t \in Threads : frame[w][t].pc = "idle")
            => outstanding[w] = bucket.q

\* A job that a process has removed re-enters its queue by add() alone: the
\* merge after a failed precondition does not bring back finished work.
NothingResurrected ==
    \A w \in Writers : \A j \in Jobs \cap gone[w] :
        (j \notin Ids(outstanding[w]) /\ j \in Ids(outstanding'[w]) /\ mode[w] # "down")
            => \E d \in Deadlines : Add(w, j, d)
NoResurrection == [][NothingResurrected]_vars

\* The background thread runs every flush_interval_sec and its bucket calls
\* return or raise; nothing else is assumed to keep running.
Fairness ==
    \A w \in Writers :
        /\ WF_vars(BackgroundFlush(w))
        /\ \A t \in Threads : WF_vars(FlushStep(w, t))

FairSpec == Spec /\ Fairness

\* Recorded changes are flushed: no run of conflicts between two processes that
\* keep merging each other's snapshots starves a flush forever.
PendingIsFlushed ==
    \A w \in {v \in Writers : Kind[v] # "one_shot"} :
        (mode[w] = "up" /\ pending[w]) ~> (~pending[w] \/ mode[w] # "up")
==============================================================================
