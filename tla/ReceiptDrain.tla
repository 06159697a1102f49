----------------------------- MODULE ReceiptDrain -----------------------------
(***************************************************************************)
(* How receipts take jobs off the queue: _drain_queue_via_receipts of      *)
(* teuton_orchestrator/streaming.py over scan_recent_receipt_job_ids of    *)
(* teuton_runtime/queue.py, with the times that decide what it sees.       *)
(*                                                                         *)
(* A scan LISTs the receipts with mtime >= cursor - Backdate; it takes     *)
(* time, and may or may not list a receipt that lands meanwhile.  The      *)
(* cursor then moves to the time at which the scan and the pruning ended,  *)
(* also when the LIST raised.  Times are whole seconds; the bucket's clock *)
(* is up to Skew seconds off the orchestrator's.                           *)
(***************************************************************************)
EXTENDS Integers, FiniteSets

CONSTANTS
    Jobs,         \* job ids
    Backdate,     \* the 5 seconds taken off the cursor
    Skew,         \* how far the bucket's clock may be off
    MaxScan,      \* the longest a scan takes
    Ttl,          \* deadline_seconds of a job
    MaxNow,       \* bound on the clock
    MaxRestarts,  \* bound on restarts of the orchestrator
    MaxFaults     \* bound on scans that raise

ASSUME DrainAssumption ==
    /\ Backdate \in Nat /\ Skew \in Nat /\ MaxScan \in Nat /\ Ttl \in Nat
    /\ MaxNow \in Nat /\ MaxRestarts \in Nat /\ MaxFaults \in Nat

VARIABLES
    now,       \* the orchestrator's clock
    start,     \* when its process started
    cursor,    \* self._receipt_scan_cursor
    scanning,  \* a LIST is under way ...
    begun,     \* ... since this time ...
    listed,    \* ... and these receipts, there when it began, will be in it
    queue,     \* jobs with an outstanding entry
    added,     \* added[j]: when j's entry was last added
    deadline,  \* deadline[j]: deadline_unix of that entry
    landed,    \* landed[j]: when j's receipt was last written; 0 for never
    mtime,     \* mtime[j]: the bucket's LastModified of that receipt
    restarts, faults  \* what is spent of MaxRestarts and MaxFaults

scan == <<scanning, begun, listed>>
entries == <<queue, added, deadline>>
objects == <<landed, mtime>>
budget == <<restarts, faults>>
vars == <<now, start, cursor, scan, entries, objects, budget>>

\* Late enough for every mtime to be positive; 0 can then stand for "never".
FirstSecond == Skew + 1

Init ==
    /\ now = FirstSecond /\ start = FirstSecond /\ cursor = FirstSecond
    /\ scanning = FALSE /\ begun = FirstSecond /\ listed = {}
    /\ queue = {} /\ added = [j \in Jobs |-> 0] /\ deadline = [j \in Jobs |-> 0]
    /\ landed = [j \in Jobs |-> 0] /\ mtime = [j \in Jobs |-> 0]
    /\ restarts = 0 /\ faults = 0

\* Mutant: the cursor is not backdated.
SinceNotBackdated == cursor

Since == IF cursor - Backdate > 0 THEN cursor - Backdate ELSE 0

\* The receipts that a scan from Since has in its window.
InWindow == {j \in Jobs : landed[j] # 0 /\ mtime[j] >= Since}

\* A second passes; a scan does not outlast MaxScan.
Pass ==
    /\ now < MaxNow
    /\ scanning => now < begun + MaxScan
    /\ now' = now + 1
    /\ UNCHANGED <<start, cursor, scan, entries, objects, budget>>

\* emit_job adds the entry.  A process emits a job id once.
Emit(j) ==
    /\ ~scanning
    /\ added[j] = 0 \/ added[j] < start
    /\ queue' = queue \cup {j}
    /\ added' = [added EXCEPT ![j] = now]
    /\ deadline' = [deadline EXCEPT ![j] = now + Ttl]
    /\ UNCHANGED <<now, start, cursor, scan, objects, budget>>

\* A miner writes the receipt of a job that was emitted at some time.
Land(j) ==
    /\ added[j] # 0
    /\ landed' = [landed EXCEPT ![j] = now]
    /\ \E off \in (-Skew)..Skew : mtime' = [mtime EXCEPT ![j] = now + off]
    /\ UNCHANGED <<now, start, cursor, scan, entries, budget>>

\* Mutant: no LIST while no receipt is newer than the cursor.
BeginScanOnlyNewer ==
    /\ ~scanning
    /\ \E j \in Jobs : mtime[j] > cursor
    /\ scanning' = TRUE /\ begun' = now /\ listed' = InWindow
    /\ UNCHANGED <<now, start, cursor, entries, objects, budget>>

BeginScan ==
    /\ ~scanning
    /\ scanning' = TRUE /\ begun' = now /\ listed' = InWindow
    /\ UNCHANGED <<now, start, cursor, entries, objects, budget>>

\* prune_expired.
Live(q) == {j \in q : deadline[j] >= now}

\* The scan returns: remove_many, prune_expired, cursor to now.
EndScan ==
    /\ scanning
    /\ \E late \in SUBSET (InWindow \ listed) : queue' = Live(queue \ (listed \cup late))
    /\ cursor' = now
    /\ scanning' = FALSE
    /\ UNCHANGED <<now, start, begun, listed, added, deadline, objects, budget>>

\* Mutant: a scan that raises returns at once.
FailScanReturns ==
    /\ scanning /\ faults < MaxFaults
    /\ faults' = faults + 1
    /\ cursor' = now
    /\ scanning' = FALSE
    /\ UNCHANGED <<now, start, begun, listed, entries, objects, restarts>>

\* The scan raises: nothing is removed but the expired, and the cursor moves.
FailScan ==
    /\ scanning /\ faults < MaxFaults
    /\ faults' = faults + 1
    /\ queue' = Live(queue)
    /\ cursor' = now
    /\ scanning' = FALSE
    /\ UNCHANGED <<now, start, begun, listed, added, deadline, objects, restarts>>

\* A new process: the queue is reconciled from the bucket without a look at
\* the receipts, and the cursor is set to now.
Restart ==
    /\ restarts < MaxRestarts
    /\ restarts' = restarts + 1
    /\ start' = now /\ cursor' = now /\ scanning' = FALSE
    /\ UNCHANGED <<now, begun, listed, entries, objects, faults>>

Next ==
    \/ Pass \/ BeginScan \/ EndScan \/ FailScan \/ Restart
    \/ \E j \in Jobs : Emit(j) \/ Land(j)

Spec == Init /\ [][Next]_vars

\* wait_epoch's loop goes on scanning, and scans end.
FairSpec == Spec /\ WF_vars(BeginScan) /\ WF_vars(EndScan)

-----------------------------------------------------------------------------
TypeOK ==
    /\ now \in Nat /\ start \in Nat /\ cursor \in Nat
    /\ scanning \in BOOLEAN /\ begun \in Nat /\ listed \subseteq Jobs
    /\ queue \subseteq Jobs /\ added \in [Jobs -> Nat] /\ deadline \in [Jobs -> Nat]
    /\ landed \in [Jobs -> Nat] /\ mtime \in [Jobs -> Int]
    /\ restarts \in Nat /\ faults \in Nat

\* j's outstanding entry has been answered by a receipt.
Answered(j) == j \in queue /\ landed[j] # 0 /\ landed[j] >= added[j]

\* The scan under way, or else the next one, has j's receipt in its window.
WillBeListed(j) == IF scanning THEN j \in listed \/ mtime[j] >= now - Backdate
                               ELSE mtime[j] >= Since

\* No receipt slips between two scans of _drain_queue_via_receipts: as long as
\* a job that this process emitted is queued, its receipt is in the window of
\* the scan under way or of the next one, however landings, scans, clock skew
\* and restarts interleave.  It takes MaxScan + Skew <= Backdate, and that no
\* LIST has raised.
OwnReceiptsListed ==
    faults = 0 => \A j \in Jobs : Answered(j) /\ added[j] >= start => WillBeListed(j)

\* Whatever a scan misses, "misbehaving miners don't permanently hold their
\* per-hotkey budget": between scans, failed ones included, no entry is left
\* whose deadline had passed when the last scan ended.
ExpiredLeave == ~scanning /\ cursor > start => \A j \in queue : deadline[j] >= cursor

\* No answered entry of the process is in the queue for good, unless a LIST
\* raises.  (Emit adds an entry once per process: an entry that is answered stays
\* so until it leaves.)
AnsweredLeaves ==
    \A j \in Jobs : []<>~(Answered(j) /\ added[j] >= start /\ faults = 0)
==============================================================================
