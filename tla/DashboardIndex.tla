--------------------------- MODULE DashboardIndex ---------------------------
(***************************************************************************)
(* How receipts, verdicts, audits and workers reach a browser: the bucket  *)
(* indexer of teuton_dashboard, its SQLite tables, /api/snapshot and the   *)
(* snapshot store of frontend, which polls it.                             *)
(*                                                                         *)
(* An object's content is a number, 0 if there is none.  A verdict is 1    *)
(* before it is decided and 2 after; a worker is 1 while its heartbeat is  *)
(* within the TTL and 2 after.  Run ids are numbers, for their sort.  A    *)
(* job has one receipt; LIMIT max_completed_jobs is above what there is.   *)
(* The indexer_state row, which /healthz repeats, is left out.             *)
(***************************************************************************)
EXTENDS Naturals, FiniteSets, SequencesExt

CONSTANTS
    Runs,       \* run ids
    All,        \* the page has no run selected, which is the view of all
    Ids,        \* receipts of a run, as numbers: their order in a list
    Workers,    \* workers, numbered too
    Cap,        \* how many of a list's objects are read
    RunCap,     \* how many of the runs are indexed
    Requests,   \* names for /api/snapshot requests in flight
    MaxWrites,  \* bound on what is written to the bucket
    MaxPicks,   \* bound on what the user selects
    MaxFaults   \* bound on failed reads, failed transactions and restarts

VARIABLES
    bucket,   \* bucket[r][t][i]: the objects
    beats,    \* beats[i]: worker i's heartbeat, one object whatever its run
    rows,     \* rows[r][t][i]: the tables
    runs,     \* the runs table
    pass,     \* the indexer: runs and tables to do, and the rows scanned
    page,     \* the URL's run, the store's run, and the reply shown
    request,  \* request[k]: an /api/snapshot call
    writes, picks, faults

vars == <<bucket, beats, rows, runs, pass, page, request, writes, picks, faults>>
source == <<bucket, beats, writes>>
tables == <<rows, runs>>

Listed == {"receipts", "verdicts", "audits"}
Tables == <<"workers", "receipts", "verdicts", "audits">>
Absent == [i \in Ids |-> 0]
EmptyTables == [r \in Runs |-> [t \in Range(Tables) |-> Absent]]
NoRows == [i \in Ids |-> 9]
Resting == [todo |-> << >>, t |-> 1, got |-> NoRows]
NoMachines == [workers |-> {}, n_receipts |-> 0]
NotSent == [run |-> All, step |-> 0, machines |-> NoMachines, completed |-> {}]
Blank == [run |-> All, machines |-> NoMachines, completed |-> {}]

Init ==
    /\ bucket = [r \in Runs |-> [t \in Listed |-> Absent]]
    /\ beats = [i \in Workers |-> [run |-> All, status |-> 0]]
    /\ rows = EmptyTables /\ runs = {}
    /\ pass = Resting
    /\ page = [run |-> All, polls |-> FALSE, shown |-> Blank]
    /\ request = [k \in Requests |-> NotSent]
    /\ writes = 0 /\ picks = 0 /\ faults = 0

Fault == faults < MaxFaults /\ faults' = faults + 1

-----------------------------------------------------------------------------
(* The bucket.                                                             *)

\* A miner writes a receipt; an auditor its result and a validator its verdict,
\* decided or to be decided later.
Write(r, t, i) ==
    /\ writes < MaxWrites /\ writes' = writes + 1
    /\ t # "receipts" => bucket[r].receipts[i] # 0
    /\ \E x \in 1..(IF t = "verdicts" THEN 2 ELSE 1) :
        x > bucket[r][t][i] /\ bucket' = [bucket EXCEPT ![r][t][i] = x]
    /\ UNCHANGED <<beats, tables, pass, page, request, picks, faults>>

\* A worker advertises itself, in this run or in the one it has moved to.
Beat(r, i) ==
    /\ writes < MaxWrites /\ writes' = writes + 1
    /\ beats[i] # [run |-> r, status |-> 1]
    /\ beats' = [beats EXCEPT ![i] = [run |-> r, status |-> 1]]
    /\ UNCHANGED <<bucket, tables, pass, page, request, picks, faults>>

\* It has not for heartbeat_ttl_sec.
Expire(i) ==
    /\ writes < MaxWrites /\ writes' = writes + 1
    /\ beats[i].status = 1
    /\ beats' = [beats EXCEPT ![i].status = 2]
    /\ UNCHANGED <<bucket, tables, pass, page, request, picks, faults>>

-----------------------------------------------------------------------------
(* The indexer.                                                            *)

\* The runs something in the bucket names, the last ids first, up to RunCap.
SelectedRunIds ==
    LET named == {r \in Runs : \/ \E i \in Workers : beats[i].run = r
                               \/ \E t \in Listed : bucket[r][t] # Absent}
    IN  SelectSeq(SetToSortSeq(named, >), LAMBDA r : Cardinality({s \in named : s > r}) < RunCap)

\* Heartbeats name their run: those of r, "live" or "stale".
ScanWorkers(r) == [i \in Ids |-> IF i \in Workers /\ beats[i].run = r THEN beats[i].status ELSE 0]

\* A list's objects, up to Cap.
FirstOf(objects) ==
    LET there == {i \in Ids : objects[i] # 0}
    IN  [i \in Ids |-> IF Cardinality({j \in there : j < i}) < Cap THEN objects[i] ELSE 0]

ScanReceipts(r) == FirstOf(bucket[r].receipts)
ScanVerdicts(r) == FirstOf(bucket[r].verdicts)
ScanAudits(r) == FirstOf(bucket[r].audits)

\* The rows of each table, in the order of index_bucket_once.
Scan(r, t) == <<ScanWorkers(r), ScanReceipts(r), ScanVerdicts(r), ScanAudits(r)>>[t]

\* INSERT ... ON CONFLICT DO UPDATE
Upsert(old, new) == [i \in Ids |-> IF new[i] # 0 THEN new[i] ELSE old[i]]

\* index_bucket_once begins; its first run's row is written.
BeginPass ==
    /\ pass = Resting /\ SelectedRunIds # << >>
    /\ pass' = [Resting EXCEPT !.todo = SelectedRunIds]
    /\ runs' = runs \cup {Head(SelectedRunIds)}
    /\ UNCHANGED <<source, rows, page, request, picks, faults>>

\* On to the next table, the next run (and its row), the end.
Advance ==
    LET rest == Tail(pass.todo) IN
    IF pass.t < Len(Tables)
    THEN pass' = [pass EXCEPT !.t = @ + 1, !.got = NoRows] /\ UNCHANGED runs
    ELSE /\ pass' = [Resting EXCEPT !.todo = rest]
         /\ runs' = runs \cup (IF rest = << >> THEN {} ELSE {Head(rest)})

\* scan() in its thread; an object that cannot be read is skipped.  No rows,
\* no transaction.
ScanTable ==
    /\ pass.todo # << >> /\ pass.got = NoRows
    /\ LET found == Scan(Head(pass.todo), pass.t) IN
        \/ found = Absent /\ Advance /\ UNCHANGED faults
        \/ found # Absent /\ pass' = [pass EXCEPT !.got = found] /\ UNCHANGED <<runs, faults>>
        \/ /\ Fault
           /\ \E i \in {j \in Ids : found[j] # 0} : pass' = [pass EXCEPT !.got = [found EXCEPT ![i] = 0]]
           /\ UNCHANGED runs
    /\ UNCHANGED <<source, rows, page, request, picks>>

\* executemany().
CommitTable ==
    /\ pass.got # NoRows /\ Advance
    /\ rows' = [rows EXCEPT ![Head(pass.todo)][Tables[pass.t]] = Upsert(@, pass.got)]
    /\ UNCHANGED <<source, page, request, picks, faults>>

\* Mutant: the exception ends the loop's task.
StopOnFailure ==
    /\ pass.todo # << >> /\ Fault
    /\ pass' = [Resting EXCEPT !.t = 0]
    /\ UNCHANGED <<source, tables, page, request, picks>>

\* A list, or a transaction, raises: the pass is over, and another will begin.
FailPass ==
    /\ pass.todo # << >> /\ Fault
    /\ pass' = Resting
    /\ UNCHANGED <<source, tables, page, request, picks>>

-----------------------------------------------------------------------------
(* /api/snapshot and the store that polls it.                              *)

\* fetchOnce(): a request for the run.
FetchOnce(k, r) ==
    request[k] = NotSent /\ request' = [request EXCEPT ![k] = [NotSent EXCEPT !.run = r, !.step = 1]]

\* The URL's run changes: start() of the snapshot store, with its first fetch.
\* Nothing happens while it is null from the beginning.  (Where Requests has no
\* name left, the first fetch is that of the tick.)
Pick(r) ==
    /\ picks < MaxPicks /\ picks' = picks + 1
    /\ r \in runs \cup {All} /\ r # page.run
    /\ page' = [page EXCEPT !.run = r, !.polls = TRUE]
    /\ \/ \E k \in Requests : FetchOnce(k, r)
       \/ NotSent \notin Range(request) /\ UNCHANGED request
    /\ UNCHANGED <<source, tables, pass, faults>>

\* The interval's tick: a fetch, whatever is in flight.
Poll(k) ==
    /\ page.polls /\ FetchOnce(k, page.run)
    /\ UNCHANGED <<source, tables, pass, page, picks, faults>>

Scope(run) == IF run = All THEN Runs ELSE {run}

ReceiptsCount(run) == Cardinality({x \in Scope(run) \X Ids : rows[x[1]].receipts[x[2]] # 0})

\* The workers of the run, and how many receipts there are.
ReadMachines(run) ==
    [workers |-> UNION {{<<r, i, rows[r].workers[i]>> : i \in {j \in Ids : rows[r].workers[j] # 0}} : r \in Scope(run)},
     n_receipts |-> ReceiptsCount(run)]

\* receipts, with what verdicts and audits there are of each.
ReadCompleted(run) ==
    LET done == {x \in Scope(run) \X Ids : rows[x[1]].receipts[x[2]] # 0}
    IN  {<<x[1], x[2], rows[x[1]].verdicts[x[2]], rows[x[1]].audits[x[2]]>> : x \in done}

\* Mutant: the completed jobs are read first.
CompletedFirst(k) ==
    /\ request[k].step \in 1..2
    /\ request' = [request EXCEPT ![k] =
          IF @.step = 1 THEN [@ EXCEPT !.step = 2, !.completed = ReadCompleted(request[k].run)]
          ELSE [@ EXCEPT !.step = 3, !.machines = ReadMachines(request[k].run)]]
    /\ UNCHANGED <<source, tables, pass, page, picks, faults>>

\* The handler's queries, each in a transaction of its own.
Query(k) ==
    /\ request[k].step \in 1..2
    /\ request' = [request EXCEPT ![k] =
          IF @.step = 1 THEN [@ EXCEPT !.step = 2, !.machines = ReadMachines(request[k].run)]
          ELSE [@ EXCEPT !.step = 3, !.completed = ReadCompleted(request[k].run)]]
    /\ UNCHANGED <<source, tables, pass, page, picks, faults>>

\* fetchOnce() sets the store to the reply, whichever request it is of; or fails.
Arrive(k) ==
    /\ request[k].step # 0
    /\ \/ /\ request[k].step = 3 /\ UNCHANGED faults
          /\ page' = [page EXCEPT !.shown = [run |-> request[k].run, machines |-> request[k].machines,
                                             completed |-> request[k].completed]]
       \/ Fault /\ UNCHANGED page
    /\ request' = [request EXCEPT ![k] = NotSent]
    /\ UNCHANGED <<source, tables, pass, picks>>

\* The dashboard's process is restarted; the database stays.
Restart ==
    /\ Fault
    /\ pass' = Resting /\ request' = [k \in Requests |-> NotSent]
    /\ UNCHANGED <<source, tables, page, picks>>

Indexer == BeginPass \/ ScanTable \/ CommitTable
Fetch(k) == Poll(k) \/ Query(k) \/ Arrive(k)

Next ==
    \/ \E r \in Runs, i \in Ids, t \in Listed : Write(r, t, i)
    \/ \E i \in Workers : Expire(i) \/ \E r \in Runs : Beat(r, i)
    \/ Indexer \/ FailPass \/ Restart
    \/ \E r \in Runs \cup {All} : Pick(r)
    \/ \E k \in Requests : Fetch(k)

Spec == Init /\ [][Next]_vars

\* The indexer's task and the page's timer run, and requests are answered.
FairSpec ==
    /\ Spec /\ WF_vars(Indexer)
    /\ \A k \in Requests : WF_vars(Fetch(k))

-----------------------------------------------------------------------------
(* Properties.                                                             *)

\* A reply never counts more receipts than it lists, although the indexer writes
\* between the handler's queries: they are made in the order in which the tables
\* may only have grown.
CountIsListed ==
    LET Covers(x) == x.machines.n_receipts <= Cardinality(x.completed)
    IN  /\ \A k \in Requests : request[k].step = 3 => Covers(request[k])
        /\ Covers(page.shown)

\* What the bucket holds of a run that is indexed, and its list goes as far as,
\* the page comes to show as it is when that run is selected: whatever passes
\* failed midway, and whichever late reply for another run came in between.
PageCatchesUp ==
    <>[](page.polls =>
          /\ page.shown.run = page.run
          /\ \A r \in Scope(page.run) \cap Range(SelectedRunIds) :
                \A i \in Ids :
                    /\ ScanWorkers(r)[i] # 0 => <<r, i, ScanWorkers(r)[i]>> \in page.shown.machines.workers
                    /\ ScanReceipts(r)[i] # 0 =>
                         \E v \in 0..2, a \in 0..1 :
                            /\ <<r, i, v, a>> \in page.shown.completed
                            /\ ScanVerdicts(r)[i] \in {0, v} /\ ScanAudits(r)[i] \in {0, a})
=============================================================================
