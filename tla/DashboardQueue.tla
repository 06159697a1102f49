--------------------------- MODULE DashboardQueue ---------------------------
(***************************************************************************)
(* How the outstanding-work queue reaches a browser: the sampler, the bus  *)
(* and the SSE endpoint of teuton_dashboard, and the queue store of        *)
(* frontend.  A snapshot is its snapshot_id, which OrchestratorQueue shows *)
(* to grow; 0 is "no queue.json" and the empty snapshot made of it.  The   *)
(* role is "train" throughout; "audit" has keys of its own and no store.   *)
(*                                                                         *)
(* The server's coroutines run between awaits without interruption, and    *)
(* the bus's lock is never held over one: publish and the start of         *)
(* subscribe are single steps.                                             *)
(***************************************************************************)
EXTENDS Integers, FiniteSets, SequencesExt

CONSTANTS
    Runs,        \* run ids
    NoRun,       \* the page has no run selected
    Conns,       \* names for EventSource connections
    Requests,    \* names for /api/queue requests in flight
    QueueSize,   \* subscriber_queue_size
    RunLimit,    \* the runs _active_run_ids returns at most
    MaxFlushes,  \* bound on the snapshots published
    MaxPicks,    \* bound on what the user selects
    MaxFaults    \* bound on failed reads, lost connections and restarts

VARIABLES
    file,      \* file[r]: snapshot_id of r's queue.json
    known,     \* run ids in the runs table
    sampler,   \* the sampler's cycle: runs to do, and the one it has read
    seen,      \* seen_snapshot_id
    latest,    \* the bus's _latest, 0 if absent
    conn,      \* conn[c]: both ends of a connection and the bus's subscriber queue
    page,      \* the URL's run, and the queue store
    request,   \* request[k]: an /api/queue call of bootstrap()
    picks, faults  \* what is spent of MaxPicks and MaxFaults

vars == <<file, known, sampler, seen, latest, conn, page, request, picks, faults>>
bus == <<latest, conn>>
budget == <<picks, faults>>

None == -1
NotConnected == [run |-> NoRun, client |-> FALSE, q |-> << >>, sent |-> 0]
NotSent == [run |-> NoRun, reply |-> None]
Resting == [todo |-> {}, run |-> NoRun, got |-> None]
Blank == [run |-> NoRun, id |-> 0]

\* Names are as good as each other: a new connection, or request, takes one.
FreeConn == CHOOSE c \in Conns : conn[c] = NotConnected
FreeRequest == CHOOSE k \in Requests : request[k] = NotSent

Init ==
    /\ file = [r \in Runs |-> 0] /\ known = {}
    /\ sampler = Resting /\ seen = [r \in Runs |-> None]
    /\ latest = [r \in Runs |-> 0]
    /\ conn = [c \in Conns |-> NotConnected]
    /\ page = [pick |-> NoRun, active |-> NoRun, stream |-> "none", shown |-> Blank]
    /\ request = [k \in Requests |-> NotSent]
    /\ picks = 0 /\ faults = 0

Fault == faults < MaxFaults /\ faults' = faults + 1 /\ UNCHANGED picks

-----------------------------------------------------------------------------
(* The orchestrator, the bucket indexer and the sampler.                   *)

\* The orchestrator publishes a queue.json with the next snapshot_id.
Flush(r) ==
    /\ FoldFunction(+, 0, file) < MaxFlushes
    /\ file' = [file EXCEPT ![r] = @ + 1]
    /\ UNCHANGED <<known, sampler, seen, bus, page, request, budget>>

\* A run with objects in the bucket gets its row.
UpsertRun(r) ==
    /\ file[r] > 0 /\ r \notin known
    /\ known' = known \cup {r}
    /\ UNCHANGED <<file, sampler, seen, bus, page, request, budget>>

\* A cycle begins with the active runs, in the order of last_seen_unix: any.
SampleRuns ==
    /\ sampler = Resting
    /\ \E some \in SUBSET known :
        /\ Cardinality(some) = IF Cardinality(known) < RunLimit THEN Cardinality(known) ELSE RunLimit
        /\ some # {}
        /\ sampler' = [Resting EXCEPT !.todo = some]
    /\ UNCHANGED <<file, known, seen, bus, page, request, budget>>

\* The thread reads queue.json; a read that fails skips the run.
SampleRead ==
    /\ sampler.got = None
    /\ \E r \in sampler.todo :
        \/ sampler' = [todo |-> sampler.todo \ {r}, run |-> r, got |-> file[r]] /\ UNCHANGED budget
        \/ sampler' = [sampler EXCEPT !.todo = @ \ {r}] /\ Fault
    /\ UNCHANGED <<file, known, seen, bus, page, request>>

\* Mutant: a full queue keeps what it has.
PutIfRoom(q, id) == IF Len(q) < QueueSize THEN Append(q, id) ELSE q

\* put_nowait, after dropping the oldest from a full queue.
Put(q, id) == Append(IF Len(q) < QueueSize THEN q ELSE Tail(q), id)

\* The bus keeps the snapshot for latest() and puts it to the run's subscribers.
Publish(r, id) ==
    /\ latest' = [latest EXCEPT ![r] = id]
    /\ conn' = [c \in Conns |-> IF conn[c].run = r
                                THEN [conn[c] EXCEPT !.q = Put(@, id)] ELSE conn[c]]

\* The read is back: publish if the snapshot_id is another one.
SampleOne ==
    /\ sampler.got # None
    /\ LET r == sampler.run IN
        IF seen[r] # sampler.got
        THEN seen' = [seen EXCEPT ![r] = sampler.got] /\ Publish(r, sampler.got)
        ELSE UNCHANGED <<seen, bus>>
    /\ sampler' = [Resting EXCEPT !.todo = sampler.todo]
    /\ UNCHANGED <<file, known, page, request, budget>>

-----------------------------------------------------------------------------
(* The page: what the user selects, and /api/queue.                        *)

\* QueueStream.stop(): the EventSource is closed; the server will find out.
Close ==
    conn' = [c \in Conns |-> IF page.stream = c THEN [conn[c] EXCEPT !.client = FALSE] ELSE conn[c]]

\* start(): after stop(), a REST request and a new stream.
Start(r) ==
    /\ Close
    /\ page' = [pick |-> r, active |-> r, stream |-> "retry", shown |-> Blank]
    /\ \E k \in Requests : request[k] = NotSent
    /\ request' = [request EXCEPT ![FreeRequest] = [run |-> r, reply |-> None]]

\* Nothing happens for the run the store had last; stop() for no run.
SetRunId(r) ==
    \/ r = page.active /\ page' = [page EXCEPT !.pick = r] /\ UNCHANGED <<conn, request>>
    \/ /\ r # page.active /\ r = NoRun /\ Close
       /\ page' = [page EXCEPT !.pick = r, !.stream = "none", !.shown = Blank] /\ UNCHANGED request
    \/ r # page.active /\ r # NoRun /\ Start(r)

\* The URL's run changes.
Pick(r) ==
    /\ picks < MaxPicks /\ r # page.pick
    /\ picks' = picks + 1 /\ SetRunId(r)
    /\ UNCHANGED <<file, known, sampler, seen, latest, faults>>

\* From the bus, or from the bucket if the bus has nothing.
ReadSnapshot(r) == IF latest[r] # 0 THEN latest[r] ELSE file[r]

\* The handler of /api/queue.
Serve(k) ==
    /\ request[k] # NotSent /\ request[k].reply = None
    /\ request' = [request EXCEPT ![k].reply = ReadSnapshot(request[k].run)]
    /\ UNCHANGED <<file, known, sampler, seen, bus, page, budget>>

\* bootstrap() gets the answer, for whatever run the store is at by now; or the
\* request fails.
Arrive(k) ==
    /\ request[k] # NotSent
    /\ \/ /\ request[k].reply # None
          /\ page' = [page EXCEPT !.shown = [run |-> request[k].run, id |-> request[k].reply]]
          /\ UNCHANGED budget
       \/ Fault /\ UNCHANGED page
    /\ request' = [request EXCEPT ![k] = NotSent]
    /\ UNCHANGED <<file, known, sampler, seen, bus>>

-----------------------------------------------------------------------------
(* The stream.                                                             *)

\* The bus's new subscriber, its queue seeded with the latest.
Subscribe(r) ==
    [run |-> r, client |-> TRUE, sent |-> 0, q |-> IF latest[r] # 0 THEN <<latest[r]>> ELSE << >>]

\* QueueStream.start().
Connect(c) ==
    /\ page.stream = "retry" /\ conn[c] = NotConnected /\ c = FreeConn
    /\ page' = [page EXCEPT !.stream = c]
    /\ conn' = [conn EXCEPT ![c] = Subscribe(page.active)]
    /\ UNCHANGED <<file, known, sampler, seen, latest, request, budget>>

\* The client's handler gives the store the snapshot.
Show(c, id) == page' = [page EXCEPT !.shown = [run |-> conn[c].run, id |-> id]]

\* A snapshot is sent, and shown.
Deliver(c) ==
    /\ conn[c].client /\ conn[c].q # << >>
    /\ conn' = [conn EXCEPT ![c].q = Tail(@), ![c].sent = Head(conn[c].q)]
    /\ Show(c, Head(conn[c].q))
    /\ UNCHANGED <<file, known, sampler, seen, latest, request, budget>>

\* Mutant: the error handler only closes.
RetryNever(c) == page' = page

\* The client's error handler sets the timer of a new start().
Retry(c) == page' = IF conn[c].client THEN [page EXCEPT !.stream = "retry"] ELSE page

\* The timer is first: the pending __anext__ is cancelled, which ends the
\* generator, and its finally leaves the bus.  The comment line goes out, the
\* next __anext__ finds the generator over and the response ends.
Keepalive(c) ==
    /\ conn[c] # NotConnected /\ conn[c].q = << >>
    /\ conn' = [conn EXCEPT ![c] = NotConnected]
    /\ Retry(c)
    /\ UNCHANGED <<file, known, sampler, seen, latest, request, budget>>

\* The server finds the client gone and cancels the stream.  (In asyncio.wait the
\* generator is running, aclose() raises, and the bus keeps a queue that nobody
\* reads until the run's next snapshot: no one can tell.)
Disconnect(c) ==
    /\ conn[c] # NotConnected /\ ~conn[c].client
    /\ conn' = [conn EXCEPT ![c] = NotConnected]
    /\ UNCHANGED <<file, known, sampler, seen, latest, page, request, budget>>

\* The connection breaks.
Lose(c) ==
    /\ conn[c].client /\ Fault
    /\ conn' = [conn EXCEPT ![c].client = FALSE]
    /\ Retry(c)
    /\ UNCHANGED <<file, known, sampler, seen, latest, request>>

\* The dashboard's process is restarted; the database stays.
Restart ==
    /\ Fault
    /\ sampler' = Resting /\ seen' = [r \in Runs |-> None]
    /\ latest' = [r \in Runs |-> 0]
    /\ conn' = [c \in Conns |-> NotConnected]
    /\ request' = [k \in Requests |-> NotSent]
    /\ page' = [page EXCEPT !.stream = IF @ = "none" THEN @ ELSE "retry"]
    /\ UNCHANGED <<file, known>>

Sampler == SampleRuns \/ SampleRead \/ SampleOne
Stream(c) == Connect(c) \/ Deliver(c) \/ Keepalive(c) \/ Disconnect(c)
Reply(k) == Serve(k) \/ Arrive(k)

Next ==
    \/ \E r \in Runs : Flush(r) \/ UpsertRun(r)
    \/ Sampler \/ Restart
    \/ \E r \in Runs \cup {NoRun} : Pick(r)
    \/ \E k \in Requests : Reply(k)
    \/ \E c \in Conns : Stream(c) \/ Lose(c)

Spec == Init /\ [][Next]_vars

\* The background tasks of the lifespan run, requests are answered, timers fire.
FairSpec ==
    /\ Spec /\ WF_vars(Sampler)
    /\ WF_vars(\E r \in Runs : UpsertRun(r))
    /\ WF_vars(\E k \in Requests : Reply(k))
    /\ \A c \in Conns : WF_vars(Stream(c))

-----------------------------------------------------------------------------
(* Properties.                                                             *)

\* A subscriber's queue and what it has sent end with the bus's latest
\* snapshot, in the order of their ids, however slow the client is: the drop in
\* publish() never drops the newest, and the seed of subscribe() is neither lost
\* nor repeated.
SubscriberHasLatest ==
    \A c \in Conns : conn[c] # NotConnected =>
        LET ids == <<conn[c].sent>> \o conn[c].q
        IN  /\ Last(ids) = latest[conn[c].run]
            /\ \A i \in 1..(Len(ids) - 1) : ids[i] < ids[i + 1]

\* Whatever the user selected before, whichever late reply of bootstrap() or
\* broken connection came in between, the page comes to show the queue of the
\* selected run as it is.  (The run has a queue, and the store a stream: after
\* a selection of no run, setRunId does not start again for the run it had.)
PageCatchesUp ==
    <>[](page.pick # NoRun /\ page.stream # "none" /\ file[page.pick] > 0
            => page.shown = [run |-> page.pick, id |-> file[page.pick]])

\* "Heartbeats every sse_keepalive_sec keep the connection alive": while the
\* client is there and the server is not restarted, its stream goes on.
KeepaliveKeepsStream ==
    [][\A c \in Conns : conn[c].client /\ faults' = faults => conn'[c] # NotConnected]_vars
=============================================================================
