------------------------ MODULE DashboardIndex_proofs ------------------------
(***************************************************************************)
(* Proofs about DashboardIndex, for any runs, receipts, workers and caps,  *)
(* any number of requests in flight, and any writes, selections and faults. *)
(***************************************************************************)
EXTENDS DashboardIndex, FiniteSetTheorems, TLAPS

\* A leaf that names no prover is tried with SMT, with SMT and more time, and
\* with Zenon.
USE SMT, SMTT(30), Zenon

\* The rows of the receipts table that a query of the run counts and lists.
Done(run) == {x \in Scope(run) \X Ids : rows[x[1]].receipts[x[2]] # 0}

\* x is a record with these fields.
IsRecord(x, fields) == DOMAIN x = fields /\ x = [f \in fields |-> x[f]]

\* A request of a run, with the answers that it has.
IsRequest(x) ==
    /\ IsRecord(x, {"run", "step", "machines", "completed"})
    /\ x.run \in Runs \cup {All} /\ x.step \in 0..3 /\ x.machines.n_receipts \in Nat

\* A request whose query of machines, or of completed jobs, is answered.
WithMachines(x, m) == [x EXCEPT !.step = 2, !.machines = m]
WithCompleted(x, c) == [x EXCEPT !.step = 3, !.completed = c]

\* The page's record.
IsPage(x) ==
    /\ IsRecord(x, {"run", "polls", "shown"})
    /\ x.run \in Runs \cup {All}

IndexTypes ==
    /\ DOMAIN rows = Runs
    /\ \A r \in Runs : /\ DOMAIN rows[r] = {"workers", "receipts", "verdicts", "audits"}
                       /\ rows[r] = [t \in DOMAIN rows[r] |-> rows[r][t]]
    /\ rows = [r \in Runs |-> rows[r]]
    /\ request = [k \in Requests |-> request[k]]
    /\ \A k \in Requests : IsRequest(request[k])
    /\ IsPage(page)

\* What a request has counted is in the table still.
Counted ==
    \A k \in Requests : request[k].step = 2 =>
        request[k].machines.n_receipts <= Cardinality(Done(request[k].run))

IndexInv == IndexTypes /\ Counted /\ CountIsListed

\* No row of the receipts table goes.
RowsStay == \A r \in Runs, i \in Ids : rows[r].receipts[i] # 0 => rows'[r].receipts[i] # 0

\* The tables of a run's rows.
LEMMA TableNames == Range(Tables) = {"workers", "receipts", "verdicts", "audits"}
PROOF BY DEF Range, Tables

\* The steps of a request: sent, machines read, completed jobs read.
LEMMA Asked ==
    ASSUME NEW r \in Runs \cup {All}, NEW e, e = [NotSent EXCEPT !.run = r, !.step = 1]
    PROVE  IsRequest(e) /\ e.step = 1
PROOF
<1>1. IsRecord(NotSent, {"run", "step", "machines", "completed"}) /\ NotSent.machines.n_receipts = 0
    BY Zenon DEF NotSent, NoMachines, IsRecord
<1>2. /\ IsRecord(e, {"run", "step", "machines", "completed"})
      /\ e.run = r /\ e.step = 1 /\ e.machines = NotSent.machines
    BY <1>1, Zenon DEF IsRecord
<1> QED BY <1>1, <1>2 DEF IsRequest

\* The first query is answered: what the request has then.
LEMMA MachinesRead ==
    ASSUME NEW d, NEW m, IsRequest(d), m.n_receipts \in Nat
    PROVE  /\ IsRequest(WithMachines(d, m)) /\ WithMachines(d, m).step = 2
           /\ WithMachines(d, m).run = d.run /\ WithMachines(d, m).machines = m
PROOF
<1> DEFINE e == WithMachines(d, m)
<1>1. IsRecord(d, {"run", "step", "machines", "completed"}) /\ d.run \in Runs \cup {All}
    BY Zenon DEF IsRequest
<1>2. /\ IsRecord(e, {"run", "step", "machines", "completed"})
      /\ e.run = d.run /\ e.step = 2 /\ e.machines = m
    BY <1>1, Zenon DEF IsRecord, WithMachines
<1> HIDE DEF e
<1>3. IsRequest(e)
    BY <1>1, <1>2 DEF IsRequest
<1> QED BY Zenon, <1>2, <1>3 DEF e

\* And the second.
LEMMA CompletedRead ==
    ASSUME NEW d, NEW c, IsRequest(d)
    PROVE  /\ IsRequest(WithCompleted(d, c)) /\ WithCompleted(d, c).step = 3
           /\ WithCompleted(d, c).machines = d.machines /\ WithCompleted(d, c).completed = c
PROOF
<1> DEFINE e == WithCompleted(d, c)
<1>1. /\ IsRecord(d, {"run", "step", "machines", "completed"}) /\ d.run \in Runs \cup {All}
      /\ d.machines.n_receipts \in Nat
    BY Zenon DEF IsRequest
<1>2. /\ IsRecord(e, {"run", "step", "machines", "completed"})
      /\ e.run = d.run /\ e.step = 3 /\ e.machines = d.machines /\ e.completed = c
    BY <1>1, Zenon DEF IsRecord, WithCompleted
<1> HIDE DEF e
<1>3. IsRequest(e)
    BY <1>1, <1>2 DEF IsRequest
<1> QED BY Zenon, <1>2, <1>3 DEF e

\* The rows that count are finite in number.
LEMMA DoneFinite ==
    ASSUME IsFiniteSet(Runs), IsFiniteSet(Ids), NEW run \in Runs \cup {All}
    PROVE  /\ IsFiniteSet(Done(run)) /\ Cardinality(Done(run)) \in Nat
           /\ \A x \in Done(run) : x = <<x[1], x[2]>> /\ x[1] \in Runs /\ x[2] \in Ids
PROOF
<1>1. Done(run) \subseteq Runs \X Ids
    BY Zenon DEF Done, Scope
<1>2. IsFiniteSet(Done(run)) /\ Cardinality(Done(run)) \in Nat
    BY <1>1, FS_Product, FS_Subset, FS_CardinalityType, Zenon
<1> QED BY <1>1, <1>2

\* Where rows stay, there are never fewer that count.
LEMMA DoneGrows ==
    ASSUME IsFiniteSet(Runs), IsFiniteSet(Ids), NEW run \in Runs \cup {All}, RowsStay
    PROVE  /\ Cardinality(Done(run)) <= Cardinality(Done(run)') /\ Cardinality(Done(run)') \in Nat
PROOF
<1>1. Done(run)' \subseteq Runs \X Ids
    BY Zenon DEF Done, Scope
<1>2. IsFiniteSet(Done(run)')
    BY <1>1, FS_Product, FS_Subset, Zenon
<1>3. Done(run) \subseteq Done(run)'
    BY DoneFinite, Zenon DEF Done, RowsStay, Scope
<1> QED BY <1>2, <1>3, FS_Subset, FS_CardinalityType, Zenon

\* The completed jobs that a query lists are as many as the rows.
LEMMA ListedOnce ==
    ASSUME IsFiniteSet(Runs), IsFiniteSet(Ids), NEW run \in Runs \cup {All}
    PROVE  Cardinality(ReadCompleted(run)) = Cardinality(Done(run))
PROOF
<1> DEFINE item(x) == <<x[1], x[2], rows[x[1]].verdicts[x[2]], rows[x[1]].audits[x[2]]>>
           S == Done(run)
           T == {item(x) : x \in S}
           f == [x \in S |-> item(x)]
<1>1. ReadCompleted(run) = T
    BY Zenon DEF ReadCompleted, Done
<1>2. \A x, y \in S : item(x) = item(y) => x = y
    <2> SUFFICES ASSUME NEW x \in S, NEW y \in S, item(x) = item(y) PROVE x = y
        BY Zenon
    <2>1. x[1] = y[1] /\ x[2] = y[2]
        BY Zenon
    <2> QED BY <2>1, DoneFinite, Zenon
<1>3. f \in Bijection(S, T)
    <2> HIDE DEF item, S
    <2> QED BY <1>2, Zenon DEF Bijection, Injection, Surjection, IsInjective
<1>4. IsFiniteSet(S)
    BY Zenon, DoneFinite
<1> HIDE DEF f, T, S
<1> QED BY <1>1, <1>3, <1>4, FS_Bijection, Zenon DEF ExistsBijection, S

\* The dashboard starts with no row and no reply.
LEMMA IndexInit == Init => IndexInv
PROOF
<1> SUFFICES ASSUME Init PROVE IndexInv
    BY Zenon
<1>1. rows = [r \in Runs |-> [t \in {"workers", "receipts", "verdicts", "audits"} |-> Absent]]
    BY TableNames, Zenon DEF Init, EmptyTables
<1>2. request = [k \in Requests |-> NotSent]
      /\ page = [run |-> All, polls |-> FALSE, shown |-> Blank]
    BY Zenon DEF Init
<1>3. IsRequest(NotSent) /\ NotSent.step = 0
    BY DEF NotSent, NoMachines, IsRequest, IsRecord
<1>4. IndexTypes
    <2>1. IsPage(page)
        BY Zenon, <1>2 DEF IsPage, IsRecord
    <2> QED BY <1>1, <1>2, <1>3, <2>1, Zenon DEF IndexTypes
<1>5. Counted /\ \A k \in Requests : request[k].step = 0
    BY <1>2, <1>3 DEF Counted
<1>6. CountIsListed
    <2>1. page.shown.machines.n_receipts = 0 /\ page.shown.completed = {}
        BY Zenon, <1>2 DEF Blank, NoMachines
    <2>2. Cardinality({}) = 0
        BY FS_EmptySet, Zenon
    <2>3. page.shown.machines.n_receipts <= Cardinality(page.shown.completed)
        BY <2>1, <2>2
    <2>4. \A k \in Requests : ~(request[k].step = 3)
        BY <1>5
    <2> QED BY <2>3, <2>4, Zenon DEF CountIsListed
<1> QED BY <1>4, <1>5, <1>6, Zenon DEF IndexInv

\* A step that leaves the requests and the page alone and takes no row away.
LEMMA RowsKeep ==
    ASSUME IsFiniteSet(Runs), IsFiniteSet(Ids), IndexInv, IndexTypes', RowsStay,
           UNCHANGED <<request, page>>
    PROVE  IndexInv'
PROOF
<1>1. Counted'
    <2> SUFFICES ASSUME NEW k \in Requests, request[k].step = 2
                 PROVE  request[k].machines.n_receipts <= Cardinality(Done(request[k].run)')
        BY Zenon DEF Counted
    <2>1. request[k].machines.n_receipts <= Cardinality(Done(request[k].run))
        BY Zenon DEF IndexInv, Counted
    <2>2. request[k].run \in Runs \cup {All} /\ request[k].machines.n_receipts \in Nat
        BY Zenon DEF IndexInv, IndexTypes, IsRequest
    <2>3. /\ Cardinality(Done(request[k].run)) <= Cardinality(Done(request[k].run)')
          /\ Cardinality(Done(request[k].run)) \in Nat /\ Cardinality(Done(request[k].run)') \in Nat
        <3>1. ASSUME NEW run \in Runs \cup {All}
              PROVE  /\ Cardinality(Done(run)) <= Cardinality(Done(run)')
                     /\ Cardinality(Done(run)) \in Nat /\ Cardinality(Done(run)') \in Nat
            BY DoneGrows, DoneFinite, Zenon
        <3> QED BY <2>2, <3>1, Zenon
    <2>4. ASSUME NEW n \in Nat, NEW a \in Nat, NEW b \in Nat, n <= a, a <= b PROVE n <= b
        BY <2>4
    <2> QED BY <2>1, <2>2, <2>3, <2>4, Zenon
<1>2. CountIsListed'
    BY Zenon DEF IndexInv, CountIsListed
<1> QED BY <1>1, <1>2, Zenon DEF IndexInv

\* n_receipts of an answer is at most the number of jobs it lists.
Covers(x) == x.machines.n_receipts <= Cardinality(x.completed)

\* A request becomes x, or is over, and the page stays as it is but for its run
\* or a reply.
LEMMA RequestKeeps ==
    ASSUME IndexInv, rows' = rows, NEW k \in Requests, NEW x,
           request' = [request EXCEPT ![k] = x], IsRequest(x),
           x.step = 2 => x.machines.n_receipts <= Cardinality(Done(x.run)),
           x.step = 3 => Covers(x),
           IsPage(page'), Covers(page'.shown)
    PROVE  IndexInv'
PROOF
<1>1. \A j \in Requests : request'[j] = IF j = k THEN x ELSE request[j]
    BY Zenon DEF IndexInv, IndexTypes
<1>2. request' = [j \in Requests |-> request'[j]]
    <2>1. request = [j \in Requests |-> request[j]]
        BY Zenon DEF IndexInv, IndexTypes
    <2> QED BY Zenon, <2>1
<1>3. IndexTypes'
    BY <1>1, <1>2, Zenon DEF IndexInv, IndexTypes, IsRequest, IsPage
<1>4. \A run : Done(run)' = Done(run)
    BY Zenon DEF Done, Scope
<1>5. Counted'
    BY <1>1, <1>4, Zenon DEF IndexInv, Counted
<1>6. CountIsListed'
    BY <1>1, Zenon DEF IndexInv, CountIsListed, Covers
<1> QED BY <1>3, <1>5, <1>6, Zenon DEF IndexInv

\* executemany() writes rows and takes none away.
LEMMA CommitStays ==
    ASSUME IndexTypes, CommitTable
    PROVE  RowsStay /\ IndexTypes'
PROOF
<1> DEFINE h == Head(pass.todo)
           t == Tables[pass.t]
           new == Upsert(rows[h][t], pass.got)
<1>1. /\ rows' = [rows EXCEPT ![h] = [@ EXCEPT ![t] = new]]
      /\ UNCHANGED <<page, request>>
    BY Zenon DEF CommitTable
<1>2. \A i \in Ids : rows[h][t][i] # 0 => new[i] # 0
    BY Zenon DEF Upsert
<1> HIDE DEF h, t, new
<1>3. rows' = [r \in Runs |-> IF r = h THEN [rows[h] EXCEPT ![t] = new] ELSE rows[r]]
    BY <1>1, Zenon DEF IndexTypes
<1>4. ASSUME NEW r \in Runs
      PROVE  /\ DOMAIN rows'[r] = DOMAIN rows[r]
             /\ rows'[r] = [u \in DOMAIN rows'[r] |-> rows'[r][u]]
             /\ \A u \in DOMAIN rows[r] : rows'[r][u] = IF r = h /\ u = t THEN new ELSE rows[r][u]
    <2>1. CASE r # h
        BY <1>3, <2>1, Zenon DEF IndexTypes
    <2>2. CASE r = h
        BY <1>3, <2>2, Zenon DEF IndexTypes
    <2> QED BY Zenon, <2>1, <2>2
<1>5. IndexTypes'
    <2>1. DOMAIN rows' = Runs /\ rows' = [r \in Runs |-> rows'[r]]
        BY Zenon, <1>3
    <2>2. ASSUME NEW r \in Runs
          PROVE  /\ DOMAIN rows'[r] = {"workers", "receipts", "verdicts", "audits"}
                 /\ rows'[r] = [u \in DOMAIN rows'[r] |-> rows'[r][u]]
        <3>1. DOMAIN rows[r] = {"workers", "receipts", "verdicts", "audits"}
            BY Zenon DEF IndexTypes
        <3> QED BY <1>4, <3>1, Zenon
    <2> QED BY <1>1, <2>1, <2>2, Zenon DEF IndexTypes, IsRequest, IsPage
<1>6. RowsStay
    <2> SUFFICES ASSUME NEW r \in Runs, NEW i \in Ids, rows[r].receipts[i] # 0
                 PROVE  rows'[r].receipts[i] # 0
        BY Zenon DEF RowsStay
    <2>1. "receipts" \in DOMAIN rows[r]
        BY Zenon DEF IndexTypes
    <2>2. rows'[r].receipts = IF r = h /\ "receipts" = t THEN new ELSE rows[r].receipts
        BY Zenon, <1>4, <2>1
    <2> QED BY Zenon, <1>2, <2>2
<1> QED BY Zenon, <1>5, <1>6

\* A step of the bucket and the indexer: requests and page are left alone.
LEMMA IndexerStep ==
    ASSUME IsFiniteSet(Runs), IsFiniteSet(Ids), IndexInv,
           \/ \E r \in Runs, i \in Ids, t \in Listed : Write(r, t, i)
           \/ \E i \in Workers : Expire(i) \/ \E r \in Runs : Beat(r, i)
           \/ Indexer \/ FailPass \/ UNCHANGED vars
    PROVE  IndexInv'
PROOF
<1>1. CASE CommitTable
    BY <1>1, CommitStays, RowsKeep, Zenon DEF CommitTable, IndexInv
<1>2. CASE UNCHANGED <<rows, request, page>>
    <2>1. RowsStay /\ IndexTypes'
        BY <1>2, Zenon DEF RowsStay, IndexInv, IndexTypes, IsRequest, IsPage
    <2> QED BY <1>2, <2>1, RowsKeep, Zenon
<1>3. CASE \E r \in Runs, i \in Ids, t \in Listed : Write(r, t, i)
    BY <1>2, <1>3, Zenon DEF Write, tables
<1>4. CASE \E i \in Workers : Expire(i) \/ \E r \in Runs : Beat(r, i)
    BY <1>2, <1>4, Zenon DEF Expire, Beat, tables
<1>5. CASE BeginPass \/ ScanTable \/ FailPass \/ UNCHANGED vars
    BY <1>2, <1>5, Zenon DEF BeginPass, ScanTable, FailPass, tables, vars
<1> QED BY <1>1, <1>3, <1>4, <1>5, Zenon DEF Indexer

\* A request of the page's run.
LEMMA FetchKeeps ==
    ASSUME IndexInv, rows' = rows, NEW k \in Requests, NEW r \in Runs \cup {All},
           FetchOnce(k, r),
           page' = [page EXCEPT !.run = r, !.polls = TRUE] \/ page' = page
    PROVE  IndexInv'
PROOF
<1> DEFINE x == [NotSent EXCEPT !.run = r, !.step = 1]
<1>1. x = [NotSent EXCEPT !.run = r, !.step = 1]
    BY Zenon
<1>2. IsRequest(x) /\ x.step = 1
    <2> HIDE DEF x
    <2> QED BY <1>1, Asked, Zenon
<1>3. request' = [request EXCEPT ![k] = x]
    BY Zenon DEF FetchOnce
<1> HIDE DEF x
<1>4. IsPage(page') /\ page'.shown = page.shown
    BY Zenon DEF IndexInv, IndexTypes, IsPage, IsRecord
<1>5. Covers(page'.shown)
    BY <1>4, Zenon DEF IndexInv, CountIsListed, Covers
<1>6. x.step # 2 /\ x.step # 3
    BY <1>2
<1> QED BY <1>2, <1>3, <1>4, <1>5, <1>6, RequestKeeps, Zenon

\* The handler's queries.
LEMMA QueryKeeps ==
    ASSUME IsFiniteSet(Runs), IsFiniteSet(Ids), IndexInv, NEW k \in Requests, Query(k)
    PROVE  IndexInv'
PROOF
<1> DEFINE x == request[k]
<1>1. IsRequest(x) /\ x.run \in Runs \cup {All} /\ x.machines.n_receipts \in Nat
    BY Zenon DEF IndexInv, IndexTypes, IsRequest
<1>2. rows' = rows /\ IsPage(page') /\ Covers(page'.shown)
    BY Zenon DEF Query, tables, IndexInv, IndexTypes, CountIsListed, Covers
<1>3. CASE x.step = 1
    <2> DEFINE m == ReadMachines(x.run)
    <2>1. request' = [request EXCEPT ![k] = WithMachines(x, m)]
        BY <1>3, Zenon DEF Query, WithMachines
    <2>2. m.n_receipts = Cardinality(Done(x.run))
        BY Zenon DEF ReadMachines, ReceiptsCount, Done
    <2>3. Cardinality(Done(x.run)) \in Nat
        BY <1>1, DoneFinite, Zenon
    <2> HIDE DEF x, m
    <2>4. /\ IsRequest(WithMachines(x, m)) /\ WithMachines(x, m).step = 2
          /\ WithMachines(x, m).run = x.run /\ WithMachines(x, m).machines = m
        BY <1>1, <2>2, <2>3, MachinesRead, Zenon
    <2>5. /\ WithMachines(x, m).machines.n_receipts <= Cardinality(Done(WithMachines(x, m).run))
          /\ WithMachines(x, m).step # 3
        BY <2>2, <2>3, <2>4
    <2> QED BY <1>2, <2>1, <2>4, <2>5, RequestKeeps, Zenon
<1>4. CASE x.step = 2
    <2> DEFINE c == ReadCompleted(x.run)
    <2>1. request' = [request EXCEPT ![k] = WithCompleted(x, c)]
        BY <1>4 DEF Query, WithCompleted
    <2>2. x.machines.n_receipts <= Cardinality(c)
        <3>1. x.machines.n_receipts <= Cardinality(Done(x.run))
            BY <1>4, Zenon DEF IndexInv, Counted
        <3>2. Cardinality(c) = Cardinality(Done(x.run))
            BY <1>1, ListedOnce, Zenon
        <3> QED BY <3>1, <3>2, Zenon
    <2> HIDE DEF x, c
    <2>3. /\ IsRequest(WithCompleted(x, c)) /\ WithCompleted(x, c).step = 3
          /\ Covers(WithCompleted(x, c))
        BY <1>1, <2>2, CompletedRead, Zenon DEF Covers
    <2>4. WithCompleted(x, c).step # 2
        BY <2>3
    <2> QED BY <1>2, <2>1, <2>3, <2>4, RequestKeeps, Zenon
<1>5. x.step = 1 \/ x.step = 2
    BY DEF Query
<1> QED BY Zenon, <1>3, <1>4, <1>5

\* A reply arrives, or the request fails.
LEMMA ArriveKeeps ==
    ASSUME IndexInv, NEW k \in Requests, Arrive(k)
    PROVE  IndexInv'
PROOF
<1> DEFINE x == request[k]
<1>1. /\ rows' = rows /\ request' = [request EXCEPT ![k] = NotSent]
    BY Zenon DEF Arrive, tables
<1>2. IsRequest(NotSent) /\ NotSent.step # 2 /\ NotSent.step # 3
    BY DEF NotSent, NoMachines, IsRequest, IsRecord
<1>3. IsPage(page') /\ Covers(page'.shown)
    <2>1. IsPage(page) /\ Covers(page.shown) /\ (x.step = 3 => Covers(x))
        BY Zenon DEF IndexInv, IndexTypes, CountIsListed, Covers
    <2>2. CASE page' = page
        BY <2>1, <2>2, Zenon
    <2>3. ASSUME NEW y, x.step = 3, y = [run |-> x.run, machines |-> x.machines, completed |-> x.completed],
                 page' = [page EXCEPT !.shown = y]
          PROVE  IsPage(page') /\ Covers(page'.shown)
        <3>1. Covers(y)
            BY Zenon, <2>1, <2>3 DEF Covers
        <3>2. IsPage(page') /\ page'.shown = y
            BY Zenon, <2>1, <2>3 DEF IsPage, IsRecord
        <3> QED BY <3>1, <3>2, Zenon
    <2> QED BY <2>2, <2>3, Zenon DEF Arrive
<1> QED BY <1>1, <1>2, <1>3, RequestKeeps, Zenon

\* Every step keeps it.
LEMMA IndexStep ==
    ASSUME IsFiniteSet(Runs), IsFiniteSet(Ids), IndexInv, [Next]_(vars)
    PROVE  IndexInv'
PROOF
<1>1. CASE Restart
    <2>1. /\ rows' = rows /\ page' = page /\ request' = [k \in Requests |-> NotSent]
        BY <1>1, Zenon DEF Restart, tables
    <2>2. IsRequest(NotSent) /\ NotSent.step # 2 /\ NotSent.step # 3
        BY DEF NotSent, NoMachines, IsRequest, IsRecord
    <2>3. \A k \in Requests : request'[k] = NotSent
        BY <2>1, Zenon
    <2>4. request' = [k \in Requests |-> request'[k]]
        BY Zenon, <2>1
    <2>5. IndexTypes'
        BY <2>1, <2>2, <2>3, <2>4, Zenon DEF IndexInv, IndexTypes, IsRequest, IsPage
    <2>6. Counted' /\ CountIsListed'
        BY <2>1, <2>2, <2>3, Zenon DEF IndexInv, Counted, CountIsListed
    <2> QED BY <2>5, <2>6, Zenon DEF IndexInv
<1>2. ASSUME NEW r \in Runs \cup {All}, Pick(r) PROVE IndexInv'
    <2>1. rows' = rows /\ page' = [page EXCEPT !.run = r, !.polls = TRUE]
        BY <1>2, Zenon DEF Pick, tables
    <2>2. CASE \E k \in Requests : FetchOnce(k, r)
        BY <2>1, <2>2, FetchKeeps, Zenon
    <2>3. CASE request' = request
        <3>1. IsPage(page') /\ page'.shown = page.shown
            BY Zenon, <2>1 DEF IndexInv, IndexTypes, IsPage, IsRecord
        <3>2. IndexTypes'
            BY <2>1, <2>3, <3>1, Zenon DEF IndexInv, IndexTypes, IsRequest, IsPage
        <3>3. \A run : Done(run)' = Done(run)
            BY <2>1, Zenon DEF Done, Scope
        <3>4. Counted' /\ CountIsListed'
            BY <2>3, <3>1, <3>3, Zenon DEF IndexInv, Counted, CountIsListed
        <3> QED BY <3>2, <3>4, Zenon DEF IndexInv
    <2> QED BY <1>2, <2>2, <2>3, Zenon DEF Pick
<1>3. ASSUME NEW k \in Requests, Poll(k) PROVE IndexInv'
    <2>1. page.run \in Runs \cup {All}
        BY Zenon DEF IndexInv, IndexTypes, IsPage
    <2>2. PICK r \in Runs \cup {All} : r = page.run
        BY <2>1, Zenon
    <2>3. FetchOnce(k, r) /\ rows' = rows /\ page' = page
        BY <1>3, <2>2, Zenon DEF Poll, tables
    <2> QED BY <2>3, FetchKeeps, Zenon
<1> QED BY <1>1, <1>2, <1>3, IndexerStep, QueryKeeps, ArriveKeeps, Zenon DEF Next, Fetch

\* A reply of /api/snapshot never counts more receipts than it lists, for any
\* runs and receipts.
THEOREM RepliesCountTheirList ==
    ASSUME IsFiniteSet(Runs), IsFiniteSet(Ids)
    PROVE  Spec => []CountIsListed
PROOF
<1>1. Init => IndexInv
    BY Zenon, IndexInit
<1>2. IndexInv /\ [Next]_(vars) => IndexInv'
    BY Zenon, IndexStep
<1>3. IndexInv => CountIsListed
    BY Zenon DEF IndexInv
<1> QED BY <1>1, <1>2, <1>3, PTL DEF Spec
=============================================================================
