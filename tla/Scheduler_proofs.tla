--------------------------- MODULE Scheduler_proofs ---------------------------
(***************************************************************************)
(* What pick_worker returns, for any accounts, quotas and loads, and the   *)
(* arithmetic of the quota book that the run managers' proofs share.  The  *)
(* induction over the accounts is the search for a smallest set of them    *)
(* that has no first element: strict inclusion is well-founded on the      *)
(* subsets of a finite set (FiniteSetTheorems).                            *)
(***************************************************************************)
EXTENDS Scheduler, Integers, TLAPS, FiniteSetTheorems

\* A leaf that names no prover is tried with SMT, with SMT and more time, and
\* with Zenon.
USE SMT, SMTT(30), Zenon

\* hk sorts before every other candidate.
First(hk, S, inflight) == \A g \in S \ {hk} : SortsBefore(inflight, hk, g)

\* A product of naturals can be cancelled by a positive factor.
LEMMA Cancel ==
  ASSUME NEW a \in Nat, NEW b \in Nat, NEW c \in Nat \ {0}
  PROVE  /\ a * c > b * c => a > b
         /\ a * c >= b * c => a >= b
  <1>1. ASSUME b >= a PROVE b * c >= a * c
    <2>1. PICK d \in Nat : b = a + d
      <3>1. b = a + (b - a) /\ b - a \in Nat
        BY <1>1
      <3> QED
        BY Zenon, <3>1
    <2>2. (a + d) * c = a * c + d * c /\ d * c >= 0
      OBVIOUS
    <2>3. a * c \in Nat /\ d * c \in Nat
      OBVIOUS
    <2> QED
      BY <2>1, <2>2, <2>3
  <1>2. ASSUME b > a PROVE b * c > a * c
    <2>1. PICK d \in Nat \ {0} : b = a + d
      <3>1. b = a + (b - a) /\ b - a \in Nat \ {0}
        BY <1>2
      <3> QED
        BY Zenon, <3>1
    <2>2. (a + d) * c = a * c + d * c
      OBVIOUS
    <2>3. a * c \in Nat /\ d * c \in Nat /\ d * c > 0
      OBVIOUS
    <2> QED
      BY <2>1, <2>2, <2>3
  <1>3. a * c \in Nat /\ b * c \in Nat
    OBVIOUS
  <1> QED
    BY <1>1, <1>2, <1>3

\* The order of ratios is transitive: b stands between a and c.
LEMMA Ratios ==
  ASSUME NEW a \in Nat \ {0}, NEW b \in Nat \ {0}, NEW c \in Nat \ {0},
         NEW x \in Nat \ {0}, NEW y \in Nat \ {0}, NEW z \in Nat \ {0},
         a * y >= b * x, b * z >= c * y
  PROVE  /\ a * z >= c * x
         /\ a * y > b * x \/ b * z > c * y => a * z > c * x
         /\ a * y = b * x /\ b * z = c * y => a * z = c * x
  <1> DEFINE ay == a * y  bx == b * x  bz == b * z  cy == c * y  az == a * z  cx == c * x
  <1>1. ay \in Nat /\ bx \in Nat /\ bz \in Nat /\ cy \in Nat /\ az \in Nat /\ cx \in Nat
    OBVIOUS
  <1>2. az * y = ay * z /\ bx * z = bz * x /\ cy * x = cx * y
    OBVIOUS
  <1>3. ay >= bx /\ bz >= cy
    BY Zenon
  <1> HIDE DEF ay, bx, bz, cy, az, cx
  <1>4. ay * z >= bx * z /\ (ay > bx => ay * z > bx * z)
    BY <1>1, <1>3
  <1>5. bz * x >= cy * x /\ (bz > cy => bz * x > cy * x)
    BY <1>1, <1>3
  <1>6. ay * z \in Nat /\ bx * z \in Nat /\ cy * x \in Nat
    BY <1>1
  <1>7. /\ az * y >= cx * y
        /\ ay > bx \/ bz > cy => az * y > cx * y
        /\ ay = bx /\ bz = cy => az * y = cx * y
    BY <1>2, <1>4, <1>5, <1>6
  <1>8. /\ az >= cx
        /\ ay > bx \/ bz > cy => az > cx
    BY Zenon, <1>1, <1>7, Cancel
  <1>9. ay = bx /\ bz = cy => cx >= az
    BY Zenon, <1>1, <1>7, Cancel
  <1>10. ay = bx /\ bz = cy => az = cx
    BY <1>1, <1>8, <1>9
  <1> QED
    BY Zenon, <1>8, <1>10 DEF ay, bx, bz, cy, az, cx

-----------------------------------------------------------------------------
\* The sort key of pick_worker: positive numbers.
LEMMA KeyType ==
  ASSUME NEW inflight \in [Hotkeys -> Nat], NEW g \in Hotkeys
  PROVE  /\ g \in Nat
         /\ 1 + Workers[g] \in Nat \ {0}
         /\ AtLeastOne(inflight[g]) \in Nat \ {0}
  BY SchedulerAssumption DEF AtLeastOne

\* Of two accounts one sorts before the other: ties go to the hotkey.
LEMMA SortTotal ==
  ASSUME NEW inflight \in [Hotkeys -> Nat], NEW g \in Hotkeys, NEW h \in Hotkeys, g # h
  PROVE  SortsBefore(inflight, g, h) \/ SortsBefore(inflight, h, g)
  <1> DEFINE p == (1 + Workers[g]) * AtLeastOne(inflight[h])
             q == (1 + Workers[h]) * AtLeastOne(inflight[g])
  <1>1. p \in Nat /\ q \in Nat /\ g \in Nat /\ h \in Nat
    BY KeyType
  <1>2. p > q \/ (p = q /\ g < h) \/ q > p \/ (q = p /\ h < g)
    BY <1>1
  <1> QED
    BY Zenon, <1>2 DEF SortsBefore

\* The sort is transitive.
LEMMA SortTransitive ==
  ASSUME NEW inflight \in [Hotkeys -> Nat],
         NEW g \in Hotkeys, NEW h \in Hotkeys, NEW k \in Hotkeys,
         SortsBefore(inflight, g, h), SortsBefore(inflight, h, k)
  PROVE  SortsBefore(inflight, g, k)
  <1> DEFINE a == 1 + Workers[g]  x == AtLeastOne(inflight[g])
             b == 1 + Workers[h]  y == AtLeastOne(inflight[h])
             c == 1 + Workers[k]  z == AtLeastOne(inflight[k])
  <1>1. /\ a \in Nat \ {0} /\ b \in Nat \ {0} /\ c \in Nat \ {0}
        /\ x \in Nat \ {0} /\ y \in Nat \ {0} /\ z \in Nat \ {0}
        /\ g \in Nat /\ h \in Nat /\ k \in Nat
    BY Zenon, KeyType
  <1>2. /\ a * y > b * x \/ (a * y = b * x /\ g < h)
        /\ b * z > c * y \/ (b * z = c * y /\ h < k)
    BY Zenon DEF SortsBefore
  <1> HIDE DEF a, b, c, x, y, z
  <1>3. a * y \in Nat /\ b * x \in Nat /\ b * z \in Nat /\ c * y \in Nat
    BY <1>1
  <1>4. a * y >= b * x /\ b * z >= c * y
    BY <1>2, <1>3
  <1>5. a * z > c * x \/ (a * z = c * x /\ g < k)
    BY <1>1, <1>2, <1>4, Ratios
  <1> QED
    BY Zenon, <1>5 DEF SortsBefore, a, c, x, z

\* Every set of accounts that is not empty has one that sorts before the others.
LEMMA SomeFirst ==
  ASSUME NEW inflight \in [Hotkeys -> Nat], NEW S \in SUBSET Hotkeys, S # {}
  PROVE  \E hk \in S : First(hk, S, inflight)
  <1> DEFINE B == {T \in SUBSET Hotkeys : T # {} /\ ~\E hk \in T : First(hk, T, inflight)}
  <1> SUFFICES ASSUME B # {} PROVE FALSE
    BY Zenon
  <1>1. IsFiniteSet(Hotkeys)
    BY Zenon, SchedulerAssumption
  <1>2. IsWellFoundedOn(StrictSubsetOrdering(Hotkeys), SUBSET Hotkeys)
    BY Zenon, <1>1, FS_StrictSubsetOrderingWellFounded, FS_FiniteSubsetsOfFinite
  <1>3. PICK T \in B : \A U \in B : ~(<<U, T>> \in StrictSubsetOrdering(Hotkeys))
    <2>1. B \subseteq SUBSET Hotkeys
      BY Zenon
    <2> HIDE DEF B
    <2> QED
      BY Zenon, <1>2, <2>1, WFMin
  <1>4. PICK x \in T : TRUE
    BY Zenon
  <1> DEFINE U == T \ {x}
  <1>5. U \notin B
    BY Zenon, <1>3, <1>4 DEF StrictSubsetOrdering
  <1>6. CASE U = {}
    <2>1. First(x, T, inflight)
      BY Zenon, <1>6 DEF First
    <2> QED
      BY Zenon, <1>4, <2>1
  <1>7. CASE U # {}
    <2>1. PICK m \in U : First(m, U, inflight)
      BY Zenon, <1>5, <1>7
    <2>2. m \in Hotkeys /\ x \in Hotkeys /\ m # x
      BY Zenon, <1>4, <2>1
    <2>3. CASE SortsBefore(inflight, m, x)
      <3>1. First(m, T, inflight)
        BY Zenon, <2>1, <2>3 DEF First
      <3> QED
        BY Zenon, <2>1, <3>1
    <2>4. CASE SortsBefore(inflight, x, m)
      <3>1. ASSUME NEW g \in T \ {x} PROVE SortsBefore(inflight, x, g)
        <4>1. CASE g = m
          BY Zenon, <2>4, <4>1
        <4>2. CASE g # m
          <5>1. SortsBefore(inflight, m, g) /\ g \in Hotkeys
            BY Zenon, <2>1, <4>2 DEF First
          <5> QED
            BY Zenon, <2>2, <2>4, <5>1, SortTransitive
        <4> QED
          BY Zenon, <4>1, <4>2
      <3>2. First(x, T, inflight)
        BY Zenon, <3>1 DEF First
      <3> QED
        BY Zenon, <1>4, <3>2
    <2> QED
      BY Zenon, <2>2, <2>3, <2>4, SortTotal
  <1> QED
    BY Zenon, <1>6, <1>7

\* pick_worker's sort has a first element among the accounts that the loop did
\* not skip, so what it returns has room in its queue and quota left.
THEOREM PickIsCandidate ==
  ASSUME NEW accounts \in SUBSET Hotkeys, NEW inflight \in [Hotkeys -> Nat],
         NEW depth, Candidates(accounts, inflight, depth) # {}
  PROVE  LET hk == PickWorker(Candidates(accounts, inflight, depth), inflight)
         IN  /\ hk \in accounts
             /\ depth[hk] < MaxInflight
             /\ inflight[hk] < BaseQuota
  <1> DEFINE S == Candidates(accounts, inflight, depth)
             hk == PickWorker(S, inflight)
  <1>1. S \in SUBSET Hotkeys /\ S # {}
    BY Zenon DEF Candidates
  <1>2. \E g \in S : First(g, S, inflight)
    <2> HIDE DEF S
    <2> QED
      BY Zenon, <1>1, SomeFirst
  <1>3. hk \in S
    <2> HIDE DEF S
    <2> QED
      BY Zenon, <1>2 DEF PickWorker, First
  <1>4. AvailableQuota(inflight, hk) >= 1 /\ depth[hk] < MaxInflight /\ hk \in accounts
    BY Zenon, <1>3 DEF Candidates
  <1>5. inflight[hk] < BaseQuota
    <2>1. inflight[hk] \in Nat /\ BaseQuota \in Nat
      BY Zenon, <1>1, <1>3, SchedulerAssumption
    <2> HIDE DEF hk
    <2> QED
      BY <1>4, <2>1 DEF AvailableQuota
  <1> QED
    BY Zenon, <1>4, <1>5
-----------------------------------------------------------------------------
(* The book: reservations counted job by job.                              *)

\* What each hotkey holds of the quota when m[j] is the hotkey of job j and S
\* are the jobs that are reserved.
Held(m, S) == [hk \in Hotkeys |-> Cardinality({j \in S : m[j] = hk})]

\* The counters are numbers.
LEMMA HeldType ==
  ASSUME NEW m, NEW S, IsFiniteSet(S)
  PROVE  Held(m, S) \in [Hotkeys -> Nat]
  <1>1. ASSUME NEW hk \in Hotkeys PROVE Cardinality({j \in S : m[j] = hk}) \in Nat
    BY Zenon, FS_Subset, FS_CardinalityType
  <1> QED
    BY Zenon, <1>1 DEF Held

\* release() keeps them numbers.
LEMMA ReleaseType ==
  ASSUME NEW f \in [Hotkeys -> Nat], NEW count \in [Hotkeys -> Nat]
  PROVE  Release(f, count) \in [Hotkeys -> Nat]
  <1>1. ASSUME NEW hk \in Hotkeys
        PROVE  (IF f[hk] <= count[hk] THEN 0 ELSE f[hk] - count[hk]) \in Nat
    OBVIOUS
  <1> QED
    BY Zenon, <1>1 DEF Release

\* Nothing is reserved for no jobs.
LEMMA HeldNone ==
  ASSUME NEW m
  PROVE  Held(m, {}) = [hk \in Hotkeys |-> 0]
  <1>1. \A hk \in Hotkeys : {j \in {} : m[j] = hk} = {}
    BY Zenon
  <1> QED
    BY Zenon, <1>1, FS_EmptySet DEF Held

\* Writing the manifest of a job outside S for hk reserves one unit of hk.
LEMMA ReserveOne ==
  ASSUME NEW S, IsFiniteSet(S), NEW j, j \notin S, NEW hk \in Hotkeys,
         NEW m, NEW n, n[j] = hk, \A k \in S : n[k] = m[k]
  PROVE  Held(n, S \cup {j}) = Reserve(Held(m, S), hk)
  <1>1. ASSUME NEW g \in Hotkeys
        PROVE  Held(n, S \cup {j})[g] = IF g = hk THEN Held(m, S)[g] + 1 ELSE Held(m, S)[g]
    <2> DEFINE SS == {k \in S : m[k] = g}  TT == {k \in S \cup {j} : n[k] = g}
    <2>1. IsFiniteSet(SS) /\ j \notin SS
      BY Zenon, FS_Subset
    <2>2. TT = IF g = hk THEN SS \cup {j} ELSE SS
      BY Zenon
    <2>3. Held(m, S)[g] = Cardinality(SS) /\ Held(n, S \cup {j})[g] = Cardinality(TT)
      BY Zenon DEF Held
    <2> HIDE DEF SS, TT
    <2>4. Cardinality(SS \cup {j}) = Cardinality(SS) + 1
      BY Zenon, <2>1, FS_AddElement
    <2> QED
      BY Zenon, <2>2, <2>3, <2>4
  <1>2. Held(n, S \cup {j}) = [g \in Hotkeys |-> Held(n, S \cup {j})[g]]
    BY Zenon DEF Held
  <1>3. Reserve(Held(m, S), hk) =
          [g \in Hotkeys |-> IF g = hk THEN Held(m, S)[g] + 1 ELSE Held(m, S)[g]]
    BY Zenon DEF Held, Reserve
  <1> QED
    BY Zenon, <1>1, <1>2, <1>3

\* Giving back the jobs P of S leaves the quota of the others: the cut-off of
\* release() at zero hides nothing.
LEMMA ReleaseHeld ==
  ASSUME NEW m, NEW S, IsFiniteSet(S), NEW P \in SUBSET S
  PROVE  Release(Held(m, S), Held(m, P)) = Held(m, S \ P)
  <1>1. ASSUME NEW hk \in Hotkeys
        PROVE  (IF Held(m, S)[hk] <= Held(m, P)[hk] THEN 0
                ELSE Held(m, S)[hk] - Held(m, P)[hk]) = Held(m, S \ P)[hk]
    <2> DEFINE SS == {j \in S : m[j] = hk}
               PP == {j \in P : m[j] = hk}
               DD == {j \in S \ P : m[j] = hk}
    <2>1. IsFiniteSet(SS) /\ PP \in SUBSET SS /\ DD = SS \ PP
      BY Zenon, FS_Subset
    <2>2. Held(m, S)[hk] = Cardinality(SS) /\ Held(m, P)[hk] = Cardinality(PP)
            /\ Held(m, S \ P)[hk] = Cardinality(DD)
      BY Zenon DEF Held
    <2> HIDE DEF SS, PP, DD
    <2>3. IsFiniteSet(PP) /\ Cardinality(PP) \in Nat /\ Cardinality(SS) \in Nat
            /\ Cardinality(PP) <= Cardinality(SS)
      BY Zenon, <2>1, FS_Subset, FS_CardinalityType
    <2>4. Cardinality(SS \ PP) = Cardinality(SS) - Cardinality(SS \cap PP)
      BY Zenon, <2>1, FS_Difference
    <2>5. SS \cap PP = PP
      BY Zenon, <2>1
    <2> QED
      BY <2>1, <2>2, <2>3, <2>4, <2>5
  <1>2. Held(m, S \ P) = [hk \in Hotkeys |-> Held(m, S \ P)[hk]]
    BY Zenon DEF Held
  <1> QED
    BY Zenon, <1>1, <1>2 DEF Release

-----------------------------------------------------------------------------
\* A remainder, and a quotient counted from any place c, make up the number.
LEMMA SameNumber ==
  ASSUME NEW a \in Nat \ {0}, NEW c \in Nat, NEW n \in Nat, NEW m \in Nat, c <= n, c <= m,
         n % a = m % a, (n - c) \div a = (m - c) \div a
  PROVE  n = m
  <1> DEFINE k == n - c  l == m - c
  <1>1. k \in Nat /\ l \in Nat
    OBVIOUS
  <1> HIDE DEF k, l
  <1>2. k = a * (k \div a) + (k % a) /\ l = a * (l \div a) + (l % a)
    BY <1>1
  <1>3. n = a * (n \div a) + (n % a) /\ m = a * (m \div a) + (m % a)
    OBVIOUS
  <1>4. k % a \in 0..(a - 1) /\ l % a \in 0..(a - 1) /\ k \div a = l \div a
    BY <1>1 DEF k, l
  <1>5. k - l = (k % a) - (l % a) /\ n - m = k - l
    <2>1. a * (k \div a) \in Int /\ a * (k \div a) = a * (l \div a)
      BY <1>1, <1>4
    <2> QED
      BY <1>1, <1>2, <1>4, <2>1 DEF k, l
  <1>6. n - m \in (-(a - 1))..(a - 1)
    BY <1>4, <1>5
  <1> DEFINE q == n \div a  p == m \div a
  <1>7. q \in Int /\ p \in Int /\ n - m = a * q - a * p
    BY <1>3
  <1> HIDE DEF q, p
  <1>8. n - m = a * (q - p)
    BY <1>7
  <1>9. PICK d \in Int : d = q - p
    BY <1>7
  <1>10. a * d \in (-(a - 1))..(a - 1)
    BY Zenon, <1>6, <1>8, <1>9
  <1>11. d = 0
    <2>1. ASSUME d >= 1 PROVE FALSE
      BY <1>10, <2>1
    <2>2. ASSUME d <= -1 PROVE FALSE
      BY <1>10, <2>2
    <2> QED
      BY <2>1, <2>2
  <1> QED
    BY <1>8, <1>9, <1>11
===============================================================================
