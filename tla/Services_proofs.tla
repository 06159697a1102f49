--------------------------- MODULE Services_proofs ---------------------------
(***************************************************************************)
(* Proofs about three of the parts that MCServices puts side by side: the  *)
(* receipt drain, for any set of jobs, any backdate, skew and scan time,   *)
(* and any number of restarts; the watchdog of a validator's weights; and  *)
(* the queue's way to a page of the dashboard.  As there, the variables of *)
(* an instance carry a prefix; the parts do not meet, and each theorem is  *)
(* about one of them.                                                      *)
(***************************************************************************)
EXTENDS ReceiptDrain, Sequences, TLAPS

\* The clocks: nothing is dated later than now, a receipt's mtime is within
\* Skew of its landing, and a scan is at most MaxScan old.
Clocks ==
    /\ cursor <= now /\ start <= now
    /\ scanning => begun <= now /\ now <= begun + MaxScan
    /\ now >= FirstSecond
    /\ \A j \in Jobs : added[j] <= now /\ landed[j] <= now
    /\ \A j \in Jobs : landed[j] # 0 => /\ landed[j] >= FirstSecond
                                        /\ mtime[j] >= landed[j] - Skew

\* What makes OwnReceiptsListed inductive: a receipt that the scan under way
\* does not list landed after the scan began.
Covered(j) == IF scanning THEN j \in listed \/ mtime[j] >= begun - Skew
                          ELSE mtime[j] >= cursor - Backdate

OwnCovered ==
    faults = 0 => \A j \in Jobs : Answered(j) /\ added[j] >= start => Covered(j)

\* The initial state satisfies the type invariant, the clock facts and the
\* two safety invariants.
LEMMA InitHolds == Init => TypeOK /\ Clocks /\ OwnCovered /\ ExpiredLeave
  <1> SUFFICES ASSUME Init PROVE TypeOK /\ Clocks /\ OwnCovered /\ ExpiredLeave
    OBVIOUS
  <1>1. FirstSecond \in Nat /\ FirstSecond >= 1
    BY DrainAssumption DEF FirstSecond
  <1>2. TypeOK
    <2>1. /\ now \in Nat /\ start \in Nat /\ cursor \in Nat /\ begun \in Nat
          /\ restarts \in Nat /\ faults \in Nat
      BY <1>1 DEF Init
    <2>2. /\ added \in [Jobs -> Nat] /\ deadline \in [Jobs -> Nat]
          /\ landed \in [Jobs -> Nat] /\ mtime \in [Jobs -> Int]
      BY DEF Init
    <2> QED
      BY <2>1, <2>2, ZenonT(20) DEF Init, TypeOK
  <1>3. Clocks
    BY <1>1, DrainAssumption DEF Init, Clocks
  <1>4. OwnCovered /\ ExpiredLeave
    BY DEF Init, OwnCovered, ExpiredLeave, Answered
  <1> QED
    BY <1>2, <1>3, <1>4

\* Every step preserves the type invariant.
LEMMA TypeStep == TypeOK /\ Clocks /\ [Next]_vars => TypeOK'
  <1> SUFFICES ASSUME TypeOK, Clocks, [Next]_vars PROVE TypeOK'
    OBVIOUS
  <1> USE DrainAssumption DEF TypeOK
  <1>1. CASE Pass
    BY <1>1 DEF Pass, scan, entries, objects, budget
  <1>2. CASE BeginScan
    BY <1>2 DEF BeginScan, InWindow, entries, objects, budget
  <1>3. CASE EndScan
    BY ZenonT(20), <1>3 DEF EndScan, Live, objects, budget
  <1>4. CASE FailScan
    <2>1. faults' \in Nat
      BY <1>4 DEF FailScan
    <2>2. queue' \subseteq Jobs
      BY <1>4 DEF FailScan, Live
    <2> QED
      BY <1>4, <2>1, <2>2, ZenonT(20) DEF FailScan, objects
  <1>5. CASE Restart
    <2>1. restarts' \in Nat
      BY <1>5 DEF Restart
    <2> QED
      BY <1>5, <2>1, ZenonT(20) DEF Restart, entries, objects
  <1>6. ASSUME NEW j \in Jobs, Emit(j) PROVE TypeOK'
    BY <1>6 DEF Emit, scan, objects, budget
  <1>7. ASSUME NEW j \in Jobs, Land(j) PROVE TypeOK'
    <2>1. PICK off \in (-Skew)..Skew : mtime' = [mtime EXCEPT ![j] = now + off]
      BY ZenonT(20), <1>7 DEF Land
    <2>2. now + off \in Int
      OBVIOUS
    <2> QED
      BY <1>7, <2>1, <2>2 DEF Land, scan, entries, budget
  <1>8. CASE UNCHANGED vars
    BY <1>8 DEF vars, scan, entries, objects, budget
  <1> QED
    BY <1>1, <1>2, <1>3, <1>4, <1>5, <1>6, <1>7, <1>8 DEF Next

\* Every step preserves the clock facts.
LEMMA ClocksStep == TypeOK /\ Clocks /\ [Next]_vars => Clocks'
  <1> SUFFICES ASSUME TypeOK, Clocks, [Next]_vars PROVE Clocks'
    OBVIOUS
  <1> USE DrainAssumption DEF TypeOK, Clocks, FirstSecond
  <1>1. CASE Pass
    BY <1>1 DEF Pass, scan, entries, objects, budget
  <1>2. CASE BeginScan
    BY <1>2 DEF BeginScan, entries, objects, budget
  <1>3. CASE EndScan
    BY <1>3 DEF EndScan, objects, budget
  <1>4. CASE FailScan
    BY <1>4 DEF FailScan, objects
  <1>5. CASE Restart
    BY <1>5 DEF Restart, entries, objects
  <1>6. ASSUME NEW j \in Jobs, Emit(j) PROVE Clocks'
    BY <1>6 DEF Emit, scan, objects, budget
  <1>7. ASSUME NEW j \in Jobs, Land(j) PROVE Clocks'
    <2>1. PICK off \in (-Skew)..Skew : mtime' = [mtime EXCEPT ![j] = now + off]
      BY ZenonT(20), <1>7 DEF Land
    <2>2. landed'[j] = now /\ mtime'[j] = now + off
      BY <1>7, <2>1 DEF Land
    <2>3. \A k \in Jobs \ {j} : landed'[k] = landed[k] /\ mtime'[k] = mtime[k]
      BY <1>7, <2>1 DEF Land
    <2> QED
      BY <1>7, <2>2, <2>3 DEF Land, scan, entries, budget
  <1>8. CASE UNCHANGED vars
    BY <1>8 DEF vars, scan, entries, objects, budget
  <1> QED
    BY <1>1, <1>2, <1>3, <1>4, <1>5, <1>6, <1>7, <1>8 DEF Next

\* A receipt that is covered between two scans is in the window of the next.
LEMMA CoveredInWindow ==
  ASSUME TypeOK, Clocks, ~scanning, NEW j \in Jobs, landed[j] # 0, Covered(j)
  PROVE  j \in InWindow
  BY DrainAssumption DEF TypeOK, Clocks, Covered, InWindow, Since, FirstSecond

\* Every step keeps the receipts of a process's own jobs covered, when the
\* backdate makes up for the scan time and the skew.
LEMMA CoveredStep ==
  ASSUME MaxScan + Skew <= Backdate
  PROVE  TypeOK /\ Clocks /\ OwnCovered /\ [Next]_vars => OwnCovered'
  <1> SUFFICES ASSUME TypeOK, Clocks, OwnCovered, [Next]_vars, faults' = 0,
                      NEW k \in Jobs, Answered(k)', (added[k] >= start)'
               PROVE  Covered(k)'
    BY DEF OwnCovered
  <1> USE DrainAssumption DEF TypeOK
  <1>1. CASE Pass
    BY <1>1 DEF Pass, scan, entries, objects, budget, OwnCovered, Answered, Covered
  <1>2. CASE BeginScan
    <2>1. Answered(k) /\ added[k] >= start /\ faults = 0
      BY <1>2 DEF BeginScan, entries, objects, budget, Answered
    <2>2. landed[k] # 0 /\ Covered(k)
      BY <2>1 DEF OwnCovered, Answered
    <2> QED
      BY <1>2, <2>2, CoveredInWindow DEF BeginScan, Covered
  <1>3. CASE EndScan
    <2>1. Answered(k) /\ added[k] >= start /\ faults = 0 /\ k \notin listed
      BY <1>3 DEF EndScan, Live, objects, budget, Answered
    <2>2. mtime[k] >= begun - Skew
      BY <1>3, <2>1 DEF OwnCovered, Covered, EndScan
    <2> QED
      BY <1>3, <2>2 DEF EndScan, objects, Covered, Clocks
  <1>4. CASE FailScan
    BY <1>4 DEF FailScan
  <1>5. CASE Restart
    BY <1>5 DEF Restart, entries, objects, Answered, Covered, Clocks
  <1>6. ASSUME NEW j \in Jobs, Emit(j) PROVE Covered(k)'
    <2>1. CASE k = j
      BY <1>6, <2>1 DEF Emit, scan, objects, budget, Answered, Covered, Clocks
    <2>2. CASE k # j
      BY <1>6, <2>2 DEF Emit, scan, objects, budget, OwnCovered, Answered, Covered
    <2> QED
      BY <2>1, <2>2
  <1>7. ASSUME NEW j \in Jobs, Land(j) PROVE Covered(k)'
    <2>1. PICK off \in (-Skew)..Skew : mtime' = [mtime EXCEPT ![j] = now + off]
      BY ZenonT(20), <1>7 DEF Land
    <2>2. CASE k = j
      <3>1. mtime'[k] >= now - Skew
        BY <2>1, <2>2
      <3> QED
        BY <1>7, <3>1 DEF Land, scan, Covered, Clocks
    <2>3. CASE k # j
      BY <1>7, <2>1, <2>3 DEF Land, scan, entries, budget, OwnCovered, Answered, Covered
    <2> QED
      BY <2>2, <2>3
  <1>8. CASE UNCHANGED vars
    BY <1>8 DEF vars, scan, entries, objects, budget, OwnCovered, Answered, Covered
  <1> QED
    BY <1>1, <1>2, <1>3, <1>4, <1>5, <1>6, <1>7, <1>8 DEF Next

\* Covered receipts are listed by the scan under way or by the next one.
LEMMA CoveredIsListed ==
  ASSUME MaxScan + Skew <= Backdate, TypeOK, Clocks, OwnCovered
  PROVE  OwnReceiptsListed
  <1> SUFFICES ASSUME faults = 0, NEW j \in Jobs, Answered(j), added[j] >= start
               PROVE  WillBeListed(j)
    BY DEF OwnReceiptsListed
  <1>1. Covered(j) /\ landed[j] # 0
    BY DEF OwnCovered, Answered
  <1>2. CASE scanning
    BY <1>1, <1>2, DrainAssumption DEF Covered, WillBeListed, TypeOK, Clocks
  <1>3. CASE ~scanning
    BY <1>1, <1>3, CoveredInWindow DEF WillBeListed, InWindow
  <1> QED
    BY <1>2, <1>3

\* Every step keeps expired entries out of the queue between scans.
LEMMA ExpiredStep == TypeOK /\ Clocks /\ ExpiredLeave /\ [Next]_vars => ExpiredLeave'
  <1> SUFFICES ASSUME TypeOK, Clocks, ExpiredLeave, [Next]_vars PROVE ExpiredLeave'
    OBVIOUS
  <1> USE DrainAssumption DEF TypeOK, ExpiredLeave
  <1>1. CASE Pass
    BY <1>1 DEF Pass, scan, entries
  <1>2. CASE BeginScan
    BY <1>2 DEF BeginScan
  <1>3. CASE EndScan
    BY <1>3 DEF EndScan, Live
  <1>4. CASE FailScan
    BY <1>4 DEF FailScan, Live
  <1>5. CASE Restart
    BY <1>5 DEF Restart
  <1>6. ASSUME NEW j \in Jobs, Emit(j) PROVE ExpiredLeave'
    BY <1>6 DEF Emit, scan, Clocks
  <1>7. ASSUME NEW j \in Jobs, Land(j) PROVE ExpiredLeave'
    BY <1>7 DEF Land, scan, entries
  <1>8. CASE UNCHANGED vars
    BY <1>8 DEF vars, scan, entries
  <1> QED
    BY <1>1, <1>2, <1>3, <1>4, <1>5, <1>6, <1>7, <1>8 DEF Next

\* The receipt window of _drain_queue_via_receipts: with a backdate that covers
\* the longest scan and the clock skew, no receipt of a job that the process
\* emitted falls between two scans.
THEOREM NoReceiptBetweenScans ==
  ASSUME MaxScan + Skew <= Backdate
  PROVE  Spec => []OwnReceiptsListed
  <1>1. Init => TypeOK /\ Clocks /\ OwnCovered
    BY InitHolds
  <1>2. TypeOK /\ Clocks /\ OwnCovered /\ [Next]_vars => (TypeOK /\ Clocks /\ OwnCovered)'
    BY TypeStep, ClocksStep, CoveredStep
  <1>3. TypeOK /\ Clocks /\ OwnCovered => OwnReceiptsListed
    BY CoveredIsListed
  <1> QED
    BY <1>1, <1>2, <1>3, PTL DEF Spec

\* prune_expired at the end of every drain, failed ones included: whatever the
\* constants, no entry stays in the queue past a scan that ended after its
\* deadline.
THEOREM DeadlineBoundsEveryEntry == Spec => []ExpiredLeave
  <1>1. Init => TypeOK /\ Clocks /\ ExpiredLeave
    BY InitHolds
  <1>2. TypeOK /\ Clocks /\ ExpiredLeave /\ [Next]_vars => (TypeOK /\ Clocks /\ ExpiredLeave)'
    BY TypeStep, ClocksStep, ExpiredStep
  <1> QED
    BY <1>1, <1>2, PTL DEF Spec

-----------------------------------------------------------------------------
(* The watchdog of the validator's weights.                                *)

CONSTANTS
    Hotkeys, Validator, RateLimit, Threshold, Cooldown, PollBlocks, MaxPass, MaxLatency,
    MaxChanges

VARIABLES
    w_age, w_by, w_metagraph, w_scored, w_val, w_dog, w_burnAge, w_dry, w_faults, w_changes

Weights == INSTANCE ValidatorWeights WITH
    age <- w_age, by <- w_by, metagraph <- w_metagraph, scored <- w_scored, val <- w_val,
    dog <- w_dog, burnAge <- w_burnAge, dry <- w_dry, faults <- w_faults, changes <- w_changes

\* A leaf that names no prover is tried with SMT, with SMT and more time, and
\* with Zenon.
USE SMT, SMTT(30), Zenon

\* A cycle of the watchdog takes at most Cycle blocks, of which it is in the
\* Spent-th.
Cycle == PollBlocks + 2 * MaxLatency
Spent ==
    w_dog.clock + IF w_dog.step = "sleep" THEN 0
                  ELSE IF w_dog.step = "read" THEN PollBlocks ELSE PollBlocks + MaxLatency

DogTypes ==
    /\ w_age \in Nat /\ w_burnAge \in Nat /\ w_faults \in 0..MaxFaults
    /\ w_dog \in [step : {"sleep", "read", "sent"}, clock : Nat, since : Nat]
    /\ w_dog.clock <= IF w_dog.step = "sleep" THEN PollBlocks ELSE MaxLatency

\* What the watchdog has read is the age of the weights still, or they were
\* replaced since; so when it burns.
Informed ==
    /\ w_dog.step = "read" =>
          w_age <= w_dog.since /\ (w_age = w_dog.since \/ w_age <= w_dog.clock)
    /\ w_dog.step = "sent" => w_age > Threshold \/ w_age <= MaxLatency + w_dog.clock

\* The cool-down is over when the weights are old.
CoolDown ==
    ~w_dry => \/ w_burnAge >= Cooldown
              \/ w_age <= w_burnAge /\ (w_dog.step = "read" => w_dog.since <= w_burnAge)

\* The weights are as old as the watchdog's threshold, the cycles that failed
\* and the one it is in make them.
AgeBound ==
    ~w_dry /\ Validator \in w_metagraph => w_age <= Threshold + w_faults * Cycle + Spent

WatchdogInv == DogTypes /\ Informed /\ CoolDown /\ AgeBound

\* Failed cycles add whole cycles to the bound.
LEMMA CyclesAdd ==
    ASSUME Weights!Configured, NEW f \in Nat
    PROVE  /\ Cycle \in Nat /\ f * Cycle \in Nat
           /\ (f + 1) * Cycle = f * Cycle + Cycle
           /\ f <= MaxFaults => f * Cycle <= MaxFaults * Cycle
           /\ Weights!Overdue = Threshold + MaxFaults * Cycle + Cycle + 1
           /\ Weights!Overdue \in Nat
PROOF
<1>1. Cycle \in Nat /\ f * Cycle \in Nat
    BY DEF Weights!Configured, Cycle
<1>2. ASSUME NEW c \in Nat PROVE (f + 1) * c = f * c + c
    BY SMT
<1>3. ASSUME NEW c \in Nat, NEW n \in Nat, f <= n PROVE f * c <= n * c
    <2>1. PICK d \in Nat : n = f + d
        BY <1>3
    <2>2. n * c = f * c + d * c /\ d * c \in Nat /\ f * c \in Nat
        BY <2>1
    <2> QED BY <2>2
<1>4. ASSUME NEW c \in Nat, NEW n \in Nat PROVE (1 + n) * c = n * c + c /\ n * c \in Nat
    BY SMT
<1>5. Weights!Overdue = Threshold + MaxFaults * Cycle + Cycle + 1
    <2>1. Weights!Overdue = Threshold + (1 + MaxFaults) * Cycle + 1
        BY DEF Weights!Overdue, Cycle
    <2> QED BY <1>1, <1>4, <2>1 DEF Weights!Configured
<1>6. Weights!Overdue \in Nat
    BY <1>1, <1>4, <1>5 DEF Weights!Configured
<1>7. MaxFaults \in Nat
    BY DEF Weights!Configured
<1> QED BY <1>1, <1>2, <1>3, <1>5, <1>6, <1>7, Zenon

\* The watchdog starts with fresh weights.
LEMMA WatchdogInit == Weights!Configured /\ Weights!Init => WatchdogInv
PROOF
<1> SUFFICES ASSUME Weights!Configured, Weights!Init PROVE WatchdogInv
    OBVIOUS
<1>1. 0 * Cycle = 0 /\ Cycle \in Nat
    BY DEF Weights!Configured, Cycle
<1> QED BY <1>1 DEF Weights!Configured, Weights!Init, Weights!Never, WatchdogInv, DogTypes, Informed, CoolDown, AgeBound, Spent

\* The fields of the watchdog's record one block later.
LEMMA DogEdit ==
    ASSUME NEW d \in [step : {"sleep", "read", "sent"}, clock : Nat, since : Nat], NEW n \in Nat, NEW c \in Nat
    PROVE  /\ [d EXCEPT !.clock = c, !.since = n].step = d.step
           /\ [d EXCEPT !.clock = c, !.since = n].clock = c
           /\ [d EXCEPT !.clock = c, !.since = n].since = n
           /\ [d EXCEPT !.clock = c, !.since = n] \in
                 [step : {"sleep", "read", "sent"}, clock : Nat, since : Nat]
PROOF BY Zenon

\* A block makes everything one older.
LEMMA TickKeeps == ASSUME Weights!Configured, WatchdogInv, Weights!Tick PROVE WatchdogInv'
PROOF
<1> DEFINE over == Weights!Overdue
<1>0. w_faults \in Nat
    BY DEF WatchdogInv, DogTypes, Weights!Configured
<1>1. over \in Nat /\ w_faults * Cycle \in Nat
    BY <1>0, CyclesAdd, Zenon
<1>2. /\ w_dog'.step = w_dog.step /\ w_dog'.clock = w_dog.clock + 1
      /\ w_dog'.since = IF w_dog.step = "read" THEN Weights!Older(w_dog.since, over) ELSE w_dog.since
      /\ w_dog' \in [step : {"sleep", "read", "sent"}, clock : Nat, since : Nat]
    <2> DEFINE since == IF w_dog.step = "read" THEN Weights!Older(w_dog.since, over) ELSE w_dog.since
    <2>1. w_dog' = [w_dog EXCEPT !.clock = w_dog.clock + 1, !.since = since]
        BY Zenon DEF Weights!Tick
    <2>2. w_dog \in [step : {"sleep", "read", "sent"}, clock : Nat, since : Nat]
        BY Zenon DEF WatchdogInv, DogTypes
    <2>3. since \in Nat
        <3> HIDE DEF over
        <3> QED BY <1>1, <2>2 DEF Weights!Older
    <2>4. w_dog.clock + 1 \in Nat
        BY <2>2
    <2> QED BY <2>1, <2>2, <2>3, <2>4, DogEdit, Zenon
<1>3. /\ w_age' = Weights!Older(w_age, over)
      /\ w_burnAge' = IF w_burnAge < Cooldown THEN w_burnAge + 1 ELSE w_burnAge
      /\ w_dog.clock < (IF w_dog.step = "sleep" THEN PollBlocks ELSE MaxLatency)
      /\ w_metagraph' = w_metagraph /\ w_dry' = w_dry /\ w_faults' = w_faults
    BY DEF Weights!Tick, Weights!world
<1> HIDE DEF over
<1>4. DogTypes'
    BY <1>1, <1>2, <1>3 DEF WatchdogInv, DogTypes, Weights!Configured, Weights!Older
<1>5. Informed'
    BY <1>1, <1>2, <1>3 DEF WatchdogInv, DogTypes, Informed, Weights!Configured, Weights!Older
<1>6. CoolDown'
    BY <1>1, <1>2, <1>3 DEF WatchdogInv, DogTypes, CoolDown, Weights!Configured, Weights!Older
<1>7. AgeBound'
    BY <1>1, <1>2, <1>3 DEF WatchdogInv, DogTypes, AgeBound, Spent, Weights!Configured, Weights!Older
<1> QED BY <1>4, <1>5, <1>6, <1>7 DEF WatchdogInv

\* The chain takes an update, or a registration comes and goes: the weights are
\* new or as they were.
LEMMA RenewalKeeps ==
    ASSUME Weights!Configured, WatchdogInv, UNCHANGED <<w_dog, w_burnAge, w_dry, w_faults>>,
           w_age' = 0 \/ (w_age' = w_age /\ (Validator \in w_metagraph' => Validator \in w_metagraph))
    PROVE  WatchdogInv'
PROOF
<1>0. w_faults \in Nat
    BY DEF WatchdogInv, DogTypes, Weights!Configured
<1>1. w_faults * Cycle \in Nat
    BY <1>0, CyclesAdd, Zenon
<1>2. Spent \in Nat /\ Spent' = Spent
    BY DEF WatchdogInv, DogTypes, Weights!Configured, Spent
<1>3. DogTypes' /\ Informed' /\ CoolDown'
    BY DEF WatchdogInv, DogTypes, Informed, CoolDown, Weights!Configured
<1>4. AgeBound'
    BY <1>1, <1>2 DEF WatchdogInv, DogTypes, AgeBound, Weights!Configured
<1> QED BY <1>3, <1>4 DEF WatchdogInv

\* The watchdog goes back to sleep: the weights are young, or the cycle failed.
LEMMA AsleepKeeps ==
    ASSUME Weights!Configured, WatchdogInv, w_dog' = Weights!Asleep, w_age' \in {0, w_age},
           w_burnAge' \in Nat, w_faults' \in 0..MaxFaults, w_faults' >= w_faults,
           UNCHANGED <<w_metagraph, w_dry>>,
           ~w_dry => w_burnAge' >= Cooldown \/ w_age' <= w_burnAge',
           ~w_dry /\ Validator \in w_metagraph => w_age' <= Threshold \/ w_faults' = w_faults + 1
    PROVE  WatchdogInv'
PROOF
<1>0. w_faults \in Nat /\ w_faults' \in Nat
    BY DEF WatchdogInv, DogTypes, Weights!Configured
<1>1. /\ w_faults * Cycle \in Nat /\ w_faults' * Cycle \in Nat /\ Cycle \in Nat
      /\ (w_faults + 1) * Cycle = w_faults * Cycle + Cycle
    BY <1>0, CyclesAdd, Zenon
<1>2. w_dog' = [step |-> "sleep", clock |-> 0, since |-> 0]
    BY DEF Weights!Asleep
<1>3. Spent' = 0 /\ Spent <= Cycle /\ Spent \in Nat
    BY <1>2 DEF WatchdogInv, DogTypes, Weights!Configured, Spent, Cycle
<1>4. DogTypes' /\ Informed' /\ CoolDown'
    BY <1>2 DEF WatchdogInv, DogTypes, Informed, CoolDown, Weights!Configured
<1>5. AgeBound'
    <2> SUFFICES ASSUME ~w_dry, Validator \in w_metagraph
                 PROVE  w_age' <= Threshold + w_faults' * Cycle + Spent'
        BY DEF AgeBound
    <2>1. w_age <= Threshold + w_faults * Cycle + Spent
        BY DEF WatchdogInv, AgeBound
    <2>2. w_age \in Nat /\ w_age' \in Nat /\ w_age' <= w_age /\ Threshold \in Nat
        BY DEF WatchdogInv, DogTypes, Weights!Configured
    <2>3. CASE w_age' <= Threshold
        <3>1. ASSUME NEW c \in Nat PROVE w_age' <= Threshold + c + 0
            BY <2>2, <2>3
        <3> QED BY <3>1, <1>1, <1>3, Zenon
    <2>4. CASE w_faults' = w_faults + 1
        <3>1. ASSUME NEW c \in Nat, w_age <= Threshold + c + Spent
              PROVE  w_age' <= Threshold + (c + Cycle) + 0
            BY <2>2, <3>1, <1>1, <1>3
        <3>2. w_age' <= Threshold + (w_faults * Cycle + Cycle) + 0
            BY <2>1, <3>1, <1>1, Zenon
        <3> QED BY <2>4, <3>2, <1>1, <1>3, Zenon
    <2> QED BY <2>3, <2>4
<1> QED BY <1>4, <1>5 DEF WatchdogInv

\* Every step of the validator, of the watchdog and of the chain keeps the
\* bounds.
LEMMA WatchdogStep == ASSUME Weights!Configured, WatchdogInv, [Weights!Next]_Weights!vars PROVE WatchdogInv'
PROOF
<1>0. DogTypes /\ Threshold \in Nat /\ Cooldown \in Nat
    BY DEF WatchdogInv, Weights!Configured
<1>1. CASE Weights!Tick
    BY <1>1, TickKeeps
<1>2. CASE Weights!Change
    BY <1>2, RenewalKeeps, Zenon DEF Weights!Change, Weights!chain
<1>3. CASE Weights!Publish
    BY <1>3, RenewalKeeps, Zenon DEF Weights!Publish, Weights!world
<1>4. CASE Weights!Published
    BY <1>4, RenewalKeeps, Zenon DEF Weights!Published, Weights!SetWeights, Weights!chain
<1>5. CASE Weights!PassFails
    <2>1. w_faults' = w_faults + 1 /\ w_faults' \in 0..MaxFaults
          /\ UNCHANGED <<w_age, w_dog, w_burnAge, w_metagraph, w_dry>>
        BY <1>5, <1>0 DEF Weights!PassFails, Weights!Fault, Weights!world, DogTypes, Weights!Configured
    <2>2. DogTypes' /\ Informed' /\ CoolDown' /\ Spent' = Spent /\ Spent \in Nat
        BY <2>1 DEF WatchdogInv, DogTypes, Informed, CoolDown, Spent, Weights!Configured
    <2>3. /\ w_faults * Cycle \in Nat /\ Cycle \in Nat
          /\ w_faults' * Cycle = w_faults * Cycle + Cycle
        <3>1. w_faults \in Nat
            BY <1>0 DEF DogTypes, Weights!Configured
        <3> QED BY <3>1, <2>1, CyclesAdd, Zenon
    <2>4. AgeBound'
        <3>1. ASSUME NEW c \in Nat, w_age <= Threshold + c + Spent
              PROVE  w_age <= Threshold + (c + Cycle) + Spent
            BY <3>1, <1>0, <2>2, <2>3 DEF DogTypes
        <3> QED BY <3>1, <2>1, <2>2, <2>3, Zenon DEF WatchdogInv, AgeBound
    <2> QED BY <2>2, <2>4 DEF WatchdogInv
<1>6. CASE Weights!ReadMetagraph
    <2>1. /\ w_dog.step = "sleep" /\ UNCHANGED <<w_age, w_burnAge, w_metagraph, w_dry, w_faults>>
          /\ w_dog' = IF Validator \in w_metagraph
                      THEN [step |-> "read", clock |-> 0, since |-> w_age] ELSE Weights!Asleep
        BY <1>6, Zenon DEF Weights!ReadMetagraph, Weights!world
    <2>2. CASE Validator \in w_metagraph
        <3>1. w_dog' = [step |-> "read", clock |-> 0, since |-> w_age]
            BY <2>1, <2>2
        <3>2. DogTypes' /\ Informed' /\ CoolDown'
            BY <2>1, <3>1 DEF WatchdogInv, DogTypes, Informed, CoolDown, Weights!Configured
        <3>3. Spent <= Spent' /\ Spent \in Nat /\ Spent' \in Nat
            BY <2>1, <3>1 DEF WatchdogInv, DogTypes, Spent, Weights!Configured
        <3>4. w_faults * Cycle \in Nat
            <4>1. w_faults \in Nat
                BY <1>0 DEF DogTypes, Weights!Configured
            <4> QED BY <4>1, CyclesAdd, Zenon
        <3>5. AgeBound'
            <4>1. ASSUME NEW c \in Nat, NEW s \in Nat, NEW t \in Nat, s <= t, w_age <= Threshold + c + s
                  PROVE  w_age <= Threshold + c + t
                BY <4>1, <1>0 DEF DogTypes
            <4> QED BY <4>1, <2>1, <3>3, <3>4, Zenon DEF WatchdogInv, AgeBound
        <3> QED BY <3>2, <3>5 DEF WatchdogInv
    <2>3. CASE Validator \notin w_metagraph
        BY <2>1, <2>3, <1>0, AsleepKeeps DEF DogTypes, WatchdogInv, CoolDown
    <2> QED BY <2>2, <2>3
<1>7. CASE Weights!Decide
    <2>1. /\ w_dog.step = "read" /\ UNCHANGED <<w_age, w_metagraph, w_dry, w_faults>>
          /\ w_age <= w_dog.since
        BY <1>7, Zenon DEF Weights!Decide, Weights!world, WatchdogInv, Informed
    <2>2. CASE Weights!Behind /\ w_burnAge >= Cooldown /\ ~w_dry
        <3>1. w_dog' = [step |-> "sent", clock |-> 0, since |-> 0] /\ w_burnAge' = w_burnAge
            BY <1>7, <2>2 DEF Weights!Decide, Weights!Asleep
        <3>2. DogTypes' /\ Informed' /\ CoolDown'
            BY <2>1, <2>2, <3>1 DEF WatchdogInv, DogTypes, Informed, CoolDown, Weights!Configured, Weights!Behind
        <3>3. Spent <= Spent' /\ Spent \in Nat /\ Spent' \in Nat
            BY <2>1, <3>1 DEF WatchdogInv, DogTypes, Spent, Weights!Configured
        <3>4. w_faults * Cycle \in Nat
            <4>1. w_faults \in Nat
                BY <1>0 DEF DogTypes, Weights!Configured
            <4> QED BY <4>1, CyclesAdd, Zenon
        <3>5. AgeBound'
            <4>1. ASSUME NEW c \in Nat, NEW s \in Nat, NEW t \in Nat, s <= t, w_age <= Threshold + c + s
                  PROVE  w_age <= Threshold + c + t
                BY <4>1, <1>0 DEF DogTypes
            <4> QED BY <4>1, <2>1, <3>3, <3>4, Zenon DEF WatchdogInv, AgeBound
        <3> QED BY <3>2, <3>5 DEF WatchdogInv
    <2>3. CASE ~(Weights!Behind /\ w_burnAge >= Cooldown /\ ~w_dry)
        <3>1. w_dog' = Weights!Asleep /\ w_burnAge' \in {0, w_burnAge} /\ (~w_dry => w_burnAge' = w_burnAge)
            BY <1>7, <2>3, Zenon DEF Weights!Decide
        <3>2. ~w_dry => w_age <= Threshold
            BY <2>1, <2>3, <1>0 DEF WatchdogInv, DogTypes, CoolDown, Weights!Behind, Weights!Configured
        <3>3. ~w_dry => w_burnAge' >= Cooldown \/ w_age' <= w_burnAge'
            BY <2>1, <3>1, Zenon DEF WatchdogInv, CoolDown
        <3>4. w_burnAge' \in Nat /\ w_faults' \in 0..MaxFaults /\ w_faults' >= w_faults
            BY <2>1, <3>1, <1>0 DEF DogTypes, Weights!Configured
        <3> QED BY <2>1, <3>1, <3>2, <3>3, <3>4, AsleepKeeps, Zenon
    <2> QED BY <2>2, <2>3
<1>8. CASE Weights!Burned
    <2>1. /\ w_dog' = Weights!Asleep /\ UNCHANGED <<w_metagraph, w_dry, w_faults>>
          /\ IF Weights!Accepts THEN w_age' = 0 /\ w_burnAge' = 0
                                ELSE w_age' = w_age /\ w_burnAge' = w_burnAge
        BY <1>8, Zenon DEF Weights!Burned, Weights!SetWeights, Weights!chain
    <2>2. ~w_dry => w_burnAge' >= Cooldown \/ w_age' <= w_burnAge'
        BY <2>1, <1>0 DEF WatchdogInv, CoolDown
    <2>3. ~w_dry /\ Validator \in w_metagraph => w_age' <= Threshold
        BY <2>1, <1>0 DEF Weights!Accepts, Weights!Configured, DogTypes
    <2>4. w_burnAge' \in Nat /\ w_faults' \in 0..MaxFaults /\ w_faults' >= w_faults /\ w_age' \in {0, w_age}
        BY <2>1, <1>0 DEF DogTypes, Weights!Configured
    <2> QED BY <2>1, <2>2, <2>3, <2>4, AsleepKeeps, Zenon
<1>9. CASE Weights!DogFails
    <2>1. /\ w_dog' = Weights!Asleep /\ UNCHANGED <<w_metagraph, w_dry, w_burnAge>>
          /\ w_age' \in {0, w_age}
        BY <1>9, Zenon DEF Weights!DogFails, Weights!SetWeights, Weights!chain
    <2>2. w_faults' = w_faults + 1 /\ w_faults' \in 0..MaxFaults /\ w_faults' >= w_faults
        BY <1>9, <1>0 DEF Weights!DogFails, Weights!Fault, DogTypes, Weights!Configured
    <2>3. ~w_dry => w_burnAge' >= Cooldown \/ w_age' <= w_burnAge'
        BY <2>1, <1>0 DEF WatchdogInv, CoolDown, DogTypes
    <2>4. w_burnAge' \in Nat
        BY <2>1, <1>0 DEF DogTypes
    <2> QED BY <2>1, <2>2, <2>3, <2>4, AsleepKeeps, Zenon
<1>10. CASE UNCHANGED Weights!vars
    BY <1>10, RenewalKeeps, Zenon DEF Weights!vars
<1> QED BY <1>1, <1>2, <1>3, <1>4, <1>5, <1>6, <1>7, <1>8, <1>9, <1>10, Zenon
       DEF Weights!Next, Weights!Loop, Weights!Watchdog

\* The weights of a registered validator are never much older than the
\* watchdog's threshold, for any bounds on polls, calls and failures.
THEOREM WatchdogKeepsFresh ==
    ASSUME Weights!Configured PROVE Weights!Spec => []Weights!WeightsStayFresh
PROOF
<1>1. Weights!Init => WatchdogInv
    BY WatchdogInit
<1>2. WatchdogInv /\ [Weights!Next]_Weights!vars => WatchdogInv'
    BY WatchdogStep
<1>3. WatchdogInv => Weights!WeightsStayFresh
    <2> SUFFICES ASSUME WatchdogInv, Validator \in w_metagraph, ~w_dry PROVE w_age < Weights!Overdue
        BY DEF Weights!WeightsStayFresh
    <2>1. w_faults \in Nat /\ w_faults <= MaxFaults /\ w_age \in Nat /\ Threshold \in Nat
        BY DEF WatchdogInv, DogTypes, Weights!Configured
    <2>2. /\ Cycle \in Nat /\ w_faults * Cycle \in Nat /\ w_faults * Cycle <= MaxFaults * Cycle
          /\ Weights!Overdue = Threshold + MaxFaults * Cycle + Cycle + 1
        BY <2>1, CyclesAdd, Zenon
    <2>3. Spent \in Nat /\ Spent <= Cycle
        BY DEF WatchdogInv, DogTypes, Weights!Configured, Spent, Cycle
    <2>4. w_age <= Threshold + w_faults * Cycle + Spent
        BY DEF WatchdogInv, AgeBound
    <2>5. MaxFaults * Cycle \in Nat
        <3>1. MaxFaults \in Nat
            BY DEF Weights!Configured
        <3> QED BY <3>1, CyclesAdd, Zenon
    <2>6. ASSUME NEW c \in Nat, NEW d \in Nat, c <= d, w_age <= Threshold + c + Spent
          PROVE  w_age < Threshold + d + Cycle + 1
        BY <2>1, <2>2, <2>3, <2>6
    <2> QED BY <2>2, <2>4, <2>5, <2>6, Zenon
<1> QED BY <1>1, <1>2, <1>3, PTL DEF Weights!Spec

\* A burn replaces nothing the validator has just set.
THEOREM BurnsSpareFresh ==
    ASSUME Weights!Configured PROVE Weights!Spec => Weights!BurnSparesFresh
PROOF
<1>1. Weights!Init => WatchdogInv
    BY WatchdogInit
<1>2. WatchdogInv /\ [Weights!Next]_Weights!vars => WatchdogInv'
    BY WatchdogStep
<1>3. WatchdogInv /\ [Weights!Next]_Weights!vars => [Weights!SparesFresh]_Weights!vars
    <2> SUFFICES ASSUME WatchdogInv, Weights!Next, w_age' < w_age, w_by' = "burn" PROVE w_age > Threshold
        BY DEF Weights!SparesFresh
    <2>1. w_age \in Nat
        BY DEF WatchdogInv, DogTypes
    <2>2. ~(UNCHANGED w_age)
        BY <2>1
    <2>3. ~Weights!Tick
        <3>1. ASSUME NEW o PROVE ~(Weights!Older(w_age, o) < w_age)
            BY <2>1 DEF Weights!Older
        <3> QED BY <3>1, Zenon DEF Weights!Tick
    <2>4. w_dog.step = "sent" /\ Weights!Accepts
        BY <2>2, <2>3 DEF Weights!Next, Weights!Loop, Weights!Watchdog, Weights!Change, Weights!Publish,
           Weights!Published, Weights!PassFails, Weights!ReadMetagraph, Weights!Decide, Weights!Burned,
           Weights!DogFails, Weights!SetWeights, Weights!chain
    <2> QED BY <2>1, <2>4 DEF WatchdogInv, DogTypes, Informed, Weights!Accepts, Weights!Configured
<1> QED BY <1>1, <1>2, <1>3, PTL DEF Weights!Spec, Weights!BurnSparesFresh

-----------------------------------------------------------------------------
(* The queue's way to a page.                                              *)

CONSTANTS Runs, NoRun, Conns, Requests, QueueSize, RunLimit, MaxFlushes, MaxPicks

VARIABLES
    dq_file, dq_known, dq_sampler, dq_seen, dq_latest, dq_conn, dq_page, dq_request,
    dq_picks, dq_faults

LiveQueue == INSTANCE DashboardQueue WITH
    file <- dq_file, known <- dq_known, sampler <- dq_sampler, seen <- dq_seen,
    latest <- dq_latest, conn <- dq_conn, page <- dq_page, request <- dq_request,
    picks <- dq_picks, faults <- dq_faults

\* x is a record with these fields.
IsRecord(x, fields) == DOMAIN x = fields /\ x = [f \in fields |-> x[f]]

\* What was sent last and what is queued are in the order of their ids, and end
\* with n.
Chain(sent, q, n) ==
    /\ sent \in Nat /\ q \in Seq(Nat)
    /\ \A i \in 1..(Len(q) - 1) : q[i] < q[i + 1]
    /\ q # << >> => sent < q[1]
    /\ n = IF q = << >> THEN sent ELSE q[Len(q)]

\* A chain is what SubscriberHasLatest says of a queue.
LEMMA ChainIds ==
    ASSUME NEW s, NEW q, NEW n, Chain(s, q, n)
    PROVE  /\ LiveQueue!Last(<<s>> \o q) = n
           /\ \A i \in 1..(Len(<<s>> \o q) - 1) : (<<s>> \o q)[i] < (<<s>> \o q)[i + 1]
PROOF
<1>1. q \in Seq(Nat) /\ s \in Nat
    BY Zenon DEF Chain
<1>2. /\ Len(<<s>> \o q) = Len(q) + 1 /\ (<<s>> \o q)[1] = s
      /\ \A i \in 1..Len(q) : (<<s>> \o q)[i + 1] = q[i]
    BY <1>1
<1>3. Len(q) \in Nat /\ (q = << >> <=> Len(q) = 0)
    BY <1>1
<1>4. LiveQueue!Last(<<s>> \o q) = n
    BY <1>2, <1>3 DEF Chain, LiveQueue!Last
<1>5. ASSUME NEW i \in 1..(Len(<<s>> \o q) - 1) PROVE (<<s>> \o q)[i] < (<<s>> \o q)[i + 1]
    <2>1. CASE i = 1
        BY <2>1, <1>2, <1>3 DEF Chain
    <2>2. CASE i # 1
        <3>1. i - 1 \in 1..(Len(q) - 1) /\ i \in 1..Len(q)
            BY <2>2, <1>2, <1>3
        <3>2. q[i - 1] < q[(i - 1) + 1]
            BY Zenon, <3>1 DEF Chain
        <3>3. (<<s>> \o q)[(i - 1) + 1] = q[i - 1] /\ (<<s>> \o q)[i + 1] = q[i]
            BY <3>1, <1>2, <1>3
        <3> QED BY <3>2, <3>3
    <2> QED BY Zenon, <2>1, <2>2
<1> QED BY Zenon, <1>4, <1>5

\* subscribe() seeds the queue with the latest, if there is one.
LEMMA ChainSeed ==
    ASSUME NEW n \in Nat
    PROVE  Chain(0, IF n # 0 THEN <<n>> ELSE << >>, n)
PROOF BY DEF Chain

\* Sending the oldest leaves a chain to the same latest.
LEMMA ChainSend ==
    ASSUME NEW s, NEW q, NEW n, Chain(s, q, n), q # << >>
    PROVE  Chain(Head(q), Tail(q), n)
PROOF
<1>1. q \in Seq(Nat) /\ Len(q) \in Nat \ {0} /\ Head(q) = q[1]
    BY DEF Chain
<1>2. /\ Tail(q) \in Seq(Nat) /\ Len(Tail(q)) = Len(q) - 1
      /\ \A i \in 1..(Len(q) - 1) : Tail(q)[i] = q[i + 1]
    BY <1>1
<1>3. Tail(q) = << >> <=> Len(q) = 1
    BY <1>1, <1>2
<1>4. \A i \in 1..(Len(Tail(q)) - 1) : Tail(q)[i] < Tail(q)[i + 1]
    BY <1>1, <1>2 DEF Chain
<1>5. Tail(q) # << >> => Head(q) < Tail(q)[1]
    BY <1>1, <1>2, <1>3 DEF Chain
<1>6. n = IF Tail(q) = << >> THEN Head(q) ELSE Tail(q)[Len(Tail(q))]
    BY <1>1, <1>2, <1>3 DEF Chain
<1>7. Head(q) \in Nat
    BY <1>1
<1> QED BY <1>2, <1>4, <1>5, <1>6, <1>7, Zenon DEF Chain

\* Putting a newer one makes a chain to it, whether or not the oldest is dropped.
LEMMA ChainPut ==
    ASSUME QueueSize \in Nat \ {0}, NEW s, NEW q, NEW n, NEW m \in Nat, Chain(s, q, n), n < m
    PROVE  Chain(s, LiveQueue!Put(q, m), m)
PROOF
<1>1. ASSUME NEW p \in Seq(Nat), \A i \in 1..(Len(p) - 1) : p[i] < p[i + 1],
             p # << >> => s < p[1] /\ p[Len(p)] < m, p = << >> => s < m
      PROVE  Chain(s, Append(p, m), m)
    <2>1. /\ Append(p, m) \in Seq(Nat) /\ Len(Append(p, m)) = Len(p) + 1 /\ Append(p, m)[Len(p) + 1] = m
          /\ \A i \in 1..Len(p) : Append(p, m)[i] = p[i]
        BY <1>1
    <2>0. Append(p, m) # << >> /\ Len(p) \in Nat /\ (p = << >> <=> Len(p) = 0)
        BY <1>1
    <2>2. s \in Nat
        BY Zenon DEF Chain
    <2>3. ASSUME NEW i \in 1..(Len(Append(p, m)) - 1) PROVE Append(p, m)[i] < Append(p, m)[i + 1]
        <3>1. CASE i = Len(p)
            BY <1>1, <2>0, <2>1, <3>1
        <3>2. CASE i # Len(p)
            BY <1>1, <2>0, <2>1, <3>2
        <3> QED BY Zenon, <3>1, <3>2
    <2>4. s < Append(p, m)[1]
        BY <1>1, <2>0, <2>1
    <2> QED BY Zenon, <2>0, <2>1, <2>2, <2>3, <2>4 DEF Chain
<1>2. q \in Seq(Nat) /\ s \in Nat /\ n \in Nat /\ Len(q) \in Nat
    BY DEF Chain
<1>3. CASE Len(q) < QueueSize
    BY Zenon, <1>1, <1>2, <1>3 DEF LiveQueue!Put, Chain
<1>4. CASE ~(Len(q) < QueueSize)
    <2>1. q # << >> /\ Len(q) >= 1
        BY <1>2, <1>4
    <2>2. Chain(Head(q), Tail(q), n)
        BY <2>1, ChainSend, Zenon
    <2>3. s < Head(q) /\ Head(q) \in Nat
        BY <2>1, <1>2 DEF Chain
    <2>4. Tail(q) \in Seq(Nat) /\ \A i \in 1..(Len(Tail(q)) - 1) : Tail(q)[i] < Tail(q)[i + 1]
        BY <2>2, Zenon DEF Chain
    <2>5. Tail(q) = << >> => s < m
        BY <2>2, <2>3, <1>2 DEF Chain
    <2>6. Tail(q) # << >> => s < Tail(q)[1] /\ Tail(q)[Len(Tail(q))] < m
        <3>1. Tail(q) # << >> => Tail(q)[1] \in Nat
            BY <2>4
        <3>2. Tail(q) # << >> => Head(q) < Tail(q)[1] /\ Tail(q)[Len(Tail(q))] = n
            BY <2>2, Zenon DEF Chain
        <3>3. ASSUME NEW h \in Nat, NEW a \in Nat, s < h, h < a PROVE s < a
            BY <1>2, <3>3
        <3> QED BY <2>3, <3>1, <3>2, <3>3, Zenon
    <2>7. Chain(s, Append(Tail(q), m), m)
        BY <1>1, <2>4, <2>5, <2>6, Zenon
    <2> QED BY Zenon, <1>4, <2>7 DEF LiveQueue!Put
<1> QED BY Zenon, <1>3, <1>4

-----------------------------------------------------------------------------
\* The snapshots on their way: what the sampler has read is in the file's past
\* and not before what the bus has, which is what the sampler saw last.
SamplerInv ==
    /\ dq_file \in [Runs -> Nat] /\ dq_latest \in [Runs -> Nat] /\ dq_seen \in [Runs -> Int]
    /\ dq_known \subseteq Runs /\ \A r \in dq_known : dq_file[r] >= 1
    /\ IsRecord(dq_sampler, {"todo", "run", "got"}) /\ dq_sampler.todo \subseteq dq_known
    /\ \A r \in Runs : /\ dq_latest[r] <= dq_file[r]
                       /\ dq_latest[r] = IF dq_seen[r] = -1 THEN 0 ELSE dq_seen[r]
    /\ dq_sampler.got # -1 =>
          /\ dq_sampler.run \in Runs /\ dq_sampler.got \in Nat /\ dq_sampler.got >= 1
          /\ dq_latest[dq_sampler.run] <= dq_sampler.got
          /\ dq_sampler.got <= dq_file[dq_sampler.run]

Subscribed(x) == x.run \in Runs /\ Chain(x.sent, x.q, dq_latest[x.run])

\* Every connection is one of a run and holds the bus's latest.
StreamInv ==
    /\ dq_conn = [c \in Conns |-> dq_conn[c]]
    /\ \A c \in Conns : IsRecord(dq_conn[c], {"run", "client", "q", "sent"})
    /\ \A c \in Conns : dq_conn[c] = LiveQueue!NotConnected \/ Subscribed(dq_conn[c])

\* There is no stream before the first selection of a run.
PageInv ==
    /\ IsRecord(dq_page, {"pick", "active", "stream", "shown"})
    /\ \/ dq_page.active \in Runs
       \/ /\ dq_page.active = NoRun /\ dq_page.stream = "none"
          /\ \A c \in Conns : dq_conn[c] = LiveQueue!NotConnected

QueueInv == SamplerInv /\ StreamInv /\ PageInv

\* The invariant says that subscribers have the latest.
LEMMA QueueInvImplies == ASSUME QueueInv PROVE LiveQueue!SubscriberHasLatest
PROOF
<1> SUFFICES ASSUME NEW c \in Conns, dq_conn[c] # LiveQueue!NotConnected
             PROVE  LET ids == <<dq_conn[c].sent>> \o dq_conn[c].q
                    IN  /\ LiveQueue!Last(ids) = dq_latest[dq_conn[c].run]
                        /\ \A i \in 1..(Len(ids) - 1) : ids[i] < ids[i + 1]
    BY Zenon DEF LiveQueue!SubscriberHasLatest
<1>1. Chain(dq_conn[c].sent, dq_conn[c].q, dq_latest[dq_conn[c].run])
    BY Zenon DEF QueueInv, StreamInv, Subscribed
<1> QED BY <1>1, ChainIds, Zenon

\* Nobody is connected at the start.
LEMMA QueueInit == LiveQueue!Init => QueueInv
PROOF
<1> SUFFICES ASSUME LiveQueue!Init PROVE QueueInv
    BY Zenon
<1>1. SamplerInv
    BY DEF LiveQueue!Init, LiveQueue!Resting, LiveQueue!None, SamplerInv, IsRecord
<1>2. IsRecord(LiveQueue!NotConnected, {"run", "client", "q", "sent"})
    BY Zenon DEF LiveQueue!NotConnected, IsRecord
<1>3. StreamInv /\ \A c \in Conns : dq_conn[c] = LiveQueue!NotConnected
    BY <1>2, Zenon DEF LiveQueue!Init, StreamInv
<1>4. PageInv
    <2>1. dq_page = [pick |-> NoRun, active |-> NoRun, stream |-> "none", shown |-> LiveQueue!Blank]
        BY Zenon DEF LiveQueue!Init
    <2>2. IsRecord(dq_page, {"pick", "active", "stream", "shown"}) /\ dq_page.active = NoRun /\ dq_page.stream = "none"
        BY Zenon, <2>1 DEF IsRecord
    <2> QED BY <1>3, <2>2, Zenon DEF PageInv
<1> QED BY <1>1, <1>3, <1>4, Zenon DEF QueueInv

\* The sampler and the orchestrator keep what is known of the snapshots.
LEMMA SamplerStep ==
    ASSUME NoRun \notin Runs, SamplerInv, [LiveQueue!Next]_(LiveQueue!vars)
    PROVE  SamplerInv'
PROOF
<1>1. ASSUME NEW r \in Runs, LiveQueue!Flush(r) PROVE SamplerInv'
    <2>1. /\ dq_file' = [dq_file EXCEPT ![r] = @ + 1]
          /\ UNCHANGED <<dq_known, dq_sampler, dq_seen, dq_latest>>
        BY <1>1, Zenon DEF LiveQueue!Flush, LiveQueue!bus
    <2>2. dq_file' \in [Runs -> Nat] /\ \A s \in Runs : dq_file'[s] >= dq_file[s]
        BY <2>1 DEF SamplerInv
    <2> QED BY <2>1, <2>2 DEF SamplerInv
<1>2. ASSUME NEW r \in Runs, LiveQueue!UpsertRun(r) PROVE SamplerInv'
    <2>1. /\ dq_known' = dq_known \cup {r} /\ dq_file[r] > 0
          /\ UNCHANGED <<dq_file, dq_sampler, dq_seen, dq_latest>>
        BY <1>2, Zenon DEF LiveQueue!UpsertRun, LiveQueue!bus
    <2>2. dq_file[r] >= 1
        BY <2>1 DEF SamplerInv
    <2> QED BY <2>1, <2>2, Zenon DEF SamplerInv
<1>3. CASE LiveQueue!SampleRuns
    <2>1. /\ UNCHANGED <<dq_file, dq_known, dq_seen, dq_latest>>
          /\ \E some \in SUBSET dq_known : dq_sampler' = [LiveQueue!Resting EXCEPT !.todo = some]
        BY <1>3, Zenon DEF LiveQueue!SampleRuns, LiveQueue!bus
    <2>2. PICK some \in SUBSET dq_known : dq_sampler' = [LiveQueue!Resting EXCEPT !.todo = some]
        BY Zenon, <2>1
    <2>3. IsRecord(dq_sampler', {"todo", "run", "got"}) /\ dq_sampler'.todo = some /\ dq_sampler'.got = -1
        BY Zenon, <2>2 DEF LiveQueue!Resting, LiveQueue!None, IsRecord
    <2> QED BY <2>1, <2>3, Zenon DEF SamplerInv
<1>4. CASE LiveQueue!SampleRead
    <2>1. /\ UNCHANGED <<dq_file, dq_known, dq_seen, dq_latest>> /\ dq_sampler.got = -1
          /\ \E r \in dq_sampler.todo :
                \/ dq_sampler' = [todo |-> dq_sampler.todo \ {r}, run |-> r, got |-> dq_file[r]]
                \/ dq_sampler' = [dq_sampler EXCEPT !.todo = dq_sampler.todo \ {r}]
        BY <1>4, Zenon DEF LiveQueue!SampleRead, LiveQueue!bus, LiveQueue!None
    <2>2. PICK r \in dq_sampler.todo :
                \/ dq_sampler' = [todo |-> dq_sampler.todo \ {r}, run |-> r, got |-> dq_file[r]]
                \/ dq_sampler' = [dq_sampler EXCEPT !.todo = dq_sampler.todo \ {r}]
        BY Zenon, <2>1
    <2>3. r \in Runs /\ r \in dq_known /\ dq_file[r] \in Nat /\ dq_file[r] >= 1 /\ dq_latest[r] <= dq_file[r]
        BY Zenon DEF SamplerInv
    <2>4. CASE dq_sampler' = [todo |-> dq_sampler.todo \ {r}, run |-> r, got |-> dq_file[r]]
        <3>1. /\ IsRecord(dq_sampler', {"todo", "run", "got"}) /\ dq_sampler'.todo = dq_sampler.todo \ {r}
              /\ dq_sampler'.run = r /\ dq_sampler'.got = dq_file[r]
            BY Zenon, <2>4 DEF IsRecord
        <3> QED BY <2>1, <2>3, <3>1 DEF SamplerInv
    <2>5. CASE dq_sampler' = [dq_sampler EXCEPT !.todo = dq_sampler.todo \ {r}]
        <3>1. /\ IsRecord(dq_sampler', {"todo", "run", "got"}) /\ dq_sampler'.todo = dq_sampler.todo \ {r}
              /\ dq_sampler'.got = -1
            BY Zenon, <2>1, <2>5 DEF IsRecord, SamplerInv
        <3> QED BY <2>1, <3>1, Zenon DEF SamplerInv
    <2> QED BY Zenon, <2>2, <2>4, <2>5
<1>5. CASE LiveQueue!SampleOne
    <2> DEFINE r == dq_sampler.run
               got == dq_sampler.got
    <2>1. /\ got # -1 /\ UNCHANGED <<dq_file, dq_known>>
          /\ dq_sampler' = [LiveQueue!Resting EXCEPT !.todo = dq_sampler.todo]
          /\ IF dq_seen[r] # got
             THEN dq_seen' = [dq_seen EXCEPT ![r] = got] /\ dq_latest' = [dq_latest EXCEPT ![r] = got]
             ELSE UNCHANGED <<dq_seen, dq_latest>>
        BY <1>5, Zenon DEF LiveQueue!SampleOne, LiveQueue!Publish, LiveQueue!bus, LiveQueue!None
    <2>2. IsRecord(dq_sampler', {"todo", "run", "got"}) /\ dq_sampler'.todo = dq_sampler.todo /\ dq_sampler'.got = -1
        BY Zenon, <2>1 DEF LiveQueue!Resting, LiveQueue!None, IsRecord
    <2>3. r \in Runs /\ got \in Nat /\ got <= dq_file[r]
        BY Zenon, <2>1 DEF SamplerInv
    <2> HIDE DEF r, got
    <2>4. CASE dq_seen[r] # got
        <3>1. /\ dq_seen' \in [Runs -> Int] /\ dq_latest' \in [Runs -> Nat]
              /\ \A s \in Runs : /\ dq_latest'[s] = IF s = r THEN got ELSE dq_latest[s]
                                 /\ dq_seen'[s] = IF s = r THEN got ELSE dq_seen[s]
            BY <2>1, <2>3, <2>4 DEF SamplerInv
        <3> QED BY Zenon, <2>1, <2>2, <2>3, <3>1 DEF SamplerInv
    <2>5. CASE dq_seen[r] = got
        BY <2>1, <2>2, <2>5, Zenon DEF SamplerInv
    <2> QED BY Zenon, <2>4, <2>5
<1>6. CASE LiveQueue!Restart
    <2>1. /\ UNCHANGED <<dq_file, dq_known>> /\ dq_sampler' = LiveQueue!Resting
          /\ dq_seen' = [r \in Runs |-> -1] /\ dq_latest' = [r \in Runs |-> 0]
        BY <1>6, Zenon DEF LiveQueue!Restart, LiveQueue!None
    <2>2. IsRecord(dq_sampler', {"todo", "run", "got"}) /\ dq_sampler'.todo = {} /\ dq_sampler'.got = -1
        BY Zenon, <2>1 DEF LiveQueue!Resting, LiveQueue!None, IsRecord
    <2> QED BY <2>1, <2>2 DEF SamplerInv
<1>7. CASE UNCHANGED <<dq_file, dq_known, dq_sampler, dq_seen, dq_latest>>
    BY <1>7, Zenon DEF SamplerInv
<1>8. ASSUME NEW r \in Runs \cup {NoRun}, LiveQueue!Pick(r) PROVE SamplerInv'
    BY <1>7, <1>8, Zenon DEF LiveQueue!Pick
<1>9. ASSUME NEW k \in Requests, LiveQueue!Reply(k) PROVE SamplerInv'
    BY <1>7, <1>9, Zenon DEF LiveQueue!Reply, LiveQueue!Serve, LiveQueue!Arrive, LiveQueue!bus
<1>10. ASSUME NEW c \in Conns, LiveQueue!Stream(c) \/ LiveQueue!Lose(c) PROVE SamplerInv'
    BY <1>7, <1>10, Zenon DEF LiveQueue!Stream, LiveQueue!Connect, LiveQueue!Deliver, LiveQueue!Keepalive,
       LiveQueue!Disconnect, LiveQueue!Lose
<1>11. CASE UNCHANGED LiveQueue!vars
    BY <1>7, <1>11, Zenon DEF LiveQueue!vars
<1> QED BY <1>1, <1>2, <1>3, <1>4, <1>5, <1>6, <1>8, <1>9, <1>10, <1>11, Zenon
       DEF LiveQueue!Next, LiveQueue!Sampler

\* A step of the streams that leaves the bus's latest alone: every connection
\* stays, is closed by its client, ends, sends its oldest, or is new.
LEMMA StreamsKeep ==
    ASSUME StreamInv, dq_latest' = dq_latest, dq_conn' = [c \in Conns |-> dq_conn'[c]],
           \A c \in Conns :
              \/ dq_conn'[c] = dq_conn[c] \/ dq_conn'[c] = LiveQueue!NotConnected
              \/ /\ IsRecord(dq_conn'[c], {"run", "client", "q", "sent"}) /\ Subscribed(dq_conn'[c])
    PROVE  StreamInv'
PROOF
<1>1. IsRecord(LiveQueue!NotConnected, {"run", "client", "q", "sent"})
    BY Zenon DEF LiveQueue!NotConnected, IsRecord
<1>2. ASSUME NEW c \in Conns
      PROVE  /\ IsRecord(dq_conn'[c], {"run", "client", "q", "sent"})
             /\ dq_conn'[c] = LiveQueue!NotConnected \/ Subscribed(dq_conn'[c])
    BY <1>1, Zenon DEF StreamInv
<1> QED BY <1>2, Zenon DEF StreamInv, Subscribed

\* The client of a connection goes: the server's end stays as it is.
LEMMA ClientGone ==
    ASSUME NEW x, IsRecord(x, {"run", "client", "q", "sent"}), NEW y, y = [x EXCEPT !.client = FALSE]
    PROVE  /\ IsRecord(y, {"run", "client", "q", "sent"})
           /\ y.run = x.run /\ y.q = x.q /\ y.sent = x.sent
PROOF BY Zenon DEF IsRecord

\* The server sends the oldest of the queue.
LEMMA OldestSent ==
    ASSUME NEW x, IsRecord(x, {"run", "client", "q", "sent"}), NEW y,
           y = [x EXCEPT !.q = Tail(x.q), !.sent = Head(x.q)], Subscribed(x), x.q # << >>
    PROVE  IsRecord(y, {"run", "client", "q", "sent"}) /\ Subscribed(y)
PROOF
<1>1. /\ IsRecord(y, {"run", "client", "q", "sent"})
      /\ y.run = x.run /\ y.q = Tail(x.q) /\ y.sent = Head(x.q)
    BY Zenon DEF IsRecord
<1> QED BY <1>1, ChainSend, Zenon DEF Subscribed

\* publish() puts a newer snapshot into the queue.
LEMMA NewerPut ==
    ASSUME QueueSize \in Nat \ {0}, NEW x, IsRecord(x, {"run", "client", "q", "sent"}), NEW y, NEW m \in Nat,
           y = [x EXCEPT !.q = LiveQueue!Put(x.q, m)], NEW n, n < m, Chain(x.sent, x.q, n)
    PROVE  IsRecord(y, {"run", "client", "q", "sent"}) /\ y.run = x.run /\ Chain(y.sent, y.q, m)
PROOF
<1>1. /\ IsRecord(y, {"run", "client", "q", "sent"})
      /\ y.run = x.run /\ y.q = LiveQueue!Put(x.q, m) /\ y.sent = x.sent
    BY Zenon DEF IsRecord
<1> QED BY <1>1, ChainPut, Zenon

\* publish() reaches the subscribers of the run.
LEMMA PublishKeeps ==
    ASSUME QueueSize \in Nat \ {0}, NoRun \notin Runs, StreamInv, NEW r \in Runs, NEW id \in Nat,
           dq_latest \in [Runs -> Nat], dq_latest[r] < id, LiveQueue!Publish(r, id)
    PROVE  StreamInv' /\ \A c \in Conns : dq_conn[c] = LiveQueue!NotConnected => dq_conn'[c] = dq_conn[c]
PROOF
<1>1. /\ dq_latest' = [dq_latest EXCEPT ![r] = id]
      /\ dq_conn' = [c \in Conns |-> IF dq_conn[c].run = r
                                     THEN [dq_conn[c] EXCEPT !.q = LiveQueue!Put(dq_conn[c].q, id)]
                                     ELSE dq_conn[c]]
    BY Zenon DEF LiveQueue!Publish
<1>2. dq_latest'[r] = id /\ \A s \in Runs : s # r => dq_latest'[s] = dq_latest[s]
    BY <1>1, Zenon
<1>3. IsRecord(LiveQueue!NotConnected, {"run", "client", "q", "sent"}) /\ LiveQueue!NotConnected.run = NoRun
    BY Zenon DEF LiveQueue!NotConnected, IsRecord
<1>4. ASSUME NEW c \in Conns
      PROVE  /\ IsRecord(dq_conn'[c], {"run", "client", "q", "sent"})
             /\ \/ dq_conn'[c] = LiveQueue!NotConnected
                \/ dq_conn'[c].run \in Runs /\ Chain(dq_conn'[c].sent, dq_conn'[c].q, dq_latest'[dq_conn'[c].run])
             /\ dq_conn[c] = LiveQueue!NotConnected => dq_conn'[c] = dq_conn[c]
    <2>1. CASE dq_conn[c].run = r
        <3>1. dq_conn'[c] = [dq_conn[c] EXCEPT !.q = LiveQueue!Put(dq_conn[c].q, id)]
            BY <1>1, <2>1, Zenon
        <3>2. dq_conn[c] # LiveQueue!NotConnected
            BY <1>3, <2>1, Zenon
        <3>3. IsRecord(dq_conn[c], {"run", "client", "q", "sent"}) /\ Chain(dq_conn[c].sent, dq_conn[c].q, dq_latest[r])
            BY <2>1, <3>2, Zenon DEF StreamInv, Subscribed
        <3>4. /\ IsRecord(dq_conn'[c], {"run", "client", "q", "sent"}) /\ dq_conn'[c].run = dq_conn[c].run
              /\ Chain(dq_conn'[c].sent, dq_conn'[c].q, id)
            BY <3>1, <3>3, NewerPut, Zenon
        <3> QED BY <1>2, <2>1, <3>2, <3>4, Zenon
    <2>2. CASE dq_conn[c].run # r
        <3>1. dq_conn'[c] = dq_conn[c]
            BY <1>1, <2>2, Zenon
        <3> QED BY <3>1, <1>2, <2>2, Zenon DEF StreamInv, Subscribed
    <2> QED BY Zenon, <2>1, <2>2
<1>5. dq_conn' = [c \in Conns |-> dq_conn'[c]]
    BY Zenon, <1>1
<1> QED BY <1>4, <1>5, Zenon DEF StreamInv, Subscribed

\* A step in which connections only stay, end or lose their client.
LEMMA ConnsOnlyEnd ==
    ASSUME StreamInv, dq_latest' = dq_latest, dq_conn' = [c \in Conns |-> dq_conn'[c]],
           \A c \in Conns : \/ dq_conn'[c] = dq_conn[c] \/ dq_conn'[c] = LiveQueue!NotConnected
                            \/ dq_conn[c] # LiveQueue!NotConnected /\ dq_conn'[c] = [dq_conn[c] EXCEPT !.client = FALSE]
    PROVE  StreamInv' /\ \A c \in Conns : dq_conn[c] = LiveQueue!NotConnected => dq_conn'[c] = dq_conn[c]
PROOF
<1>1. ASSUME NEW c \in Conns, dq_conn[c] # LiveQueue!NotConnected,
             dq_conn'[c] = [dq_conn[c] EXCEPT !.client = FALSE]
      PROVE  IsRecord(dq_conn'[c], {"run", "client", "q", "sent"}) /\ Subscribed(dq_conn'[c])
    <2>1. IsRecord(dq_conn[c], {"run", "client", "q", "sent"}) /\ Subscribed(dq_conn[c])
        BY <1>1, Zenon DEF StreamInv
    <2>2. /\ IsRecord(dq_conn'[c], {"run", "client", "q", "sent"})
          /\ dq_conn'[c].run = dq_conn[c].run /\ dq_conn'[c].q = dq_conn[c].q /\ dq_conn'[c].sent = dq_conn[c].sent
        BY <1>1, <2>1, ClientGone, Zenon
    <2> QED BY <2>1, <2>2, Zenon DEF Subscribed
<1> QED BY <1>1, StreamsKeep, Zenon

\* The page keeps its run: PageInv is kept where no connection is made.
LEMMA PageKeeps ==
    ASSUME PageInv, \A c \in Conns : dq_conn[c] = LiveQueue!NotConnected => dq_conn'[c] = dq_conn[c],
           IsRecord(dq_page', {"pick", "active", "stream", "shown"}),
           dq_page'.active = dq_page.active, dq_page.stream = "none" => dq_page'.stream = "none"
    PROVE  PageInv'
PROOF BY Zenon DEF PageInv

\* stop(): the connection the page had is closed by its client.
LEMMA CloseKeeps ==
    ASSUME StreamInv, LiveQueue!Close, dq_latest' = dq_latest
    PROVE  StreamInv' /\ \A c \in Conns : dq_conn[c] = LiveQueue!NotConnected => dq_conn'[c] = dq_conn[c]
PROOF
<1>1. dq_conn' = [c \in Conns |-> IF dq_page.stream = c THEN [dq_conn[c] EXCEPT !.client = FALSE] ELSE dq_conn[c]]
    BY Zenon DEF LiveQueue!Close
<1>2. [LiveQueue!NotConnected EXCEPT !.client = FALSE] = LiveQueue!NotConnected
    <2>1. LiveQueue!NotConnected.client = FALSE /\ IsRecord(LiveQueue!NotConnected, {"run", "client", "q", "sent"})
        BY Zenon DEF LiveQueue!NotConnected, IsRecord
    <2> QED BY <2>1, Zenon DEF IsRecord
<1>3. ASSUME NEW c \in Conns
      PROVE  \/ dq_conn'[c] = dq_conn[c]
             \/ dq_conn[c] # LiveQueue!NotConnected /\ dq_conn'[c] = [dq_conn[c] EXCEPT !.client = FALSE]
    BY <1>1, <1>2, Zenon
<1>4. dq_conn' = [c \in Conns |-> dq_conn'[c]]
    BY Zenon, <1>1
<1> QED BY <1>3, <1>4, ConnsOnlyEnd, Zenon

\* One connection ends, or its client goes.
LEMMA OneEnds ==
    ASSUME StreamInv, NEW c \in Conns, dq_latest' = dq_latest, NEW y, dq_conn[c] # LiveQueue!NotConnected,
           dq_conn' = [dq_conn EXCEPT ![c] = y],
           y = LiveQueue!NotConnected \/ y = [dq_conn[c] EXCEPT !.client = FALSE]
    PROVE  StreamInv'
PROOF
<1>1. dq_conn' = [d \in Conns |-> IF d = c THEN y ELSE dq_conn[d]]
    BY Zenon DEF StreamInv
<1>2. dq_conn' = [d \in Conns |-> dq_conn'[d]]
    BY Zenon, <1>1
<1> QED BY <1>1, <1>2, ConnsOnlyEnd, Zenon

\* A client that is there has a connection, and the page a run.
LEMMA ClientsRun ==
    ASSUME PageInv, NEW c \in Conns, dq_conn[c].client \/ dq_conn[c] # LiveQueue!NotConnected
    PROVE  dq_conn[c] # LiveQueue!NotConnected /\ dq_page.active \in Runs
PROOF
<1>1. LiveQueue!NotConnected.client = FALSE
    BY Zenon DEF LiveQueue!NotConnected
<1>2. dq_conn[c] # LiveQueue!NotConnected
    BY Zenon, <1>1
<1> QED BY <1>2, Zenon DEF PageInv

\* The sampler's publication, and the steps that leave the streams alone.
LEMMA ServerKeeps ==
    ASSUME QueueSize \in Nat \ {0}, NoRun \notin Runs, QueueInv,
           \/ \E r \in Runs : LiveQueue!Flush(r) \/ LiveQueue!UpsertRun(r)
           \/ LiveQueue!Sampler \/ LiveQueue!Restart
           \/ UNCHANGED LiveQueue!vars
    PROVE  StreamInv' /\ PageInv'
PROOF
<1>1. CASE UNCHANGED <<dq_conn, dq_latest, dq_page>>
    BY <1>1, Zenon DEF QueueInv, StreamInv, Subscribed, PageInv
<1>2. CASE LiveQueue!SampleOne
    <2> DEFINE r == dq_sampler.run
               got == dq_sampler.got
    <2>1. /\ got # -1 /\ UNCHANGED dq_page
          /\ IF dq_seen[r] # got THEN LiveQueue!Publish(r, got) ELSE UNCHANGED <<dq_latest, dq_conn>>
        BY <1>2, Zenon DEF LiveQueue!SampleOne, LiveQueue!bus, LiveQueue!None
    <2>2. /\ r \in Runs /\ got \in Nat /\ got >= 1 /\ dq_latest[r] <= got /\ dq_latest \in [Runs -> Nat]
          /\ dq_latest[r] = IF dq_seen[r] = -1 THEN 0 ELSE dq_seen[r]
        BY <2>1, Zenon DEF QueueInv, SamplerInv
    <2> HIDE DEF r, got
    <2>3. CASE dq_seen[r] # got
        <3>1. dq_latest[r] < got
            BY <2>2, <2>3
        <3>2. StreamInv' /\ \A c \in Conns : dq_conn[c] = LiveQueue!NotConnected => dq_conn'[c] = dq_conn[c]
            BY <2>1, <2>2, <2>3, <3>1, PublishKeeps, Zenon DEF QueueInv
        <3> QED BY <2>1, <3>2, Zenon DEF QueueInv, PageInv
    <2>4. CASE dq_seen[r] = got
        BY <1>1, <2>1, <2>4, Zenon
    <2> QED BY Zenon, <2>3, <2>4
<1>3. CASE LiveQueue!Restart
    <2>1. /\ dq_conn' = [c \in Conns |-> LiveQueue!NotConnected]
          /\ dq_page' = [dq_page EXCEPT !.stream = IF dq_page.stream = "none" THEN dq_page.stream ELSE "retry"]
        BY <1>3, Zenon DEF LiveQueue!Restart
    <2>2. IsRecord(LiveQueue!NotConnected, {"run", "client", "q", "sent"})
        BY Zenon DEF LiveQueue!NotConnected, IsRecord
    <2>3. StreamInv' /\ \A c \in Conns : dq_conn'[c] = LiveQueue!NotConnected
        BY <2>1, <2>2, Zenon DEF StreamInv
    <2>4. /\ IsRecord(dq_page', {"pick", "active", "stream", "shown"}) /\ dq_page'.active = dq_page.active
          /\ dq_page'.stream = IF dq_page.stream = "none" THEN dq_page.stream ELSE "retry"
        BY <2>1, Zenon DEF QueueInv, PageInv, IsRecord
    <2> QED BY <2>3, <2>4, Zenon DEF QueueInv, PageInv
<1>4. ASSUME NEW r \in Runs, LiveQueue!Flush(r) \/ LiveQueue!UpsertRun(r) PROVE StreamInv' /\ PageInv'
    BY <1>1, <1>4, Zenon DEF LiveQueue!Flush, LiveQueue!UpsertRun, LiveQueue!bus
<1>5. CASE LiveQueue!SampleRuns \/ LiveQueue!SampleRead
    BY <1>1, <1>5, Zenon DEF LiveQueue!SampleRuns, LiveQueue!SampleRead, LiveQueue!bus
<1>6. CASE UNCHANGED LiveQueue!vars
    BY <1>1, <1>6, Zenon DEF LiveQueue!vars
<1> QED BY <1>2, <1>3, <1>4, <1>5, <1>6, Zenon DEF LiveQueue!Sampler

\* A selection, and the replies to the page's requests.
LEMMA PickKeeps ==
    ASSUME QueueInv, \/ \E r \in Runs \cup {NoRun} : LiveQueue!Pick(r)
                 \/ \E k \in Requests : LiveQueue!Reply(k)
    PROVE  StreamInv' /\ PageInv'
PROOF
<1>0. IsRecord(dq_page, {"pick", "active", "stream", "shown"})
    BY Zenon DEF QueueInv, PageInv
<1>1. CASE /\ UNCHANGED <<dq_conn, dq_latest>> /\ IsRecord(dq_page', {"pick", "active", "stream", "shown"})
           /\ dq_page'.active = dq_page.active /\ dq_page'.stream = dq_page.stream
    BY <1>1, Zenon DEF QueueInv, StreamInv, Subscribed, PageInv
<1>2. ASSUME NEW r \in Runs \cup {NoRun}, LiveQueue!Pick(r) PROVE StreamInv' /\ PageInv'
    <2>1. dq_latest' = dq_latest /\ LiveQueue!SetRunId(r)
        BY <1>2, Zenon DEF LiveQueue!Pick
    <2>2. CASE dq_page' = [dq_page EXCEPT !.pick = r] /\ UNCHANGED dq_conn
        BY <1>0, <1>1, <2>1, <2>2, Zenon DEF IsRecord
    <2>3. CASE LiveQueue!Close /\ dq_page' = [dq_page EXCEPT !.pick = r, !.stream = "none", !.shown = LiveQueue!Blank]
        <3>1. StreamInv' /\ \A c \in Conns : dq_conn[c] = LiveQueue!NotConnected => dq_conn'[c] = dq_conn[c]
            BY <2>1, <2>3, CloseKeeps, Zenon DEF QueueInv
        <3>2. /\ IsRecord(dq_page', {"pick", "active", "stream", "shown"})
              /\ dq_page'.active = dq_page.active /\ dq_page'.stream = "none"
            BY Zenon, <1>0, <2>3 DEF IsRecord
        <3> QED BY <3>1, <3>2, PageKeeps, Zenon DEF QueueInv
    <2>4. CASE /\ LiveQueue!Close /\ r # NoRun
               /\ dq_page' = [pick |-> r, active |-> r, stream |-> "retry", shown |-> LiveQueue!Blank]
        <3>1. StreamInv'
            BY <2>1, <2>4, CloseKeeps, Zenon DEF QueueInv
        <3>2. IsRecord(dq_page', {"pick", "active", "stream", "shown"}) /\ dq_page'.active = r
            BY Zenon, <2>4 DEF IsRecord
        <3> QED BY <2>4, <3>1, <3>2, Zenon DEF PageInv
    <2> QED BY <2>1, <2>2, <2>3, <2>4, Zenon DEF LiveQueue!SetRunId, LiveQueue!Start
<1>3. ASSUME NEW k \in Requests, LiveQueue!Reply(k) PROVE StreamInv' /\ PageInv'
    <2>1. /\ UNCHANGED <<dq_conn, dq_latest>>
          /\ UNCHANGED dq_page \/ \E x : dq_page' = [dq_page EXCEPT !.shown = x]
        BY <1>3, Zenon DEF LiveQueue!Reply, LiveQueue!Serve, LiveQueue!Arrive, LiveQueue!bus
    <2>2. /\ IsRecord(dq_page', {"pick", "active", "stream", "shown"})
          /\ dq_page'.active = dq_page.active /\ dq_page'.stream = dq_page.stream
        BY <1>0, <2>1, Zenon DEF IsRecord
    <2> QED BY <1>1, <2>1, <2>2, Zenon
<1> QED BY <1>2, <1>3, Zenon

\* The steps of a connection.
LEMMA StreamKeeps ==
    ASSUME NoRun \notin Runs, QueueInv, NEW c \in Conns, LiveQueue!Stream(c) \/ LiveQueue!Lose(c)
    PROVE  StreamInv' /\ PageInv'
PROOF
<1>0. IsRecord(dq_page, {"pick", "active", "stream", "shown"}) /\ StreamInv /\ PageInv
    BY Zenon DEF QueueInv, PageInv
<1>1. CASE LiveQueue!Connect(c)
    <2>1. /\ dq_page.stream = "retry" /\ dq_page' = [dq_page EXCEPT !.stream = c] /\ UNCHANGED dq_latest
          /\ dq_conn' = [dq_conn EXCEPT ![c] = LiveQueue!Subscribe(dq_page.active)]
        BY <1>1, Zenon DEF LiveQueue!Connect
    <2>2. dq_page.active \in Runs
        BY Zenon, <2>1 DEF QueueInv, PageInv
    <2>3. /\ IsRecord(dq_page', {"pick", "active", "stream", "shown"}) /\ dq_page'.active = dq_page.active
        BY <1>0, <2>1, Zenon DEF IsRecord
    <2> DEFINE x == LiveQueue!Subscribe(dq_page.active)
               n == dq_latest[dq_page.active]
    <2>4. /\ IsRecord(x, {"run", "client", "q", "sent"}) /\ x.run = dq_page.active /\ x.sent = 0
          /\ x.q = IF n # 0 THEN <<n>> ELSE << >>
        BY Zenon DEF LiveQueue!Subscribe, IsRecord
    <2>5. n \in Nat
        BY Zenon, <2>2 DEF QueueInv, SamplerInv
    <2>6. Subscribed(x)
        BY <2>2, <2>4, <2>5, ChainSeed, Zenon DEF Subscribed
    <2> HIDE DEF x, n
    <2>7. dq_conn' = [d \in Conns |-> IF d = c THEN x ELSE dq_conn[d]]
        BY <2>1, <1>0, Zenon DEF StreamInv, x
    <2>8. dq_conn' = [d \in Conns |-> dq_conn'[d]]
        BY Zenon, <2>7
    <2>9. StreamInv'
        BY <1>0, <2>1, <2>4, <2>6, <2>7, <2>8, StreamsKeep, Zenon
    <2> QED BY <2>2, <2>3, <2>9, Zenon DEF PageInv
<1>2. CASE LiveQueue!Deliver(c)
    <2>1. /\ dq_conn[c].client /\ dq_conn[c].q # << >> /\ UNCHANGED dq_latest
          /\ dq_conn' = [dq_conn EXCEPT ![c].q = Tail(@), ![c].sent = Head(dq_conn[c].q)]
          /\ \E x : dq_page' = [dq_page EXCEPT !.shown = x]
        BY <1>2, Zenon DEF LiveQueue!Deliver, LiveQueue!Show
    <2>2. dq_conn[c] # LiveQueue!NotConnected /\ dq_page.active \in Runs
        BY <1>0, <2>1, ClientsRun, Zenon
    <2>3. IsRecord(dq_page', {"pick", "active", "stream", "shown"}) /\ dq_page'.active = dq_page.active
        BY <1>0, <2>1, Zenon DEF IsRecord
    <2> DEFINE y == [dq_conn[c] EXCEPT !.q = Tail(dq_conn[c].q), !.sent = Head(dq_conn[c].q)]
    <2>4. dq_conn' = [d \in Conns |-> IF d = c THEN y ELSE dq_conn[d]]
        BY Zenon, <1>0, <2>1 DEF StreamInv
    <2>5. IsRecord(y, {"run", "client", "q", "sent"}) /\ Subscribed(y)
        BY <1>0, <2>1, <2>2, OldestSent, Zenon DEF StreamInv
    <2> HIDE DEF y
    <2>6. dq_conn' = [d \in Conns |-> dq_conn'[d]]
        BY Zenon, <2>4
    <2>7. StreamInv'
        BY <1>0, <2>1, <2>4, <2>5, <2>6, StreamsKeep, Zenon
    <2> QED BY <2>2, <2>3, <2>7, Zenon DEF PageInv
<1>3. CASE LiveQueue!Keepalive(c) \/ LiveQueue!Disconnect(c) \/ LiveQueue!Lose(c)
    <2>1. /\ UNCHANGED dq_latest /\ (dq_conn[c].client \/ dq_conn[c] # LiveQueue!NotConnected)
          /\ dq_page' = dq_page \/ dq_page' = [dq_page EXCEPT !.stream = "retry"]
          /\ \/ dq_conn' = [dq_conn EXCEPT ![c] = LiveQueue!NotConnected]
             \/ dq_conn' = [dq_conn EXCEPT ![c] = [dq_conn[c] EXCEPT !.client = FALSE]]
        BY <1>3, Zenon DEF LiveQueue!Keepalive, LiveQueue!Disconnect, LiveQueue!Lose, LiveQueue!Retry
    <2>2. dq_conn[c] # LiveQueue!NotConnected /\ dq_page.active \in Runs
        BY <1>0, <2>1, ClientsRun, Zenon
    <2>3. IsRecord(dq_page', {"pick", "active", "stream", "shown"}) /\ dq_page'.active = dq_page.active
        BY <1>0, <2>1, Zenon DEF IsRecord
    <2>4. PICK y : /\ dq_conn' = [dq_conn EXCEPT ![c] = y]
                   /\ y = LiveQueue!NotConnected \/ y = [dq_conn[c] EXCEPT !.client = FALSE]
        BY <2>1, Zenon
    <2>5. StreamInv'
        BY <1>0, <2>1, <2>2, <2>4, OneEnds, Zenon
    <2> QED BY <2>2, <2>3, <2>5, Zenon DEF PageInv
<1> QED BY <1>1, <1>2, <1>3, Zenon DEF LiveQueue!Stream

\* What a subscriber of the bus was sent and still has queued ends with the run's
\* latest snapshot, in the order of their ids: for any number of runs,
\* connections and requests, and a queue of any size, publish() drops no newest
\* snapshot and subscribe() seeds each queue once.
THEOREM SubscribersHoldLatest ==
    ASSUME QueueSize \in Nat \ {0}, NoRun \notin Runs
    PROVE  LiveQueue!Spec => []LiveQueue!SubscriberHasLatest
PROOF
<1>1. QueueInv /\ [LiveQueue!Next]_(LiveQueue!vars) => QueueInv'
    <2> SUFFICES ASSUME QueueInv, [LiveQueue!Next]_(LiveQueue!vars) PROVE QueueInv'
        BY Zenon
    <2>1. SamplerInv'
        BY SamplerStep, Zenon DEF QueueInv
    <2>2. StreamInv' /\ PageInv'
        BY ServerKeeps, PickKeeps, StreamKeeps, Zenon DEF LiveQueue!Next
    <2> QED BY <2>1, <2>2, Zenon DEF QueueInv
<1>2. QueueInv => LiveQueue!SubscriberHasLatest
    BY Zenon, QueueInvImplies
<1> QED BY <1>1, <1>2, QueueInit, PTL DEF LiveQueue!Spec
=============================================================================
