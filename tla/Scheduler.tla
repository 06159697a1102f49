------------------------------ MODULE Scheduler ------------------------------
(***************************************************************************)
(* The quota book of teuton_orchestrator/scheduler.py as operators: an     *)
(* `inflight' function holds each account's inflight_cu, a `depth' function*)
(* the queue depth that the caller's hotkey_filter looks at.  Every job is *)
(* estimated at 1 CU, trust_multiplier is 1 and verified_good_cu is 0:     *)
(* nothing in the repository assigns them.  Hotkeys are numbers, ordered   *)
(* as the ss58 strings are.                                                *)
(***************************************************************************)
EXTENDS Naturals, FiniteSets

CONSTANTS
    Hotkeys,       \* the miners' hotkeys
    Workers,       \* Workers[hk]: how many workers hk runs
    BaseQuota,     \* MinerAccount.base_quota
    MaxInflight    \* max_inflight_per_hotkey

ASSUME SchedulerAssumption ==
    /\ Hotkeys \subseteq Nat /\ IsFiniteSet(Hotkeys)
    /\ Workers \in [Hotkeys -> Nat \ {0}]
    /\ BaseQuota \in Nat
    /\ MaxInflight \in Nat

AvailableQuota(inflight, hk) ==
    IF inflight[hk] <= BaseQuota THEN BaseQuota - inflight[hk] ELSE 0

\* Mutant: a full queue counts as one with room.
CandidatesOffByOne(accounts, inflight, depth) ==
    {hk \in accounts : depth[hk] <= MaxInflight /\ AvailableQuota(inflight, hk) >= 1}

\* The accounts that the loop of pick_worker does not skip.
Candidates(accounts, inflight, depth) ==
    {hk \in accounts : depth[hk] < MaxInflight /\ AvailableQuota(inflight, hk) >= 1}

AtLeastOne(n) == IF n = 0 THEN 1 ELSE n

\* g sorts before h: (1 + #workers) / max(1, inflight) descending, then hotkey.
SortsBefore(inflight, g, h) ==
    LET pg == (1 + Workers[g]) * AtLeastOne(inflight[h])
        ph == (1 + Workers[h]) * AtLeastOne(inflight[g])
    IN  pg > ph \/ (pg = ph /\ g < h)

PickWorker(candidates, inflight) ==
    CHOOSE hk \in candidates :
        \A g \in candidates \ {hk} : SortsBefore(inflight, hk, g)

Reserve(inflight, hk) == [inflight EXCEPT ![hk] = @ + 1]

\* release() called count[hk] times for every hk; inflight_cu stops at 0.
Release(inflight, count) ==
    [hk \in Hotkeys |->
        IF inflight[hk] <= count[hk] THEN 0 ELSE inflight[hk] - count[hk]]
==============================================================================
