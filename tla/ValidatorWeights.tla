-------------------------- MODULE ValidatorWeights --------------------------
(***************************************************************************)
(* Who sets the subnet's weights: the validator, one pass after another of *)
(* loop_forever in docker/entrypoint.sh, and the watchdog                  *)
(* scripts/validator_weight_watchdog.py, which burns them when the         *)
(* validator has fallen behind.  Both sign with the validator's hotkey, on *)
(* a chain that refuses an update too soon after the last.                 *)
(*                                                                         *)
(* Time is counted in blocks, and kept as ages, so that it needs no bound. *)
(* A score is a hotkey that has one: what weight it makes is left out.     *)
(***************************************************************************)
EXTENDS Naturals, FiniteSets

CONSTANTS
    Hotkeys,     \* miners
    Validator,   \* the validator's hotkey
    RateLimit,   \* WeightsSetRateLimit: 100 blocks
    Threshold,   \* --threshold-blocks: 360
    Cooldown,    \* --burn-cooldown-sec: 20 minutes, 100 blocks
    PollBlocks,  \* --poll-sec and --error-backoff-sec, in blocks
    MaxPass,     \* a pass of the validator and its sleep, in blocks
    MaxLatency,  \* a call of the chain, in blocks
    MaxFaults,   \* bound on failed calls and passes
    MaxChanges   \* bound on what happens to scores and registrations

\* A deployment, the default one among them: the watchdog's threshold is no less
\* than the chain's limit and its own cool-down (360, 100 and 100 blocks), and two
\* calls are answered before the chain takes another update (20 minutes).
Configured ==
    /\ RateLimit \in Nat /\ Threshold \in Nat /\ Cooldown \in Nat /\ PollBlocks \in Nat
    /\ MaxPass \in Nat /\ MaxLatency \in Nat /\ MaxFaults \in Nat /\ MaxChanges \in Nat
    /\ RateLimit <= Threshold /\ Cooldown <= Threshold
    /\ 2 * MaxLatency < RateLimit

VARIABLES
    age,        \* blocks since last_update of the validator's uid
    by,         \* whose weights those are
    metagraph,  \* the registered hotkeys
    scored,     \* the hotkeys with a score window
    val,        \* the validator: its step, and the blocks since its last
    dog,        \* the watchdog: its step, the blocks since its last, what it read
    burnAge,    \* blocks since last_burn_unix, Never before
    dry,        \* --dry-run
    faults, changes

vars == <<age, by, metagraph, scored, val, dog, burnAge, dry, faults, changes>>
chain == <<age, by, metagraph>>
world == <<metagraph, scored, dry, changes>>

Never == Cooldown + 1
\* What the age can be at most, and where it stops to be counted.
Overdue == Threshold + (1 + MaxFaults) * (PollBlocks + 2 * MaxLatency) + 1
Older(n, max) == IF n < max THEN n + 1 ELSE n

Init ==
    /\ age = 0 /\ by = "scores" /\ metagraph = Hotkeys \cup {Validator} /\ scored = {}
    /\ val = [step |-> "pass", clock |-> 0]
    /\ dog = [step |-> "sleep", clock |-> 0, since |-> 0]
    /\ burnAge = Never /\ dry \in BOOLEAN /\ faults = 0 /\ changes = 0

Fault == faults < MaxFaults /\ faults' = faults + 1

-----------------------------------------------------------------------------
(* The chain, and what changes by itself.                                  *)

\* A block.  No one is later than its bound.
Tick ==
    /\ val.clock < (IF val.step = "sent" THEN MaxLatency ELSE MaxPass)
    /\ dog.clock < (IF dog.step = "sleep" THEN PollBlocks ELSE MaxLatency)
    /\ age' = Older(age, Overdue)
    /\ val' = [val EXCEPT !.clock = @ + 1]
    /\ dog' = [dog EXCEPT !.clock = @ + 1, !.since = IF dog.step = "read" THEN Older(@, Overdue) ELSE @]
    /\ burnAge' = IF burnAge < Cooldown THEN burnAge + 1 ELSE burnAge
    /\ UNCHANGED <<by, world, faults>>

\* A miner is scored, comes or goes; so may the validator's hotkey, whose
\* last_update is then that of the registration.
Change ==
    /\ changes < MaxChanges /\ changes' = changes + 1
    /\ \/ \E h \in Hotkeys \ scored : scored' = scored \cup {h} /\ UNCHANGED chain
       \/ \E h \in metagraph : metagraph' = metagraph \ {h} /\ UNCHANGED <<scored, age, by>>
       \/ \E h \in (Hotkeys \cup {Validator}) \ metagraph :
            /\ metagraph' = metagraph \cup {h} /\ UNCHANGED scored
            /\ IF h = Validator THEN age' = 0 /\ by' = "nobody" ELSE UNCHANGED <<age, by>>
    /\ UNCHANGED <<val, dog, burnAge, dry, faults>>

\* set_weights is included: it takes effect unless the hotkey is not registered
\* or the last update is too recent.
Accepts == Validator \in metagraph /\ age >= RateLimit
SetWeights(who) ==
    IF Accepts THEN age' = 0 /\ by' = who /\ UNCHANGED metagraph ELSE UNCHANGED chain

-----------------------------------------------------------------------------
(* The validator.                                                          *)

Mapped == scored \cap metagraph

\* The pass comes to publish_weights: no_scores and no_mapped_hotkeys send
\* nothing.
Publish ==
    /\ val.step = "pass" /\ val.clock > 0
    /\ IF Mapped # {}
       THEN val' = [step |-> "sent", clock |-> 0] ELSE val' = [val EXCEPT !.clock = 0]
    /\ UNCHANGED <<age, by, dog, burnAge, world, faults>>

\* Its set_weights is answered; whatever the answer, the pass ends and the loop
\* begins another.
Published ==
    /\ val.step = "sent"
    /\ SetWeights("scores")
    /\ val' = [step |-> "pass", clock |-> 0]
    /\ UNCHANGED <<scored, dog, burnAge, dry, faults, changes>>

\* Mutant: a pass that ends with an error ends the loop.
PassFailsForGood ==
    /\ Fault
    /\ val' = [step |-> "over", clock |-> 0]
    /\ UNCHANGED <<age, by, dog, burnAge, world>>

\* The pass ends with an error: before it publishes, or set_weights raises.
PassFails ==
    /\ Fault
    /\ val' = [step |-> "pass", clock |-> 0]
    /\ UNCHANGED <<age, by, dog, burnAge, world>>

-----------------------------------------------------------------------------
(* The watchdog: check_once, and the loop of main().                       *)

Asleep == [step |-> "sleep", clock |-> 0, since |-> 0]

\* metagraph(): the validator's last_update, if it is there.
ReadMetagraph ==
    /\ dog.step = "sleep" /\ dog.clock > 0
    /\ dog' = IF Validator \in metagraph THEN [step |-> "read", clock |-> 0, since |-> age] ELSE Asleep
    /\ UNCHANGED <<age, by, val, burnAge, world, faults>>

\* Mutant: a gap of threshold blocks is too long.
BehindByThreshold == dog.since >= Threshold

\* Mutant: the threshold is taken for seconds, twelve to a block.
BehindInSeconds == dog.since > 12 * Threshold

\* blocks_since > threshold_blocks
Behind == dog.since > Threshold

\* get_current_block(), some blocks later perhaps: "ok", "cooldown", or a burn,
\* which a dry run does not send.
Decide ==
    /\ dog.step = "read"
    /\ IF Behind /\ burnAge >= Cooldown /\ ~dry
       THEN dog' = [Asleep EXCEPT !.step = "sent"] ELSE dog' = Asleep
    /\ burnAge' = IF Behind /\ burnAge >= Cooldown /\ dry THEN 0 ELSE burnAge
    /\ UNCHANGED <<age, by, val, world, faults>>

\* The burn is answered: "burned" or "burn_failed".
Burned ==
    /\ dog.step = "sent"
    /\ SetWeights("burn")
    /\ dog' = Asleep
    /\ burnAge' = IF Accepts THEN 0 ELSE burnAge
    /\ UNCHANGED <<scored, val, dry, faults, changes>>

\* A call raises: a new connection after the back-off.  A burn may have been
\* included all the same: it is not noted as one.
DogFails ==
    /\ Fault
    /\ dog' = Asleep
    /\ \/ UNCHANGED chain
       \/ dog.step = "sent" /\ SetWeights("burn")
    /\ UNCHANGED <<val, burnAge, scored, dry, changes>>

Loop == Publish \/ Published
Watchdog == ReadMetagraph \/ Decide \/ Burned

Next == Tick \/ Change \/ Loop \/ PassFails \/ Watchdog \/ DogFails

Spec == Init /\ [][Next]_vars
\* Blocks come, and both loops go on.
FairSpec == Spec /\ WF_vars(Tick) /\ WF_vars(Loop) /\ WF_vars(Watchdog)

-----------------------------------------------------------------------------
(* Properties.                                                             *)

\* "The watchdog only fires when the validator has fallen behind": a burn that
\* takes effect replaces weights older than the threshold, never an update the
\* validator made after the watchdog looked (which the rate limit protects, as
\* long as two calls take less), nor a burn whose answer was lost.
SparesFresh == age' < age /\ by' = "burn" => age > Threshold
BurnSparesFresh == [][SparesFresh]_vars

\* While the hotkey is registered and the run is not dry, the weights are never
\* much older than the threshold, whatever the validator does: a poll and two
\* calls more, and as much again for each failed call.
WeightsStayFresh == Validator \in metagraph /\ ~dry => age < Overdue

\* A validator that comes to have a score for a registered hotkey sets the
\* weights by its scores again and again: burns do not keep it out, though each
\* of them starts the rate limit anew.
ScoresReturn == <>[](Mapped # {} /\ Validator \in metagraph) => []<>(by = "scores" /\ age = 0)
=============================================================================
