----------------------------- MODULE DurableRun -----------------------------
(***************************************************************************)
(* What every run manager of the repository promises of a training run:    *)
(* the step that state.json names is one whose weights are all in the      *)
(* bucket, it moves on by one at a time, and complete weights are never    *)
(* taken away and never appear out of order.                               *)
(*                                                                         *)
(* "frontier" is the last step whose weights, and those of all steps       *)
(* before it, are complete.  An operator may restart a run at any complete *)
(* step where mayResume says so (--resume-from-epoch).                     *)
(***************************************************************************)
EXTENDS Naturals

VARIABLES step, frontier, mayResume

Init == step = 0 /\ frontier = 0 /\ mayResume \in BOOLEAN

\* The weights of one more step are complete.
Produce == frontier' = frontier + 1 /\ UNCHANGED <<step, mayResume>>

\* The manager moves on to a step whose weights are complete.
Advance == step < frontier /\ step' = step + 1 /\ UNCHANGED <<frontier, mayResume>>

Resume == mayResume /\ step' \in 0 .. frontier /\ UNCHANGED <<frontier, mayResume>>

Spec == Init /\ [][Produce \/ Advance \/ Resume]_<<step, frontier, mayResume>>

=============================================================================
