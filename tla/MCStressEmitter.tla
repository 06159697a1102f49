---------------------------- MODULE MCStressEmitter ----------------------------
(* Instances of StressEmitter for TLC. *)
EXTENDS StressEmitter

\* One worker per miner.
OneEach == [hk \in Hotkeys |-> 1]
==============================================================================
