------------------------------ MODULE MCRoundRun ------------------------------
(* Instances of RoundRun for TLC. *)
EXTENDS RoundRun

\* One worker per miner.
OneEach == [hk \in Hotkeys |-> 1]
==============================================================================
