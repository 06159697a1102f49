---------------------------- MODULE MCStreamingRun ----------------------------
(* Instances of StreamingRun for TLC. *)
EXTENDS StreamingRun

\* One worker per miner.
OneEach == [hk \in Hotkeys |-> 1]
==============================================================================
