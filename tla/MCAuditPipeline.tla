---------------------------- MODULE MCAuditPipeline ----------------------------
(* Instances of AuditPipeline for TLC. *)
EXTENDS AuditPipeline

CONSTANT m1

\* The miner falsifies its first job.
FirstOfM1 == {<<m1, 1>>}

\* One worker per auditor.
OneEach == [a \in Hotkeys |-> 1]
==============================================================================
