---------------------------- MODULE MCRoundTasks ----------------------------
EXTENDS RoundTaskRun
=============================================================================
