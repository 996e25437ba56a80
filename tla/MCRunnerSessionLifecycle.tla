--------------------- MODULE MCRunnerSessionLifecycle ---------------------
(* An instance of the refinement for TLC: all graphs of up to three hooks. *)
EXTENDS RunnerSessionLifecycle, MCRunnerSession
=============================================================================
