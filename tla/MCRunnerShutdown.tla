-------------------------- MODULE MCRunnerShutdown --------------------------
(* Instances of RunnerShutdown for TLC. *)
EXTENDS RunnerShutdown, MCRunnerSession

AllKindsUpTo1 == UNION {AcyclicGraphs(k, Kinds) : k \in 0 .. 1}
=============================================================================
