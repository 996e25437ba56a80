-------------------------- MODULE MCRunnerSession --------------------------
(* Instances of RunnerSession for TLC: all graphs of a few hooks. *)
EXTENDS RunnerSession

\* Every acyclic graph over hooks 1 .. k up to renaming (a hook depends on
\* smaller ones only), with every choice of their kinds among ks.
AcyclicGraphs(k, ks) ==
    LET deps == {g \in [1 .. k -> SUBSET (1 .. k)] : \A n \in 1 .. k : g[n] \subseteq 1 .. n - 1}
    IN  [dependsOn : deps, kind : [1 .. k -> ks]]

MainKindsUpTo3 == UNION {AcyclicGraphs(k, {"StarterCloser", "Closer", "Runnable"}) : k \in 0 .. 3}

\* The graph of TestRunner_RunPartialPhases (runner_session_test.go:898).
PartialPhases ==
    { [dependsOn |-> <<{}, {}, {1, 2}, {3}, {4}>>,
       kind |-> <<"Starter", "Closer", "Runnable", "Closer", "StarterCloser">>] }

AllKindsUpTo3 == UNION {AcyclicGraphs(k, Kinds) : k \in 0 .. 3}
AsyncKindsAndPartialPhases ==
    UNION {AcyclicGraphs(k, {"StarterCloser", "Closer", "ReadinessRunnable"}) : k \in 0 .. 3}
        \cup PartialPhases
=============================================================================
