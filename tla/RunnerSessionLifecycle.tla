----------------------- MODULE RunnerSessionLifecycle -----------------------
(* The session implements the abstract Lifecycle. *)
EXTENDS RunnerSession

\* The phase of a hook, out of the three phases the session keeps of its node.
PhaseOf(n) ==
    IF IsDone(n) THEN "down"
    ELSE IF close[n] # "none" THEN "closing"
    ELSE IF start[n] = "active" THEN "starting"
    ELSE IF start[n] \in Done THEN "up"
    ELSE "idle"

RunnerState ==
    IF pc = "run" THEN "idle"
    ELSE IF pc = "returned" THEN "returned"
    ELSE IF onShutdownCalls > 0 THEN "stopping"
    ELSE "active"

L == INSTANCE Lifecycle WITH
        phase <- [n \in LcNodes |-> PhaseOf(n)],
        runs <- {n \in LcNodes : HasWaiter(n)},
        runner <- RunnerState

\* Every step of the session is a step of Lifecycle or changes no phase, unless
\* another Runner runs a Runnable of this session.
ImplementsLifecycle == L!Spec
=============================================================================
