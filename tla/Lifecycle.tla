----------------------------- MODULE Lifecycle -----------------------------
(***************************************************************************)
(* What a Runner promises to the components it manages, without how: the   *)
(* phases of each lifecycle hook, and when the Runner may move a hook from *)
(* one to the next. RunnerSession implements it (RunnerSessionLifecycle).  *)
(***************************************************************************)
VARIABLES
    dependsOn,  \* the graph: a function from hooks to the hooks they depend on
    runs,       \* the hooks that have a Run method
    phase,      \* idle, starting, up, closing or down
    runner      \* idle, active, stopping or returned

vars == <<dependsOn, runs, phase, runner>>

Hooks == DOMAIN dependsOn
Dependents(n) == {m \in Hooks : n \in dependsOn[m]}
Move(n, to) == phase' = [phase EXCEPT ![n] = to] /\ UNCHANGED <<dependsOn, runs, runner>>
MoveRunner(to) == runner' = to /\ UNCHANGED <<dependsOn, runs, phase>>

Init ==
    /\ phase = [n \in Hooks |-> "idle"]
    /\ runner = "idle"

Begin == runner = "idle" /\ MoveRunner("active")
Stop == runner = "active" /\ MoveRunner("stopping")

\* A hook is started once, before any shutdown, on top of dependencies that are ready.
Start(n) ==
    /\ runner = "active" /\ phase[n] = "idle"
    /\ \A d \in dependsOn[n] : phase[d] \in {"up", "down"}
    /\ Move(n, "starting") \/ Move(n, "up")

Ready(n) == phase[n] = "starting" /\ Move(n, "up")

\* Only in a shutdown, and a Run only after everything that depends on it.
Close(n) ==
    /\ runner = "stopping" /\ phase[n] \in {"idle", "up"}
    /\ n \in runs => \A m \in Dependents(n) : phase[m] = "down"
    /\ Move(n, "closing")

\* A hook comes to its end by itself when its start fails or its Run returns,
\* and by the shutdown otherwise.
End(n) ==
    /\ \/ phase[n] \in {"starting", "closing"}
       \/ phase[n] = "up" /\ n \in runs
       \/ phase[n] \in {"idle", "up"} /\ runner = "stopping"
    /\ Move(n, "down")

\* Not before every hook has come to its end, unless nothing was begun.
Return ==
    /\ runner = "idle" \/ (runner # "returned" /\ \A n \in Hooks : phase[n] = "down")
    /\ MoveRunner("returned")

Next ==
    \/ Begin \/ Stop \/ Return
    \/ \E n \in Hooks : Start(n) \/ Ready(n) \/ Close(n) \/ End(n)

Spec == Init /\ [][Next]_vars
=============================================================================
