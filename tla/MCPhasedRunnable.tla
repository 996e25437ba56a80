-------------------------- MODULE MCPhasedRunnable --------------------------
(* Instances of PhasedRunnable for TLC. *)
EXTENDS PhasedRunnable

BothKinds == {"Runnable", "ReadinessRunnable"}
AnyResult == [k \in BothKinds |-> {"nil", "err"}]

\* A ReadinessRunnable that never returns nil.
NeverNil == [k \in BothKinds |-> IF k = "Runnable" THEN {"nil", "err"} ELSE {"err"}]
=============================================================================
