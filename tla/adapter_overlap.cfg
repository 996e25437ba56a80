SPECIFICATION Spec
CONSTANTS
    Session = {s1, s2}
    Overlap = TRUE
    HookKinds <- BothKinds
    RunResults <- AnyResult
    MaxRuns = 2
INVARIANTS OneRunAtATime RunEndsWithSession ReadyIfStarted
CHECK_DEADLOCK FALSE
