SPECIFICATION RunnerShutdownSpec
CONSTANTS
    Node = {1}
    Graphs <- AllKindsUpTo1
    SharedHook = {}
    TimedStart = {1}
    NilResultAsError = {1}
    Caller = {c1, c2, c3}
    NoCtx = {c1}
    Signal = {SIGINT}
INVARIANT OneSessionAtATime
PROPERTIES RefusedOnlyWhileRunning SignalEndsRun RunEndsItsContext
CHECK_DEADLOCK FALSE
