SPECIFICATION Spec
CONSTANTS
    Node = {1, 2, 3}
    Graphs <- MainKindsUpTo3
    SharedHook = {1, 2, 3}
    TimedStart = {2}
    NilResultAsError = {}
INVARIANT NothingLeftOpen
PROPERTIES ReadyWhenAllAreUp 
