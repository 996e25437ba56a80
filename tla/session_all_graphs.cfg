SPECIFICATION Spec
CONSTANTS
    Node = {1, 2, 3}
    Graphs <- AllKindsUpTo3
    SharedHook = {}
    TimedStart = {2}
    NilResultAsError = {3}
INVARIANTS TypeOK CountersExact DoneDependentsExact NoGoroutineLeft
    ClosedOnlyIfStarted ResultTellsTheEnd NeverStalls
PROPERTY ImplementsLifecycle
