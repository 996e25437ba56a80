SPECIFICATION Spec
CONSTANTS
    Comp <- CompsUpTo4
    DepGraphs <- AllGraphs
INVARIANTS
    ExactDependencies
    RefusedOnlyIfHooksInCycle
    EveryHookIsIn
    NoHookTwice
