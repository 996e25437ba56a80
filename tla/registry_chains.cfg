SPECIFICATION Spec
CONSTANTS
    a = a
    b = b
    c = c
    d4 = d4
    Comp <- Four
    Caller = {g1, g2}
    Asked = {a, c}
    ProviderCalls <- ChainWithCycle
    LateInitCalls <- Backward4
    MaxLateInits <- OneLateInitEachButB
    MayHaveHook = {c}
    Failures = {"err", "panic", "lateInit"}
INVARIANTS
    StatsExact OneChainAtATime NothingHalfInitialised
    RegisteredWithOneLateInit LateInitErrorsSpread RegistrationExact
PROPERTIES
    RegisteredOnce
