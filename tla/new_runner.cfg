SPECIFICATION NewRunnerSpec
CONSTANTS
    r = r
    a = a
    b = b
    c = c
    Root = r
    Comp <- Components
    Caller = {g1, g2}
    Maker = g1
    Asked = {r, b}
    ProviderCalls <- Providers
    LateInitCalls <- LateInits
    MaxLateInits <- OneEach
    MayHaveHook = {r, a, b, c}
    Failures = {"err", "panic", "lateInit"}
INVARIANT RunnerFollowsUse
PROPERTY SearchReadsSettled
