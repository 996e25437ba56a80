SPECIFICATION Spec
CONSTANTS
    a = a
    b = b
    c = c
    d4 = d4
    Comp <- Three
    Caller = {g1}
    Asked = {a}
    ProviderCalls <- Diamond
    LateInitCalls <- Backward3
    MaxLateInits <- OneLateInitEach
    MayHaveHook = {b}
    Failures = {}
INVARIANTS
    EveryNodeIsRegistered
