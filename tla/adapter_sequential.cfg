SPECIFICATION FairSpec
CONSTANTS
    Session = {s1, s2, s3}
    Overlap = FALSE
    HookKinds <- BothKinds
    RunResults <- NeverNil
    MaxRuns = 3
INVARIANT WaitsForAResultToCome
PROPERTY InterruptedStartEnds
