SPECIFICATION FairSpec
CONSTANTS
    Node = {1, 2, 3, 4, 5}
    Graphs <- AsyncKindsAndPartialPhases
    SharedHook = {}
    TimedStart = {2}
    NilResultAsError = {3}
PROPERTY Terminates
