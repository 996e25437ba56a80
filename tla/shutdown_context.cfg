SPECIFICATION FairSpec
CONSTANTS
    Context = {x}
    Canceller = {u, v}
    Signal = {SIGINT, SIGTERM}
    Parents = {x}
INVARIANTS NeverPanics CancelIsOverOnReturn CauseTellsWhy
PROPERTY EndsForGood
