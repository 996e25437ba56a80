SPECIFICATION Spec
CONSTANTS
    Timeouts <- SomeTimeouts
    MaxOptions = 2
    MaxAdds = 3
INVARIANTS HookPlaysWhatWasAdded OptionsReachTheSession
