CONSTANTS
    c1 = c1
    c2 = c2
    c3 = c3
    c4 = c4
    Calls = {c1, c2, c3, c4}
    IdOf <- MCIdOf
    Foreign = {}
    Untranslatable = {c3}
    MaxAwaiting = 3
    MaxCrashes = 1
    Faults = {"vaspAborts", "vaspCrash", "postFails", "crash", "fatalRejection"}
SPECIFICATION FairSpec
INVARIANT TypeOK
INVARIANT ListenersAwait
INVARIANT AnswerOwed
INVARIANT NeverAhead
PROPERTY AwaitEnds
CHECK_DEADLOCK FALSE
