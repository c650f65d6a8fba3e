CONSTANTS
    c1 = c1
    c2 = c2
    c3 = c3
    c4 = c4
    Calls = {c1, c2, c3, c4}
    IdOf <- MCIdOf
    Foreign = {c3}
    Untranslatable = {}
    MaxAwaiting = 1
    MaxCrashes = 1
    Faults = {"vaspAborts", "vaspCrash", "postFails", "crash", "fatalRejection"}
SPECIFICATION Spec
INVARIANT PermitOnlyAnswered
PROPERTY ImplementsSafety
CHECK_DEADLOCK FALSE
