CONSTANTS
    c1 = c1
    c2 = c2
    c3 = c3
    c4 = c4
    Calls = {c1, c2}
    IdOf <- MCIdOf
    Foreign = {}
    Untranslatable = {}
    MaxAwaiting = 2
    MaxCrashes = 0
    Faults = {}
SPECIFICATION Spec
INVARIANT PermitOnlyAnswered
CHECK_DEADLOCK FALSE
