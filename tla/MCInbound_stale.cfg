CONSTANTS
    c1 = c1
    c2 = c2
    c3 = c3
    c4 = c4
    Calls = {c1, c2}
    IdOf <- MCIdOf
    Foreign = {}
    Untranslatable = {}
    MaxAwaiting = 2
    MaxCrashes = 1
    Faults = {"vaspCrash"}
SPECIFICATION Spec
PROPERTY ForwardedWhenUp
CHECK_DEADLOCK FALSE
