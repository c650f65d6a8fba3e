CONSTANTS
    c1 = c1
    c2 = c2
    None = None
    Calls = {c1, c2}
    Malformed = {}
    MaxStreams = 2
    MaxCallbacks = 1
    MaxCrashes = 0
    Faults = {}
SPECIFICATION Spec
INVARIANT DotMeansAccepted
CHECK_DEADLOCK FALSE
