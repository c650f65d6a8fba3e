CONSTANTS
    c1 = c1
    c2 = c2
    None = None
    Calls = {c1, c2}
    Malformed = {}
    MaxStreams = 4
    MaxCallbacks = 1
    MaxCrashes = 1
    Faults = {"postFails", "crash", "fatalRejection"}
SPECIFICATION FairSpec
INVARIANT DotsAreAcceptances
INVARIANT OwnDotUnlessShared
PROPERTY CallsEndUnlessRefused
PROPERTY PeerAssumption
CHECK_DEADLOCK FALSE
