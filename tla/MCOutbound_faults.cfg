CONSTANTS
    t1 = t1
    t2 = t2
    t3 = t3
    s1 = s1
    s2 = s2
    Transfers = {t1, t2, t3}
    Streams = {s1, s2}
    StreamOf <- MCStreamOf
    Malformed = {t2}
    MaxCallbacks = 2
    MaxCrashes = 1
    Faults = {"earlyCallback", "postFails", "streamEnds", "crash", "fatalRejection"}
SPECIFICATION Spec
INVARIANT TypeOK
INVARIANT ResolversAreWaiting
INVARIANT ConfirmOnlyAccepted
INVARIANT ReturnedIsConfirmed
PROPERTY ReleasedByOwnCallback
PROPERTY ImplementsSafety
CHECK_DEADLOCK FALSE
