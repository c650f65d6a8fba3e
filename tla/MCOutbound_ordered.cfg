CONSTANTS
    t1 = t1
    t2 = t2
    t3 = t3
    s1 = s1
    s2 = s2
    Transfers = {t1, t2}
    Streams = {s1}
    StreamOf <- MCStreamOf
    Malformed = {}
    MaxCallbacks = 2
    MaxCrashes = 1
    Faults = {"postFails", "streamEnds", "crash", "fatalRejection"}
SPECIFICATION FairSpec
INVARIANT AnsweredNeverWaits
PROPERTY CallsEnd
PROPERTY AcceptedConfirmed
CHECK_DEADLOCK FALSE
