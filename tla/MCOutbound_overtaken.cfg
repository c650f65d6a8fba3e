CONSTANTS
    t1 = t1
    t2 = t2
    t3 = t3
    s1 = s1
    s2 = s2
    Transfers = {t1, t2}
    Streams = {s1}
    StreamOf <- MCStreamOf
    Malformed = {}
    MaxCallbacks = 1
    MaxCrashes = 0
    Faults = {"earlyCallback"}
SPECIFICATION Spec
INVARIANT TxidMeansConfirm
CHECK_DEADLOCK FALSE
