CONSTANTS
    c1 = c1
    c2 = c2
    c3 = c3
    Calls = {c1, c2, c3}
    Unencodable = {}
    Undecodable = {c2}
    None = None
    MaxCrashes = 1
    Faults = {"peerAborts", "peerCrash", "peerSilent", "peerReorders", "races"}
SPECIFICATION FairSpec
INVARIANT TypeOK
INVARIANT NoOrphanAnswer
INVARIANT OwnAnswerUnlessShared
PROPERTY CallsEnd
CHECK_DEADLOCK FALSE
