CONSTANTS
    k1 = k1
    k2 = k2
    n1 = n1
    n2 = n2
    Keys = {k1, k2}
    Nonces = {n1, n2}
    Plains <- MCPlains
    TagLen = 3
    ShortTags = {2}
    NonceLen = 2
SPECIFICATION Spec
INVARIANT TypeOK
INVARIANT DecodersAgree
INVARIANT RoundTrip
INVARIANT OpensOnlySealed
CHECK_DEADLOCK FALSE
