SPECIFICATION Spec
CONSTANTS
    w1 = w1  w2 = w2
    n1 = n1  n2 = n2
    k1 = k1  k2 = k2
    None = None
    Workers = {w1, w2}
    Nonces = {n1, n2}
    Keys = {k1, k2}
    MaxRequests = 4
    MaxCrashes = 1
SYMMETRY Symmetric
INVARIANTS
    TypeOK
    NoDoubleCredential
    OneCapabilityPerCredential
    AnsweredMeansDurable
PROPERTY KeepsThePromise
CHECK_DEADLOCK FALSE
