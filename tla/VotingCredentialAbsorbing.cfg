SPECIFICATION Spec
CONSTANTS
    w1 = w1  w2 = w2
    n1 = n1  n2 = n2
    k1 = k1  k2 = k2
    None = None
    Workers = {w1, w2}
    Nonces = {n1, n2}
    Keys = {k1}
    MaxRequests = 3
    MaxCrashes = 0
PROPERTY RedeemedIsAbsorbing
CHECK_DEADLOCK FALSE
