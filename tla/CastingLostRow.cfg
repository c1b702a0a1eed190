SPECIFICATION Spec
CONSTANTS
    c1 = c1  c2 = c2
    e1 = e1  e2 = e2  e3 = e3
    b1 = b1  b2 = b2
    k1 = k1  k2 = k2  d1 = d1  d2 = d2
    None = None
    Unknown = Unknown
    Capabilities = {c1, c2}
    Envelopes = {e1, e2, e3}
    BallotIds = {b1, b2}
    BallotIdOf <- MCBallotIdOf
    Keys = {k1, k2}
    Batches = {1}
    CastReserved = 1
    ChallengeReserved = 0
    SharedReserve = 1
    Dispatchers = {d1}
    MaxRequests = 2
    MaxFaults = 1
    MaxCrashes = 0
INVARIANT NoObligationIsLost
CHECK_DEADLOCK FALSE
