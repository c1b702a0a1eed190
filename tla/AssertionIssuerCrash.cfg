SPECIFICATION AssertionSpec
CONSTANTS
  TrustWorkers = {w1, w2}
  Nobody = nobody
  Units = {u1}
  Digests = {d1}
  MaxMints = 2
  MaxIssuerCrashes = 1
  MaxRefusedCommits = 0
INVARIANT OneAssertionPerUnit
CHECK_DEADLOCK FALSE
