SPECIFICATION GuardianSpec
CONSTANTS
  Prime = 11
  Order = 5
  Generator = 3
  GuardianCount = 3
  QuorumSize = 2
  Coefficients = {1, 3}
  Nonces = {2, 3}
  MaxBallots = 2
  NoKey = NoKey
  Refused = Refused
INVARIANT VerifiedResultIsTheDecryption
CHECK_DEADLOCK FALSE
