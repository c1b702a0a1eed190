SPECIFICATION RecordsSpec
CONSTANTS
  a1 = a1
  a2 = a2
  a3 = a3
  a4 = a4
  p1 = p1
  p2 = p2
  r1 = r1
  v1 = v1
  v2 = v2
  none = none
  Voters = {a1, a2, a3}
  Ballots = {r1}
  Never = none
  MaxDelegations = 2
  MaxDays = 1
  MaxSnapshots = 1
  CommandKeys = {p1, p2}
  RecordIds = {a2, a3}
  MaxVersions = 3
  MaxAttempts = 2
  MaxRewinds = 1
  Accounts = {a2, a3}
  Periods = {a1, a4}
  Intervals = {1, 2}
  JournalIds = {p1, p2, r1}
  Authorities = {v1, v2}
  ActorOf <- MCActorOf
  NoLink = none
  MaxCommands = 7
  MaxNumber = 3
  Holdings = {p1, p2}
  HoldIds = {a1}
  RetentionDays = {1}
  Policies = {1, 2}
  DestructionIds = {r1}
  NoReference = none
  Submitted <- MCSubmitted
  MaxClock = 1
  MaxRevision = 3
  Staff = {a2, a3}
  OptionIds = {r1}
  Papers = {a1}
  Snapshots = {v1, v2}
  Undecided = none
  ClosesAt = 2
  MaxHour = 2
  MaxVotes = 3
  Roles = {1, 2, 3, 4, 5, 6}
  HolderOf <- MCHolderOf
  CodeOf <- MCCodeOf
  Founders = {1, 2, 3, 4, 5}
  PolicyIds = {1, 2}
  DecisionIds = {1, 2}
  ChallengeIds = {v1}
  Nothing = none
  MaxActs = 5
  ReportVersions = {v1, v2}
  FrozenIds = {p1, p2}
  Engagements = {r1}
  Terms = {1}
  TermOf <- MCTermOf
  Clerks = {a1, a2, a3}
  RolesOf <- MCRolesOf
  Unbound = none
  MaxReportActs = 10
  Boards = {a2, a3}
  Payloads = {p1, p2}
  MaxEntries = 7
  Prime = 11
  Order = 5
  Generator = 3
  GuardianCount = 3
  QuorumSize = 2
  Coefficients = {1, 3}
  Nonces = {2, 3}
  MaxBallots = 2
  NoKey = none
  Refused = none
  Claims = {v1, v2}
  AuthorizationIds = {p1, p2}
  ReimbursementIds = {r1}
  Parties = {a1, a2, a3}
  NoId = none
  MaxSubmissions = 2
  MaxPayables = 1
  Contributions = {a2, a3}
  Handles = {p1, p2}
  NoHandle = none
  MaxInstant = 2
  MaxRecorded = 3
SYMMETRY Symmetric
INVARIANTS
  RecordsTypeOK
  VotesAreCarriedOnce
  VotesAreNotLost
  OneInForce
  ReportsStandOnTheirFigures
  ProofsTellHistories
  EveryQuorumOpensTheSum
  PaymentsFollowApprovals
  NoGiftEscapesTheAggregate
PROPERTIES
  BooksStand
  DeliversItsLog
  DisposalIsLawful
CHECK_DEADLOCK FALSE
