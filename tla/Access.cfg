SPECIFICATION AccessSpec
CONSTANTS
  a1 = a1
  a2 = a2
  a3 = a3
  a4 = a4
  p1 = p1
  p2 = p2
  r1 = r1
  v1 = v1
  v2 = v2
  none = none
  TrustWorkers = {p1, p2}
  Nobody = none
  Units = {a2, a3}
  Digests = {r1}
  MaxMints = 2
  MaxIssuerCrashes = 1
  MaxRefusedCommits = 1
  EventIds = {1, 2}
  Emissions <- MCEmissions
  MaxTries = 2
  Actors = {a1, a2, a3}
  Subjects = {a1}
  NoActor = none
  GrantIds = {r1}
  SessionIds = {p1, p2}
  RequiredApprovers = 1
  MaxOperations = 1
  Records = {r1}
  Readers = {p1, p2}
  NoReader = none
  Queries = {a1}
  PolicyVersions = {v1, v2}
  MaxInstants = 2
  Officers = {a1, a2, a3}
  NoOfficer = none
  Exports = {r1}
  Artifacts = {r1}
  AccessLimit = 1
  MaxHours = 2
  Guards = {a1, a2, a3, a4}
  NoGuard = none
  Emergencies = {r1}
  MaxRequests = 2
  AuthorityGrants <- MCGrants
  MaxChanges = 1
  InterventionIds = {p1, p2}
  NoExecutor = none
  MaxMoment = 1
  MaxInterventionActs = 7
  DocumentActors = {a1, a2, a3}
  ReviewKinds = {v1}
  Requirements = {{v1}, {}}
  ReviewIds = {p1, p2}
  EvidenceIds = {r1}
  BundleIds = {r1}
  NoOne = none
  MaxRegistered = 2
  MaxDocumentChanges = 6
  MaxDocumentVersions = 2
  MaxCustody = 2
SYMMETRY Symmetric
INVARIANTS
  AccessTypeOK
  ClaimedMeansAssertion
  AssertionsAreRationed
  PickupsServeOnce
  AccessLeavesEvidence
  AnswersAreDueAndAudited
  ExportsWereApproved
  EmergenciesAreGoverned
  DocumentsAreGoverned
PROPERTIES
  CommandsAreWhole
  InterventionsAreGoverned
CHECK_DEADLOCK FALSE
