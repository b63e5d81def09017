SPECIFICATION Spec
CONSTANTS
  FactDigest <- CollidingFactDigest
  DecisionDigest <- CollidingDecisionDigest
  RecordDigest <- CollidingRecordDigest
  Facts <- MCFacts
  Specifications <- MCSpecifications
  Offers <- MCOffers
  Authorities <- MCAuthorities
  Suites <- MCSuites
  CheckSets <- MCCheckSets
  Observations <- MCObservations
  Policies <- MCPolicies
  Retrieved <- MCRetrieved
  MaxRecords = 3
INVARIANTS
  TypeOK
  LinksHonoured
  SnapshotRoundTrip
  AuthorityEarned
PROPERTIES
  AdmissionsAreWhole
