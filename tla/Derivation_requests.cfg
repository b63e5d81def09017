SPECIFICATION Spec
CONSTANTS
  FactDigest <- MCFactDigest
  DecisionDigest <- MCDecisionDigest
  RecordDigest <- MCRecordDigest
  OfferOf <- MCOfferOf
  MaxInputs = 2
  Facades <- MCFacades
  Sources <- MCSources
  Goals <- MCGoals
  Replies <- MCReplies
  CheckSets <- MCCheckSets
  MaxRecords = 3
INVARIANTS
  GroundedInTheRequest
  AdmittedIsReported
  AssessedAsSelected
  NonExecutionExplained
  FailuresAreTheHosts
  UniqueMeansUnique
PROPERTIES
  SourcesAllOrNothing
  EveryRequestAnswered
