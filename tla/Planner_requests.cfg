SPECIFICATION PlannerSpec
CONSTANTS
  Inventories <- MCInventories
  Upgrades <- MCUpgrades
  InitialKinds <- MCInitialKinds
  GoalsFor <- MCGoals
  Availability <- MCAvailability
INVARIANTS
  RoutesExact
  PlanAcceptsItself
  NeedsUnblock
  DiagnosisExact
