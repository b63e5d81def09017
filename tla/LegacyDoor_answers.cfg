\* A caller at the bootstrap door: every answer is the true one, and every
\* fact it holds can be traced to what it started from.
CONSTANTS
    Kinds <- MCKinds
    Packs <- MCPacks
    Descriptors <- MCDescriptors
    Behaviours <- MCBehaviours
    Attesters <- MCAttesters
    Policy <- MCPolicy
    CheckLists <- MCCheckLists
    Suites <- MCSuites
    OutputLists <- MCOutputLists
    Initial <- MCInitial
    MaxHeld = 3
SPECIFICATION Spec
INVARIANTS
    LegacyAnswersExact
    FactsAreGrounded
