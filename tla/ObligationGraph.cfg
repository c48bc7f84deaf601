SPECIFICATION Spec
CONSTANTS
  Tasks <- SmallTasks
  NewNodes <- OneDuty
  NewRelations <- Reinforcing
  Reasons <- OneReason
  TransferRelations <- Default
  MaxNodes = 3
  MaxEdges = 2
INVARIANTS TypeOK ConservationLaw Acyclic
PROPERTIES AccountabilityKept NothingErased RaisingSettlesNothing ActiveSetExplained ImplementsPromise
CHECK_DEADLOCK FALSE
