SPECIFICATION Spec
CONSTANTS
  Tasks <- NearlyRipeTasks
  NewNodes <- Nothing
  NewRelations <- Nothing
  Reasons <- OneReason
  TransferRelations <- Default
  MaxNodes = 6
  MaxEdges = 2
INVARIANTS PromotedDutiesSatisfied
CHECK_DEADLOCK FALSE
