SPECIFICATION ReadersSpec
CONSTANTS
  Tasks <- NearlyRipeTasks
  NewNodes <- Nothing
  NewRelations <- Nothing
  Reasons <- Nothing
  TransferRelations <- Default
  MaxNodes = 6
  MaxEdges = 2
  Worker = {w1, w2}
  Portfolios <- Duties
  Outcomes <- Ways
  Budgets <- TwoBudgets
  Unlimited = Unlimited
  MaxAttempts = 5
SYMMETRY AnyWorker
INVARIANTS
  FruitlessAttemptsAreBounded
  HandoversAreDue
PROPERTIES ReleaseIsKept
CHECK_DEADLOCK FALSE
