SPECIFICATION Spec
CONSTANTS
  Tasks <- GatedTasks
  Constructs <- SomeConstructs
  Executes <- FewExecutes
  Verifies <- SomeVerifies
  ReleaseLimit = 0
INVARIANTS DeferralsNameRetryConditions
CHECK_DEADLOCK FALSE
