SPECIFICATION Spec
CONSTANTS
  Tasks <- SelfClearingTasks
  Constructs <- Succeed
  Executes <- FewExecutes
  Verifies <- KernelVerifies
  ReleaseLimit = 0
PROPERTIES InitialNeverAutoCleared
CHECK_DEADLOCK FALSE
