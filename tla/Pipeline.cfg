SPECIFICATION Spec
CONSTANTS
  Tasks <- AllTasks
  Constructs <- SomeConstructs
  Executes <- SomeExecutes
  Verifies <- SomeVerifies
  ReleaseLimit = 0
INVARIANTS RecordMatchesGraph TransitionsAllowed PublishedIsWhole
PROPERTIES VerdictFinal EveryRunEnds ImplementsOutcome
CHECK_DEADLOCK FALSE
