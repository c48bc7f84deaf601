SPECIFICATION Spec
CONSTANTS
  j1 = j1
  j2 = j2
  j3 = j3
  Job <- ThreeJobs
  Workers = 2
  MaxRestarts = 1
INVARIANTS TypeOK SettledJobHasArtifact QueueIsAccounted
PROPERTIES StatusMovesForward EveryJobSettles RunsKeepPromise
CHECK_DEADLOCK FALSE
