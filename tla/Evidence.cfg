SPECIFICATION EvidenceSpec
CONSTANTS
  review = review
  verify = verify
  security = security
  NoGroup = NoGroup
  AnyScope = AnyScope
  Actor <- ThreeActors
  Identity <- Identities
  Statement <- Statements
  Offer <- Offers
  s1 = s1
  s2 = s2
  SubmissionId = {s1, s2}
  Unfiled = Unfiled
  Policies <- ThePolicies
  Obligation = {"o"}
  Group = {"tests", "formal", "scan"}
  Dependency = {"schema"}
  Repository = {1, 2, 3}
  Node = {1, 2}
  Part <- Parts
  RepositoryName <- RepositoryNames
  NodeName <- NodeNames
  FirstGraphs <- Graphs
  NoPin = NoPin
  NoMetadata = NoMetadata
  NoRepository = NoRepository
  MaxLinks = 1
  MaxChanges = 1
  r1 = r1
  r2 = r2
  e1 = e1
  e2 = e2
  pid1 = pid1
  pid2 = pid2
  Run = {r1, r2}
  Evaluators <- TwoEvaluators
  Keys = {e1, e2}
  EvaluatorQuorum = 2
  Pids = {pid1, pid2}
  Predictions <- Answers
  Metrics <- Scores
  key = key
  Secrets = {key}
  NoSecret = NoSecret
  Nothing = Nothing
INVARIANTS
  DecisionsAreBacked
  SupportIsMonotone
  MergeIsFaithful
  ReproductionIsGenuine
PROPERTY
  ObjectionsStand
SYMMETRY Symmetric
