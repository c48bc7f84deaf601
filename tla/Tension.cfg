SPECIFICATION BoundedSpec
CONSTANTS
  review = review
  verify = verify
  security = security
  NoGroup = NoGroup
  AnyScope = AnyScope
  Actor <- ThreeActors
  Identity <- Identities
  Statement <- Statements
  Offer <- Offers
  s1 = s1
  s2 = s2
  s3 = s3
  SubmissionId = {s1, s2, s3}
  Unfiled = Unfiled
  Policies <- ThePolicies
  Kind <- Kinds
  Obligation = {"claim"}
  Group = {"tests", "formal"}
  Dependency = {}
  Unit = 40
  NLog <- MCNLog
  Callers <- ThreeHypotheses
  Lists <- TwoLists
  Tests <- TestLists
  Results <- TheResults
  MaxReports = 2
INVARIANTS TensionIsConflict RecommendedTells ResultsCountForWhatTheyTell ExcludedResolvesNothing
PROPERTY RepeatsDoNotScore
SYMMETRY Symmetric
