SPECIFICATION Spec
CONSTANTS
  review = review
  verify = verify
  security = security
  NoGroup = NoGroup
  AnyScope = AnyScope
  Actor <- ThreeActors
  Identity <- Identities
  Statement <- Offers
  Offer <- Offers
  s1 = s1
  s2 = s2
  s3 = s3
  SubmissionId = {s1, s2, s3}
  Unfiled = Unfiled
  Policies <- ThePolicies
  Obligation = {"o"}
  Group = {"tests", "formal", "scan"}
  Dependency = {}
PROPERTIES VetoBlocks
