SPECIFICATION ArtifactsSpec
CONSTANTS
  n1 = n1
  n2 = n2
  Name <- MCName
  Types <- MCTypes
  Values <- MCValues
  Questions <- MCQuestions
  Contexts <- MCContexts
  MaxNodes = 60
  MaxDepth = 16
  MaxUniverse = 2
  MaxDeclarations = 2
  old = old
  new = new
  NoDigest = NoDigest
  Digests <- MCDigests
  EditedProofs <- MCEditedProofs
  MaxRuns = 2
  MaxEdits = 1
  A = A
  B = B
  Bench = Bench
  Runner <- MCRunner
  Identity <- RunnerIdentities
  Claim <- TheReceipts
  Offers <- TheReceipts
  q1 = q1
  q2 = q2
  q3 = q3
  ReceiptId = {q1, q2, q3}
  External = External
  NoSignature = NoSignature
  Policies <- ReceiptPolicies
  MaxAlterations = 1
  calc = calc
  extra = extra
  cache = cache
  good = good
  bad = bad
  was = was
  Absent = Absent
  Path = {calc, extra, cache}
  Content = {good, bad, was}
  Trees <- TheTrees
  Tasks <- TheTasks
  r1 = r1
  r2 = r2
  e1 = e1
  e2 = e2
  pid1 = pid1
  key = key
  NoSecret = NoSecret
  Nothing = Nothing
INVARIANTS
  KernelIsSound
  TypesArePreserved
  BundlesAreProofs
  ReproductionsAreBacked
  DeliveryKeepsContract
PROPERTIES
  RejectionsAreHeeded
  EverythingEnds
