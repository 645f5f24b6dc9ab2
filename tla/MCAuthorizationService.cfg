SPECIFICATION FairSpec
CONSTANTS
  NoUser = NoUser
  NoLob = NoLob
  mo = mo
  as = as
  vp = vp
  md = md
  fx = fx
  svc = svc
  Users = {mo, as, vp, md, fx, svc}
  Lobs = {"FICC", "FX"}
  ProfitCenters = {"FICC", "FX"}
  Directory <- MCDirectory
  Staff <- MCStaff
  MaxTerm = 2
  AbsoluteLimit = 3
  Callers = {1}
  Questions <- MCQuestions
  UploadRetries = 3
  MaxNow = 1
  MaxFaults = 1
  MaxSeeds = 2
INVARIANTS
  TypeOK
  FailsClosed
  ExplainedDecision
  AlertFollowsList
  EligibleIsComplete
PROPERTIES
  SuccessMeansComplete
  SeedEnds
CHECK_DEADLOCK FALSE
