SPECIFICATION LaterFairSpec
CONSTANTS
  mo = mo
  vp = vp
  md = md
  svc = svc
  etl = etl
  t1 = t1
  t2 = t2
  NoUser = NoUser
  NoLob = NoLob
  NoCall = NoCall
  Users <- Recorded
  Lobs <- MCLobs
  ProfitCenters <- MCLobs
  Directory <- MCDirectory
  MaxTerm = 3
  Tasks = {t1, t2}
  Requests <- LaterRequests
  ServiceUser = svc
  DelegatedRoles = {"INSTRUCTION_VIEWER", "INSTRUCTION_MARKER"}
  Unrecorded = {}
  MaxCalls = 6
  MaxNow = 0
INVARIANTS
  ProvenanceMatchesStatus
  DualControlOfSuspension
  LawfulDescent
PROPERTIES
  AppendOnly
  EveryCallEnds
CHECK_DEADLOCK FALSE
