SPECIFICATION LaterSpec
CONSTANTS
  mo = mo
  vp = vp
  md = md
  svc = svc
  etl = etl
  t1 = t1
  t2 = t2
  NoUser = NoUser
  NoLob = NoLob
  NoCall = NoCall
  Users <- Everyone
  Lobs <- MCLobs
  ProfitCenters <- MCLobs
  Directory <- MCDirectory
  MaxTerm = 3
  Tasks = {t1, t2}
  Requests <- LaterRequests
  ServiceUser = svc
  DelegatedRoles = {"INSTRUCTION_VIEWER", "INSTRUCTION_MARKER"}
  Unrecorded = {etl}
  MaxCalls = 6
  MaxNow = 1
INVARIANTS
  HistoryCumulative
CHECK_DEADLOCK FALSE
