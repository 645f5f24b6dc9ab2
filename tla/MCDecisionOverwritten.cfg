SPECIFICATION LaterSpec
CONSTANTS
  cr = cr
  fo = fo
  hd = hd
  t1 = t1
  t2 = t2
  ssi = ssi
  NoUser = NoUser
  NoLob = NoLob
  NoCall = NoCall
  NoPayment = NoPayment
  Users <- Everyone
  Lobs = {"FICC"}
  Staff <- MCStaff
  AbsoluteLimit = 5
  Tasks = {t1, t2}
  Instructions = {ssi}
  Terms <- MCTerms
  Colleagues = {hd}
  Amounts = {1, 3}
  MaxCalls = 4
  MaxVersions = 3
  MaxNow = 1
PROPERTIES
  OnlySubmittedIsDecided
CHECK_DEADLOCK FALSE
