SPECIFICATION Spec
CONSTANTS
  i = i
  p1 = p1
  p2 = p2
  Instruction = i
  Payments <- MCPayments
  Histories <- MCHistories
  Questions <- MCQuestions
  Limit = 1
  ScrollLimit = 2
INVARIANTS
  PaymentApproverIsActual
  KnownApproverIsNamed
  AbsenceIsObserved
CHECK_DEADLOCK FALSE
