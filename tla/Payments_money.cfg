\* Both methods, three requests, two refunds.
SPECIFICATION Spec
CONSTANTS
  h1 = h1
  h2 = h2
  h3 = h3
  r1 = r1
  r2 = r2
  Handlers = {h1, h2, h3}
  Refunds = {r1, r2}
  Methods = {"BANK_TRANSFER", "CASH_ON_DELIVERY"}
  Confirmable = {0, 2}
  MaxRefund = 2
  MayAbort = TRUE
SYMMETRY RequestSymmetry
\* A closed order with no request left is the normal end.
CHECK_DEADLOCK FALSE
INVARIANT TypeOK
INVARIANT RefundedMeansAll
INVARIANT GateNeedsConfirmation
INVARIANT ClosedWithOrder
PROPERTY ConfirmedOnce
PROPERTY PromiseKept
