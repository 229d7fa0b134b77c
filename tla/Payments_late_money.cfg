\* A proof submitted while the order is being cancelled.
SPECIFICATION Spec
CONSTANTS
  h1 = h1
  h2 = h2
  r1 = r1
  Handlers = {h1, h2}
  Refunds = {r1}
  Methods = {"BANK_TRANSFER"}
  Confirmable = {1}
  MaxRefund = 1
  MayAbort = FALSE
\* A closed order with no request left is the normal end.
CHECK_DEADLOCK FALSE
PROPERTY CancelledTakesNoMoney
