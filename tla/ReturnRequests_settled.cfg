\* One return, with the settlements of its order: calculated, paid, adjusted.
SPECIFICATION Spec
CONSTANTS
  h1 = h1
  h2 = h2
  q1 = q1
  f1 = f1
  f2 = f2
  s1 = s1
  s2 = s2
  NoReturn = NoReturn
  Handlers = {h1, h2}
  Requests = {q1}
  Refunds = {f1, f2}
  Settlements = {s1, s2}
  Ordered = 2
  NetGoods = 2
  Commission = 2
  MayAbort = TRUE
  BuyerKeys = {q1}
SYMMETRY RowSymmetry
\* Returns that ended with no row left for another are the normal end.
CHECK_DEADLOCK FALSE
INVARIANT CreditedWithinLedger
