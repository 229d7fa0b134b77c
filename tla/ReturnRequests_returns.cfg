\* Two requests at a time on up to two returns of an order of one unit.  The buyer may use the
\* refund key of q1, for a refund of another payment or of the unit.
SPECIFICATION Spec
CONSTANTS
  h1 = h1
  h2 = h2
  q1 = q1
  q2 = q2
  f1 = f1
  f2 = f2
  NoReturn = NoReturn
  Handlers = {h1, h2}
  Requests = {q1, q2}
  Refunds = {f1, f2}
  Settlements = {}
  Ordered = 1
  NetGoods = 1
  Commission = 1
  MayAbort = TRUE
  BuyerKeys = {q1}
SYMMETRY RowSymmetry
\* Returns that ended with no row left for another are the normal end.
CHECK_DEADLOCK FALSE
INVARIANT TypeOK
INVARIANT OneActive
INVARIANT RestoredOnce
INVARIANT RefundedOnce
INVARIANT RefundedWithinOrder
INVARIANT ReversalsCapped
PROPERTY StepsTakeEdges
