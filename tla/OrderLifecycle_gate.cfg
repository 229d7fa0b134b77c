\* Requests that overtake the last step of the order's checkout.
SPECIFICATION Spec
CONSTANTS
  o1 = o1
  h1 = h1
  h2 = h2
  NoHandler = NoHandler
  Orders = {o1}
  Handlers = {h1, h2}
  Ops = {"accept", "partial", "cancel", "carrier", "fulfil", "cancelShipment"}
  Fresh = {o1}
  BankTransfer = {o1}
  MayAbort = TRUE
  Qty <- TwoEach
  Stock = 3
SYMMETRY HandlerSymmetry
\* Every order may end in a terminal status with no request left.
CHECK_DEADLOCK FALSE
INVARIANT StockMatchesLedger
