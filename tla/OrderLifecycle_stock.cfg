\* Every operation but the manual transition on one order, two requests at a time.
SPECIFICATION Spec
CONSTANTS
  o1 = o1
  h1 = h1
  h2 = h2
  NoHandler = NoHandler
  Orders = {o1}
  Handlers = {h1, h2}
  Ops = {"accept", "partial", "reject", "cancel", "deliver", "carrier",
         "fulfil", "report", "retry", "rtsRequest", "rtsApprove",
         "rtsReject", "rtsComplete", "rtsLost", "return",
         "cancelShipment"}
  Fresh = {}
  BankTransfer = {o1}
  MayAbort = TRUE
  Qty <- TwoEach
  Stock = 3
SYMMETRY HandlerSymmetry
\* Every order may end in a terminal status with no request left.
CHECK_DEADLOCK FALSE
INVARIANT TypeOK
INVARIANT NoOversell
INVARIANT ReturnsCapped
INVARIANT LostNeverRestocked
