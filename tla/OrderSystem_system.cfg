\* The two sub-orders of a master order, one unit on the shelf for both of them.
SPECIFICATION SystemSpec
CONSTANTS
  o1 = o1
  o2 = o2
  h1 = h1
  h2 = h2
  NoHandler = NoHandler
  Orders = {o1, o2}
  Handlers = {h1, h2}
  Ops = {"accept", "carrier", "fulfil"}
  Fresh = {}
  BankTransfer = {o2}
  MayAbort = TRUE
  Qty <- OneEach
  Stock = 1
SYMMETRY HandlerSymmetry
\* Every order may end in a terminal status with no request left.
CHECK_DEADLOCK FALSE
PROPERTY StockKept
PROPERTY MasterFollows
