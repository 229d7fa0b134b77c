\* The operations that flip the order with a WHERE on its status: one order, two requests.
SPECIFICATION Spec
CONSTANTS
  o1 = o1
  h1 = h1
  h2 = h2
  NoHandler = NoHandler
  Orders = {o1}
  Handlers = {h1, h2}
  Ops = {"accept", "transition", "cancel", "deliver", "carrier", "fulfil",
         "report", "retry", "rtsRequest", "rtsApprove", "rtsReject",
         "rtsComplete", "rtsLost"}
  Fresh = {}
  BankTransfer = {o1}
  MayAbort = TRUE
  Qty <- TwoEach
  Stock = 3
\* Every order may end in a terminal status with no request left.
CHECK_DEADLOCK FALSE
INVARIANT SettledOnce
INVARIANT ReservedOnce
INVARIANT SettlementMatchesStatus
INVARIANT ShipmentOutcomeAgrees
PROPERTY StatusEdges
