\* Two sub-orders, one of them paid by bank transfer; three recalculations.
SPECIFICATION Spec
CONSTANTS
  o1 = o1
  o2 = o2
  h1 = h1
  h2 = h2
  h3 = h3
  NoHandler = NoHandler
  Orders = {o1, o2}
  Handlers = {h1, h2, h3}
  BankTransfer = {o2}
  MayFail = TRUE
SYMMETRY MasterSymmetry
\* Every sub-order may end in a terminal status with no recalculation left.
CHECK_DEADLOCK FALSE
INVARIANT TypeOK
INVARIANT EndingIsTrue
