SPECIFICATION Spec
CONSTANTS
  Orders = {o1}
  Clients = {c1, c2}
  Buyers = {b1}
  Hooks = {h1}
  Dispatcher = {}
  Parties = {}
  Witnesses = {}
  Staff = {}
  Sweepers = {}
  Officers = {f1}
  Callers = {c1, c2, h1}
  Terms <- DepositAndBalance
  Total = 100
  RatePct = 8
  MaxPayments = 2
  MaxDeliveries = 1
  MaxDisputes = 0
  MaxEdits = 0
  MaxCrashes = 0
  Refunds = {}
SYMMETRY ClientSymmetry
INVARIANT TypeOK
INVARIANT PaidUpBeforeShipping
INVARIANT OutboundOnce
PROPERTY TransitionFollowsTable
CHECK_DEADLOCK FALSE
