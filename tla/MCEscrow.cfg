SPECIFICATION FairSpec
CONSTANTS
  Orders = {o1}
  Clients = {c1}
  Buyers = {b1}
  Hooks = {h1}
  Dispatcher = {d1}
  Parties = {}
  Witnesses = {}
  Staff = {}
  Sweepers = {s1}
  Officers = {}
  Callers = {c1, h1, d1, s1}
  Terms <- OneShot
  Total = 100
  RatePct = 8
  MaxPayments = 2
  MaxDeliveries = 2
  MaxDisputes = 0
  MaxEdits = 0
  MaxCrashes = 0
  Refunds = {}
INVARIANT EscrowBeforeProgress
INVARIANT CancelledHoldsNothing
INVARIANT MoneyOnce
PROPERTY ImplementsSale
PROPERTY AbandonedIsSwept
PROPERTY PaymentAdvancesOrder
CHECK_DEADLOCK FALSE
