SPECIFICATION Spec
CONSTANTS
  Orders = {o1}
  Clients = {c1}
  Buyers = {b1}
  Hooks = {h1}
  Dispatcher = {d1}
  Parties = {}
  Witnesses = {}
  Staff = {}
  Sweepers = {}
  Officers = {}
  Callers = {c1, h1, d1}
  Terms <- OneShot
  Total = 100
  RatePct = 8
  MaxPayments = 1
  MaxDeliveries = 1
  MaxDisputes = 0
  MaxEdits = 0
  MaxCrashes = 1
  Refunds = {}
INVARIANT EscrowNotOverdrawn
CHECK_DEADLOCK FALSE
