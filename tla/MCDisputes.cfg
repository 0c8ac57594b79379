SPECIFICATION Spec
CONSTANTS
  Orders = {o1}
  Clients = {c1}
  Buyers = {b1}
  Hooks = {h1}
  Dispatcher = {d1}
  Parties = {p1}
  Witnesses = {e1}
  Staff = {a1}
  Sweepers = {}
  Officers = {}
  Callers = {c1, h1, d1, p1, a1}
  Terms <- OneShot
  Total = 100
  RatePct = 8
  MaxPayments = 1
  MaxDeliveries = 1
  MaxDisputes = 1
  MaxEdits = 2
  MaxCrashes = 1
  Refunds = {30}
INVARIANT Conservation
INVARIANT PaidOutBeforeClosing
INVARIANT DisputedHasRow
CHECK_DEADLOCK FALSE
