SPECIFICATION Spec
CONSTANTS
  Suppliers = {s1, s2}
  Contracts = {k1}
  Cap = 1
  Stock = 1
  Placers = {p1}
  Rfqs = {f1}
  Submitters = {q1, q2}
  Acceptors = {a1}
  Brokers = {b1, b2}
  Matchers = {m1}
  Teams <- Teamwork
  MaxOrders = 2
  MaxAdds = 1
  MaxQuotes = 3
  MaxOpportunities = 2
  MaxTouches = 1
  Bills = {o1}
  Quantities <- Weights
  TierLists <- Ladders
  TermLists <- Agreed
  Rules <- Rulebook
SYMMETRY Symmetry
INVARIANT BillsHold
PROPERTY PlacingKept
PROPERTY TendersKept
PROPERTY OpportunitiesKept
CHECK_DEADLOCK FALSE
