SPECIFICATION Spec
CONSTANTS
  u1 = u1
  u2 = u2
  b1 = b1
  b2 = b2
  t1 = t1
  t2 = t2
  t3 = t3
  k1 = k1
  k2 = k2
  k3 = k3
  k4 = k4
  a1 = a1
  a2 = a2
  d1 = d1
  d2 = d2
  e1 = e1
  o1 = o1
  Users = {u1, u2}
  Internal = {u1}
  Browsers = {b1, b2}
  Owner <- Owners
  Tabs = {t1, t2, t3}
  BrowserOf <- Tabbed
  Calls = {k1, k2, k3, k4}
  TabOf <- Calling
  REFRESH_GRACE = 2
  Latency = 1
  MaxClock = 3
  MaxSessions = 4
  MaxTokens = 1
  Orders = {o1}
  PartiesOf <- Trade
  Submitters = {d1, d2, e1}
  Asks <- Asked
  Clerks = {a1, a2}
  MaxRequests = 3
  Teams <- Teamwork
INVARIANT RequestsKept
PROPERTY SessionsHold
 
CHECK_DEADLOCK FALSE
