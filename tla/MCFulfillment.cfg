SPECIFICATION Spec
CONSTANTS
  t1 = t1
  x1 = x1
  x2 = x2
  m1 = m1
  m2 = m2
  s1 = s1
  s2 = s2
  f1 = f1
  u1 = u1
  k1 = k1
  r1 = r1
  r2 = r2
  p1 = p1
  p2 = p2
  g1 = g1
  i1 = i1
  i2 = i2
  y1 = y1
  PartyCerts = {c1}
  Permits = {x1, x2}
  Docs = {d1, d2}
  Dates = {0, 2}
  Buckets = {1, 2}
  Members = {m1, m2}
  Staff = {a1}
  Scans = {s1, s2}
  Teams <- Teamwork
  MaxDay = 2
  Orders = {o1}
  Types = {t1}
  Filers = {f1}
  Uploads = {u1}
  Copiers = {k1}
  MaxCopies = 2
  Required = {t1}
  Registrars = {r1, r2}
  Shippers = {p1, p2}
  Loggers = {g1}
  Temperatures = {0, 3}
  MaxShipments = 2
  MaxLogs = 2
  Species = {e1, e2}
  Base <- Bases
  Age <- Ages
  Kg = {1, 2}
  Inspectors = {i1, i2}
  Migrators = {y1}
SYMMETRY Interchangeable
INVARIANT RemindersKept
INVARIANT FilesAreStored
INVARIANT ShipmentsKept
INVARIANT PermitsKept
CHECK_DEADLOCK FALSE
