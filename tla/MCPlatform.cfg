SPECIFICATION FairSpec
CONSTANTS
  t1 = t1
  t2 = t2
  s1 = s1
  s2 = s2
  s3 = s3
  z1 = z1
  w1 = w1
  w2 = w2
  c1 = c1
  c2 = c2
  a1 = a1
  a2 = a2
  b1 = b1
  r1 = r1
  r2 = r2
  r3 = r3
  m1 = m1
  m2 = m2
  k1 = k1
  q1 = q1
  x1 = x1
  e1 = e1
  e2 = e2
  v1 = v1
  v2 = v2
  g1 = g1
  h1 = h1
  u1 = u1
  i1 = i1
  y1 = y1
  d1 = d1
  d2 = d2
  o1 = o1
  Ticks = {t1, t2}
  BatchSize = 1
  MaxClock = 3
  MaxEvents = 3
  MaxFails = 1
  Teams <- Teamwork
  Senders = {s1, s2, s3, z1}
  Writer <- Authors
  Topic <- Themes
  Participants = {w1}
  Exempt = {w2}
  SuperAdmins = {a1, a2}
  Bells = {b1}
  Viewer <- Bellman
  MaxLate = 4
  MaxNotices = 6
  MaxDrops = 1
  Registrars = {r1, r2, r3}
  Email <- Addresses
  JumpMax = 2
  Clerks = {x1}
  Keepers = {k1}
  Requesters = {q1}
  HighFields = {"taxId", "legalRep"}
  LowFields = {"companyName"}
  Window = 1
  MaxParties = 2
  MaxContacts = 3
  MaxEscalations = 1
  Products = {1}
  Editors = {e1, e2}
  EditorOf <- Owned
  Reviewers = {v1, v2}
  Translators = {y1}
  Locales = {"en", "fr"}
  MaxTexts = 2
  Nurses = {g1}
  Butchers = {h1}
  Inspectors = {i1}
  Stockers = {u1}
  MaxCare = 2
  MaxBatches = 1
  MaxLots = 2
  Roles = {"*", "BUYER"}
  Readers = {d1, d2}
  RolesOf <- Allowed
  Officers = {o1}
  CACHE_TTL = 2
  Latency = 1
  MaxChanges = 1
INVARIANT NoticesArrive
INVARIANT FreezeHolds
INVARIANT PartiesKept
INVARIANT PolicyInForce
INVARIANT GuardsHold
PROPERTY ReviewedStays
PROPERTY AllPublished
CHECK_DEADLOCK FALSE
