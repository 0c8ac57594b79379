SPECIFICATION Spec
CONSTANTS
  Orgs <- Companies
  NameOf <- Names
  Real = {"HZB", "Jinglin", "Tuopai", "Liangmei"}
  Casts <- Scenes
  LotQty <- Kilos
  OrderQty <- Ordered
  FARMS = 2
  MaxRuns = 3
  MaxCrashes = 1
  Sellers <- Suppliers
  Purges = {"clean", "smoke1"}
  TestNames <- TestedBy
  MaxDeals = 1
  MaxAborts = 1
 
INVARIANT PurgedClean
PROPERTY RealUntouched
CHECK_DEADLOCK FALSE
