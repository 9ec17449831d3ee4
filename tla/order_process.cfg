SPECIFICATION FairProcessSpec
CONSTANTS
  hull = hull  engine = engine
  o1 = o1  o2 = o2  o3 = o3
  r1 = r1  r2 = r2
  t1 = t1  t2 = t2
  None = None
  NoOrder = NoOrder
  PartIds = {hull, engine}
  Catalog <- MCCatalog
  Int64Bound = 16
  OrderIds = {o1, o2, o3}
  Txns = {t1, t2}
  Methods = {"CARD"}
  Ships <- MCShips
  Requests = {r1, r2}
  Stored = {o1}
  PoolSize = 1
INVARIANTS
  PoolAccounted
PROPERTIES
  ImplementsService
  ExitAbandonsNoTransaction
  StopEnds
  Answered
  PaymentTakesEffect
