SPECIFICATION FairMemorySpec
CONSTANTS
  hull = hull  engine = engine  ghost = ghost
  o1 = o1  o2 = o2
  r1 = r1  r2 = r2  r3 = r3
  t1 = t1  t2 = t2
  None = None
  NoOrder = NoOrder
  PartIds = {hull, engine, ghost}
  Catalog <- MCCatalog
  Int64Bound = 16
  OrderIds = {o1, o2}
  Txns = {t1, t2}
  Methods = {"CARD"}
  Ships <- MCShips
  Requests = {r1, r2, r3}
  Stored = {}
PROPERTIES
  MemoryImplementsService
