SPECIFICATION SerialSpec
CONSTANTS
  hull = hull  engine = engine  sold = sold  ghost = ghost
  o1 = o1  o2 = o2  o3 = o3
  r1 = r1  r2 = r2  r3 = r3
  t1 = t1  t2 = t2  t3 = t3
  None = None
  NoOrder = NoOrder
  PartIds <- MCPartIds
  Catalog <- MCCatalog
  Int64Bound = 16
  OrderIds = {o1, o2}
  Txns = {t1, t2, t3}
  Methods = {"CARD", "SBP"}
  Ships <- MCShips
  Requests = {r1, r2, r3}
  Stored = {o1}
INVARIANTS
  PaysOnce
  AnswersStand
  UnrecordedChargeFailed
  ChargedTwiceOnlyInDoubt
PROPERTIES
  ImplementsLifecycle
SYMMETRY Symmetry
