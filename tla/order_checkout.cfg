SPECIFICATION CheckoutSpec
CONSTANTS
  hull = hull  engine = engine  weapon = weapon
  c1 = c1
  Malformed = Malformed
  NoPart = NoPart
  None = None
  Int64Bound = 8
  PartIds = {hull, engine, weapon}
  Raws = {hull, engine, weapon}
  Parse <- MCParse
  Rows <- MCRows
  RawLists <- MCRawLists
  PartTypes = {0}
  Calls = {c1}
  Ships <- MCShips
  MaxVersions = 4
INVARIANTS
  PricedLive
  RefusedJustly
  TotalExact
CHECK_DEADLOCK FALSE
