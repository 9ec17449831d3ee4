SPECIFICATION Spec
CONSTANTS
  hull = hull  engine = engine
  c1 = c1
  Malformed = Malformed
  NoPart = NoPart
  PartIds = {hull, engine}
  Raws <- MCRaws
  Parse <- MCParse
  Rows <- MCRows
  RawLists <- MCRawLists
  PartTypes = {0, 1, 9}
  Calls = {c1}
  MaxVersions = 4
INVARIANTS
  PartsWereLive
  RefusalJustified
  ListingIsSnapshot
  MeetsContract
