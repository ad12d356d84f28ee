SPECIFICATION Spec
CONSTANTS
  p1 = p1
  p2 = p2
  f1 = f1
  f2 = f2
  c1 = c1
  c2 = c2
  offline = offline
  r1 = r1
  r2 = r2
  None = None
  Pending = Pending
  PrinterIds <- MCPrinterIds
  FloorIds <- MCFloorIds
  Conns <- MCConns
  Reasons <- MCReasons
  Cells <- MCCells
  FloorNames = {"A", "B"}
  Levels = {0, 1}
  GroupIds = {1, 2}
  GroupNames = {"A", "B"}
  NameOf <- MCNameOf
  UrlOf <- MCNameOf
  Files <- MCFiles
  Clients <- MCClients
  Slots <- MCSlots
SYMMETRY Symmetry
INVARIANTS
  CachesAgree
  OnePlace
  AsAsked
  ReimportIdempotent
PROPERTIES
  NoLostPlace
  NoCollateral
