SPECIFICATION Spec
CONSTANTS
  p1 = p1
  p2 = p2
  f1 = f1
  f2 = f2
  c1 = c1
  c2 = c2
  None = None
  Printers <- MCPrinters
  Files <- MCFiles
  Slots <- MCSlots
  Sessions = 4
  Order <- MCOrder
  Clients <- MCClients
SYMMETRY Symmetry
INVARIANTS
  CacheFollows
  ThumbnailAgrees
  NoStuckUploads
PROPERTY CleanSpares
