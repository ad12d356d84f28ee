SPECIFICATION FairSpec
CONSTANTS
  p1 = p1
  t1 = t1
  t2 = t2
  a1 = a1
  a2 = a2
  w1 = w1
  w2 = w2
  None = None
  Printers <- MCPrinters
  Tests <- MCTests
  Adapters <- MCAdapters
  Sockets <- MCSockets
  Clients <- MCClients
CHECK_DEADLOCK FALSE
INVARIANTS
  AuthenticatedIsLive
  PurgedIsSilent
  TestCleansUp
PROPERTY ShowsPrinter
