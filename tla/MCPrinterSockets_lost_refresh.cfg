SPECIFICATION FairSpec
CONSTANTS
  Printers = {p1}
  Adapters = {a1}
  Sockets = {w1, w2, w3}
  None = None
  Disturbances <- OneRefresh
  Budget = 2
PROPERTY
  Recovers
