SPECIFICATION Spec
CONSTANTS
  Printers = {p1}
  Adapters = {a1}
  Sockets = {w1, w2}
  None = None
  Disturbances <- OneUpdate
  Budget = 2
INVARIANT
  AuthMatchesUrl
