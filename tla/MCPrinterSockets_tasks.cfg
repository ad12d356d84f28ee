SPECIFICATION FairSpec
CONSTANTS
  Printers = {p1}
  Adapters = {a1, a2}
  Sockets = {w1, w2, w3}
  None = None
  Disturbances <- AllDisturbances
  Budget = 3
INVARIANTS
  OneSession
  PurgedIsGone
  SocketFollowsLogin
PROPERTIES
  TasksPickUp
  ReauthServed
  ImplementsRounds
