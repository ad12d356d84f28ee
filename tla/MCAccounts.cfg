SPECIFICATION Spec
CONSTANTS
  u1 = u1
  u2 = u2
  u3 = u3
  t1 = t1
  t2 = t2
  c1 = c1
  c2 = c2
  None = None
  Users <- MCUsers
  Tokens <- MCTokens
  Slots <- MCSlots
  Clients <- MCClients
  Renewals = 3
SYMMETRY Symmetry
INVARIANTS
  NotLockedOut
  SomeRoot
  AttemptsBound
  NoLateRenewal
  SessionsHaveUsers
  SettingsKept
