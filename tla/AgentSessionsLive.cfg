CONSTANTS
  Agents = {a1}
  p1 = p1
  p2 = p2
  u1 = u1
  Players = {p1, p2}
  Accounts = {u1}
  AccountOf <- MCAccountOf
  None = None
  Left = Left
  Callbacks = {c1}
  Relogin = TRUE
  LockExpires = TRUE
  MaxSessions = 2
  MaxPending = 1
SPECIFICATION FairSpec
CHECK_DEADLOCK FALSE
INVARIANTS
  LiveIsRegistered
PROPERTIES
  StopCompletes
  CallbackReturns
