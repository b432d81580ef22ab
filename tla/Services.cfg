SPECIFICATION MCSpec
CONSTANTS
  Requests = {r1, r2, r3}
  Users = {u1, u2}
  Servers = {s1, s2}
  Creators = {p1, p2}
  MaxPerAccount = 2
  MaxPerServer = 1
  Expiry = 2
  Latency = 1
SYMMETRY Symmetry
CHECK_DEADLOCK FALSE
INVARIANTS
  TypeOK
  OneAccountPerUser
  LimitUnderLock
  ReportedIsPlayable
  ReportedServerRuns
  CharactersHaveServers
  TokenNamesOwner
