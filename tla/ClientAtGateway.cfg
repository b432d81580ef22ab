SPECIFICATION Spec
CONSTANTS
  g1 = g1
  g2 = g2
  a1 = a1
  Nodes = {g1, g2, a1}
  NodeGame = "game"
  CategoryOf <- MCCategoryOf
  ServerOf <- MCServerOf
  FirstNodes = {g1, g2, a1}
  Movers = {g1}
  MaxEvents = 2
  Nowhere = Nowhere
  PlayerServer = 1
  Commands <- MCCommands
  MaxSeq = 3
  MaxTickers = 2
  ItemIds = {1}
  InitItems <- MCInitItems
  MaxNum = 3
CHECK_DEADLOCK FALSE
INVARIANTS
  TypeOK
  RingFollowsCenter
  LocatedOnItsServer
  HandlersFindAll
  OwnResponse
  PushFollowsResponse
PROPERTIES
  StopEndsClients
