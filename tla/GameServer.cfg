SPECIFICATION FairSpec
CONSTANTS
  w1 = w1
  w2 = w2
  o1 = o1
  o2 = o2
  o3 = o3
  p1 = p1
  s1 = s1
  Ops = {o1, o2, o3}
  None = None
  Workers = {w1, w2}
  Consumers = {c1, c2}
  MaxWorkerOps = 2
  OpChanSize = 1
  WorkerOf <- MCWorkerOf
  Items = {i1, i2}
  Level <- MCLevel
  LoadBatchSize = 1
  MaxFuncs = 4
  Priorities = {0, 1, 2}
  MaxPublishes = 1
  NoTable = NoTable
  Players = {p1}
  Server = s1
  OwnerOf <- MCOwnerOf
  MaxRequests = 1
  SuffixOf <- MCSuffixOf
  CommonFor <- MCCommonFor
  MaxLines = 2
  MaxFiles = 2
CHECK_DEADLOCK FALSE
INVARIANTS TypeOK RunsWithEverything AnswersGoOut NothingAfterDisconnect TableIsWhole AfterLoadOrder
  RegistersEachOnce
PROPERTIES OpsLiveOnce StopReturns
