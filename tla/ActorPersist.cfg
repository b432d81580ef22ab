CONSTANTS
  Modules = {"base", "items"}
  Version = "version"
  Consumers = {c1, c2}
  LoadFaults = FALSE
  CastFaults = TRUE
  ExecOrdered = TRUE
  MaxChanges = 2
  MaxInFlight = 3
SPECIFICATION FairSpec
INVARIANTS
  TypeOK
  NoForgottenChange
PROPERTIES
  StoreRefined
  ChangeIsStored
