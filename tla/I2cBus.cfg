SPECIFICATION Spec
CONSTANTS
  Masters = {"charger", "shell"}
  MaxTries = 2
INVARIANTS
  TypeOK
  SemaphoreHasAnOwner
  TransferWakesItsOwner
  NobodyInsideMeansStoppable
  OneMasterWithoutHost
PROPERTIES
  CallReturns
