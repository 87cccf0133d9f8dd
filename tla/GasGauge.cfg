SPECIFICATION Spec
CONSTANTS
  MaxTries = 2
INVARIANTS
  GgTypeOK
  WritesGoHome
  VersionImpliesConfigured
PROPERTIES
  CutsOnlyWhenLow
  BusComesBack
  EmptyIsCut
