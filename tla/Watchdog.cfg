SPECIFICATION WdtFairSpec
CONSTANTS
  CoolOff = 2
  RebootQuiesce = 1
  Callers = {"wdt"}
  MaxResets = 1
  Period = 1
  MaxSeconds = 1
INVARIANTS
  WdtTypeOK
PROPERTIES
  BitesOnlyWhenStarved
  HungHostIsBitten
