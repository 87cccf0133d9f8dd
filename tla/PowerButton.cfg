SPECIFICATION PbFairSpec
CONSTANTS
  CoolOff = 2
  RebootQuiesce = 1
  Callers = {}
  MaxResets = 1
  Debounce = 1
  PowerOnWait = 2
  PowerOffWait = 3
INVARIANTS
  PbTypeOK
  ArmedIsTimed
PROPERTIES
  HeldButtonActs
  ActsOncePerPress
  ArmedIsDecided
