SPECIFICATION FairSpec
CONSTANTS
  CoolOff = 2
  RebootQuiesce = 1
  Callers = {"shell", "wdt"}
  MaxResets = 1
INVARIANTS
  TypeOK
PROPERTIES
  CoolOffEnds
  RebootCompletes
