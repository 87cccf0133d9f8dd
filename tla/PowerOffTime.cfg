SPECIFICATION OffSpec
CONSTANTS
  CoolOff = 3
  RebootQuiesce = 2
  Callers = {"charger", "shell", "wdt"}
  MaxResets = 1
INVARIANTS
  CoolOffCannotWedge
  PendingRebootIsOff
  QuietBootSynchronises
PROPERTIES
  StaysOff
