SPECIFICATION OffSpec
CONSTANTS
  CoolOff = 3
  RebootQuiesce = 2
  Callers = {"charger", "shell"}
  MaxResets = 0
PROPERTIES
  NoFlap
