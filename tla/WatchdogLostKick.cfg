SPECIFICATION WdtSpec
CONSTANTS
  CoolOff = 2
  RebootQuiesce = 1
  Callers = {"wdt"}
  MaxResets = 0
  Period = 1
  MaxSeconds = 1
PROPERTIES
  EveryWriteKicks
