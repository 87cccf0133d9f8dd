SPECIFICATION Spec
CONSTANTS
  Masters = {"charger", "shell"}
  MaxTries = 2
INVARIANT StopFindsItIdle
