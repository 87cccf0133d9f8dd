SPECIFICATION Spec
CONSTANT
  MaxTries = 2
INVARIANT BusIsExclusive
