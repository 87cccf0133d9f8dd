SPECIFICATION FairSpec
CONSTANTS
  Timers = {t1, t2, t3}
  Forever = 4
  Header = Header
  Nobody = Nobody
INVARIANTS
  TypeOK
  DeltasAgree
  NoneOverdue
PROPERTIES
  KeepsPromise
