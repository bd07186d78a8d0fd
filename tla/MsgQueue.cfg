SPECIFICATION FairSpec
CONSTANTS
  Thread = {t1, t2, t3}
  Block = {b1, b2, b3, b4}
  NoBlock = NoBlock
  Mem = 2
  AdderCounts = {0, 1}
  GetterCounts = {0, 1}
  MaxResets = 1
INVARIANTS
  TypeOK
  Ownership
  NoStrandedGetter
  NoStrandedAdder
  NobodySleepsWhenClosed
PROPERTIES
  ImplementsFifo
  GetterServed
  AdderServed
CHECK_DEADLOCK FALSE
