SPECIFICATION PQFairSpec
CONSTANTS
  main = main
  reader = reader
  periodical = periodical
  rx = rx
  Thread <- MCThread
  Main <- main
  Reader <- reader
  Periodical <- periodical
  Rx <- rx
  Block = {b1, b2, b3, b4, b5, b6}
  NoBlock = NoBlock
  Mem = 1
  AdderCounts = {1}
  GetterCounts = {1}
  MaxResets = 0
  ReaderStarts = {TRUE}
  PeriodicalStarts = {TRUE, FALSE}
  ConnectStarts = {TRUE}
  RxStarts = {TRUE}
  EarlyStop = FALSE
PROPERTIES
  ShutdownEnds
CHECK_DEADLOCK FALSE
