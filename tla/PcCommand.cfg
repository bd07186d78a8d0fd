SPECIFICATION PcFairSpec
CONSTANTS
  Caller = {c1, c2}
  Request = {r1, r2, r3}
  NoRequest = NoRequest
  Timer = Timer
  Nobody = Nobody
  OutputSizes = {0, 2}
  PipeSize = 1
  CallsFail = TRUE
  Leaves = TRUE
INVARIANTS
  PcTypeOK
  AddGoesOn
  OnlyScriptHangs
  NoDataRace
  AnsweredInTurn
PROPERTIES
  ImplementsOneShot
  ReaderReturns
  AnsweredUnlessBlocked
CHECK_DEADLOCK FALSE
