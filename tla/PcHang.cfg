SPECIFICATION PcFairSpec
CONSTANTS
  Caller = {reader}
  Request = {r1, r2, r3}
  NoRequest = NoRequest
  Timer = Timer
  Nobody = Nobody
  OutputSizes = {0, 1, 2}
  PipeSize = 1
  CallsFail = FALSE
  Leaves = FALSE
PROPERTIES
  Answered
CHECK_DEADLOCK FALSE
