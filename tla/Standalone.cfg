SPECIFICATION SaSpec
CONSTANTS
  EvThread = {e1, e2, e3}
  EvBit = {b1, b2}
  EvWait <- MCWait
  EvNothing = EvNothing
  Chunk = 2
  MaxFile = 5
  MaxChanges = 1
  Chunks = 2
  MaxUpdates = 2
  IoThread = {w1, w2}
  IoFile = {f1, f2}
  MaxLen = 2
  MaxWrites = 2
  NoFile = NoFile
  LtTool = {p1, p2}
  LtLicense <- MCLicense
  LtFirst <- MCFirst
INVARIANTS
  StandaloneTypeOK
  NoMissedBits
  VerdictIsRight
  UpdateRecovers
  LoadsWhatWasWritten
  LicenseIsOurs
  ExitTellsTruth
PROPERTIES
  EachBitIsReported
  NoWaitForever
CHECK_DEADLOCK FALSE
