SPECIFICATION FlashSpec
CONSTANTS
  Daemons = {daemon}
  Tools = {tool}
  Element = {"license", "devName"}
  License = "license"
  Partition = {"slots", "secbox"}
  Home <- MCHome
  ToolMounts = {"slots"}
  MaxVersion = 3
  MayFail = FALSE
INVARIANTS
  ReportedIsStored
