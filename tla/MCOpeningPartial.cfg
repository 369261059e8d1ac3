SPECIFICATION Spec
CONSTANTS
  LinePrefix <- MCPrefix
  Begin = "http://host"
  GoOnly = {}
  SDKOnly = {}
  More = "/path"
  Blank = " "
  LineEnd = "end"
  Text = "text"
  MaxOutput = 6
  MaxLine = 5
  MaxGrowth = 7
INVARIANTS
  ReturnsCompleteURL
CHECK_DEADLOCK FALSE
