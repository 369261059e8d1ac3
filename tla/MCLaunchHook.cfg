SPECIFICATION LaunchSpec
CONSTANTS
  LinePrefix <- MCPrefix
  Begin = "http://host"
  GoOnly = {}
  SDKOnly = {}
  More = "/path"
  Blank = " "
  LineEnd = "end"
  Text = "text"
  MaxOutput = 5
  MaxLine = 5
  MaxGrowth = 6
  Sources <- MCHookSources
INVARIANTS
  HookIsEquivalent
CHECK_DEADLOCK FALSE
