SPECIFICATION LaunchSpec
CONSTANTS
  LinePrefix <- MCPrefix
  Begin = "http://host"
  GoOnly = {"http://host:99999"}
  SDKOnly = {"http://@host"}
  More = "/path"
  Blank = " "
  LineEnd = "end"
  Text = "text"
  MaxOutput = 5
  MaxLine = 5
  MaxGrowth = 6
  Sources <- MCSources
INVARIANTS
  AnswersAreFinal
  ReadsExactlyThePublished
  Faithful
  ImplementationsAgree
  HookAgrees
CHECK_DEADLOCK FALSE
