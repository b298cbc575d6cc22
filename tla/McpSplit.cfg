SPECIFICATION Spec
CONSTANTS
  ask1 = ask1
  ask2 = ask2
  other = other
  Own <- MCOne
  Run <- MCOneRuns
  NoRun = NoRun
  ReplyLen = 1
  WireCap = 2
  MaxNoise = 0
  QuietStart = FALSE
  WatchCap = 1
  MaxTui = 0
  SplitLines = TRUE
  MaxFailures = 0
CHECK_DEADLOCK FALSE
INVARIANT NoneForgotten
