SPECIFICATION FairSpec
CONSTANTS
  ask1 = ask1
  ask2 = ask2
  other = other
  Own <- MCOne
  Run <- MCOne
  NoRun = NoRun
  ReplyLen = 2
  WireCap = 1
  MaxNoise = 0
  QuietStart = FALSE
  WatchCap = 1
  MaxTui = 2
  SplitLines = TRUE
  MaxFailures = 1
CHECK_DEADLOCK FALSE
INVARIANTS EndAnswerWhole TuiToldInOrder
PROPERTIES ReplyAnswered TuiTold
