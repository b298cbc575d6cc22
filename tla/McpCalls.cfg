SPECIFICATION Spec
CONSTANTS
  ask1 = ask1
  ask2 = ask2
  other = other
  Own <- MCTwo
  Run <- MCTwoRuns
  NoRun = NoRun
  ReplyLen = 1
  WireCap = 1
  MaxNoise = 0
  QuietStart = FALSE
  WatchCap = 1
  MaxTui = 0
  SplitLines = FALSE
  MaxFailures = 1
CHECK_DEADLOCK FALSE
SYMMETRY MCSymmetry
INVARIANTS TypeOK AnsweredOnce NoneForgotten AnswerIsOwn HeardRunLogged
