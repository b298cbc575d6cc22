SPECIFICATION MCSpec
CONSTANTS
  ask1 = ask1
  other = other
  Own <- MCOne
  Run <- MCOneRuns
  NoRun = NoRun
  ReplyLen = 2
  WireCap = 1
  MaxNoise = 0
  QuietStart = FALSE
  EventCap = 1
  QueueCap = 1
  MaxTrouble = 1
CHECK_DEADLOCK FALSE
INVARIANTS TypeOK ReplyShownOnce LoneReplyWhole DisplayIsThread
PROPERTIES EndShown QueueServed
