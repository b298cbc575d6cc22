SPECIFICATION FairSpec
CONSTANTS
  mine = mine
  other = other
  Run = {mine, other}
  Own = {mine}
  Mine = mine
  NoRun = NoRun
  ReplyLen = 2
  WireCap = 3
  MaxNoise = 1
  QuietStart = TRUE
  MaxEvents = 7
  DrainLimit = 5
CHECK_DEADLOCK FALSE
INVARIANTS TypeOK OnlyOwnRun ReplyIsWhole ShownIsReply
PROPERTY CallReturns
