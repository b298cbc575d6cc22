SPECIFICATION Spec
CONSTANTS
  mine = mine
  other = other
  Run = {mine, other}
  Own = {mine}
  Mine = mine
  NoRun = NoRun
  ReplyLen = 2
  WireCap = 3
  MaxNoise = 0
  QuietStart = FALSE
  MaxEvents = 8
  DrainLimit = 6
CHECK_DEADLOCK FALSE
INVARIANT ReplyIsOwn
