CONSTANTS
  t1 = t1
  t2 = t2
  Thread <- MCThread
  Viewed = {t1}
  Watched = t1
  MaxAsks = 2
SPECIFICATION Spec
INVARIANTS TypeOK SentIsOnFile
PROPERTIES NoEcho QuietTriggers RunEnds
