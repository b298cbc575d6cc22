SPECIFICATION Spec
CONSTANTS
  p1 = p1
  p2 = p2
  t1 = t1
  t2 = t2
  m1 = m1
  m2 = m2
  m3 = m3
  r1 = r1
  Proc = {p1, p2}
  Thread = {t1}
  Msg = {m1, m2}
  Run = {r1}
  RunOf <- MCRunOf
  NoRun = NoRun
  NL = NL
  MaxClock = 1
  MaxCrashes = 1
CHECK_DEADLOCK FALSE
SYMMETRY MCSymmetry
INVARIANTS TypeOK CountBounded EntriesHaveFiles AckedInFile AckedShown
PROPERTIES CommittedGrows RefinesSharedLog
