SPECIFICATION FairSpec
CONSTANTS
  m1 = m1
  m2 = m2
  m3 = m3
  Messages <- MCMessages
  Gets = {m1, m3}
  Host <- MCHost
  Https = {}
  Loops = {l1, l2}
INVARIANTS
  OneLoop
  TimersCutTheirOwn
PROPERTIES
  EveryMessageEnds
CHECK_DEADLOCK FALSE
