SPECIFICATION FairSpec
CONSTANTS
  w1 = w1
  w2 = w2
  w3 = w3
  w4 = w4
  w5 = w5
  Workers = {w1, w2, w3, w4, w5}
  MaxFailures = 2
  OpenDuration = 3
  MaxStreak = 9
INVARIANTS TypeOK OpensEveryMaxFailures ShutOutBounded
PROPERTY OpenEnds
