SPECIFICATION FairSpec
CONSTANTS
  s1 = s1
  n1 = n1
  n2 = n2
  p1 = p1
  p2 = p2
  u1 = u1
  w1 = w1
  w2 = w2
  NoJob = NoJob
  Jobs = {s1, n1}
  Workers = {w1, w2}
  Type <- MCType
  Target <- MCTarget
  DefaultAttempts = 2
  Limit = 1
  MaxFaults = 1
PROPERTIES EveryJobSettles EveryPassEnds
