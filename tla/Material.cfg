SPECIFICATION FairSpec
CONSTANTS
  u1 = u1
  u2 = u2
  s1 = s1
  s2 = s2
  NoRow = NoRow
  Rows = {u1, u2}
  Syncs = {s1, s2}
  Large = {}
  MaxTries = 2
  Cases <- MCCases
INVARIANTS TypeOK ChunksOfText
PROPERTIES ProgressKept EveryoneTaught
