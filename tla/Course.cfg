SPECIFICATION FairSpec
CONSTANTS
  t1 = t1
  t2 = t2
  s1 = s1
  s2 = s2
  None = None
  Topics = {t1, t2}
  Made = {t2}
  MaxCopies = 3
  Syncs = {s1, s2}
  MaxReviews = 1
  MaxUpsets = 1
INVARIANTS
  TypeOK
  ProgressKept
  ListedOnce
PROPERTY
  Converges
