SPECIFICATION FairSpec
CONSTANTS
  ann = ann
  a1 = a1
  a2 = a2
  w1 = w1
  w2 = w2
  d1 = d1
  Nobody = Nobody
  Users = {ann}
  Courses = {a1, a2}
  Owner <- MCOwner
  Later = {a2}
  Workers = {w1, w2}
  Crons = {d1}
  MaxQueued = 1
  MaxUpsets = 1
INVARIANTS
  TypeOK
  NothingTwice
  FirstRunComplete
PROPERTY
  PickedUp
