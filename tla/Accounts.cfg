SPECIFICATION Spec
CONSTANTS
  ann = ann
  bob = bob
  i1 = i1
  i2 = i2
  b1 = b1
  b2 = b2
  s1 = s1
  s2 = s2
  c1 = c1
  c2 = c2
  None = None
  People = {ann, bob}
  TokenOwner = ann
  Ids = {i1, i2}
  OldIds = {i1}
  Browsers = {b1, b2}
  Syncs = {s1, s2}
  Copies = {c1, c2}
  OldCopies = {c1}
  MaxStarts = 4
SYMMETRY Symmetry
CHECK_DEADLOCK FALSE
INVARIANTS
  TypeOK
  AccountPerPerson
  RacersGetIn
PROPERTIES
  SignedOutEverywhere
  AdoptedOnce
  SyncTakesOwn
