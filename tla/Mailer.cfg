SPECIFICATION FairSpec
CONSTANTS
  u1 = u1
  u2 = u2
  Users = {u1, u2}
  Refused = {u2}
  BatchSize = 3
  MaxEvents = 3
  LateEvents = 2
  MaxUpsets = 2
INVARIANTS
  TypeOK
  SentWasMailed
  BatchMailedOnce
PROPERTIES
  OffIsOff
  RemindersApart
  EveryMailSettles
