SPECIFICATION Spec
CONSTANTS
  Clients = {"c1"}
  MaxBox = 2
  MaxMsg = 3
  MaxUid = 3
INVARIANTS
  TypeOK
  ViewHolds
  OnlyMeantDeleted
  CacheTrue
  NewMailFound
CHECK_DEADLOCK FALSE
