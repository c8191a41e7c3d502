SPECIFICATION Spec
CONSTANTS
  Ips = {"a", "b"}
  Rate = 2
  Window = 3
  MaxBurst = 3
INVARIANTS
  TypeOK
  AtMostTwice
  RefusalsEarned
PROPERTIES
  EntriesExpire
