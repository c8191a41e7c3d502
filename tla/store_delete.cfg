SPECIFICATION Spec
CONSTANTS
  u1 = u1
  u2 = u2
  c1 = c1
  c2 = c2
  r1 = r1
  r2 = r2
  Users = {u1}
  Conns = {}
  Reqs = {r1, r2}
  UserOf <- OneUser
  Admins = {}
  Names = {"INBOX"}
  Flags = {"Seen", "Deleted"}
  Faults = {}
  MaxBox = 4
  MaxMsg = 2
  MaxUid = 6
PROPERTIES
  DeleteTakesEffect
CHECK_DEADLOCK FALSE
