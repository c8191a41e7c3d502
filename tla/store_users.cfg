SPECIFICATION Spec
CONSTANTS
  u1 = u1
  u2 = u2
  c1 = c1
  c2 = c2
  r1 = r1
  r2 = r2
  Users = {u1, u2}
  Conns = {c1}
  Reqs = {r2}
  UserOf <- TwoUsers
  Admins = {u1}
  Names = {"Trash", "Work"}
  Flags = {"Seen", "Deleted"}
  Faults = {}
  MaxBox = 9
  MaxMsg = 2
  MaxUid = 2
INVARIANTS
  TypeOK
  MailStaysHome
CHECK_DEADLOCK FALSE
