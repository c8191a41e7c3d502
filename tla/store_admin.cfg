SPECIFICATION Spec
CONSTANTS
  u1 = u1
  u2 = u2
  c1 = c1
  c2 = c2
  r1 = r1
  r2 = r2
  Users = {u1}
  Conns = {c1}
  Reqs = {r1}
  UserOf <- OneUser
  Admins = {u1}
  Names = {"INBOX", "Trash"}
  Flags = {"Seen", "Deleted"}
  Faults = {}
  MaxBox = 5
  MaxMsg = 2
  MaxUid = 2
INVARIANTS
  InboxAlways
  ReferentialIntegrity
PROPERTY ImplementsMailbox
CHECK_DEADLOCK FALSE
