SPECIFICATION Spec
CONSTANTS
  Browsers = {b1, b2}
  Names = {"ann"}
  Passwords = {harbour9, lantern5, pw}
  Short = {pw}
  Shown = {"Ann A."}
  MaxFaults = 1
SYMMETRY Symmetry
INVARIANTS
  TypeOK
  EntryEarned
  UserInformed
