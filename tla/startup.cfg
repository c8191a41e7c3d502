SPECIFICATION Spec
CONSTANTS
  Msgs = {"m1", "m2"}
  Selectors = {"default", "other"}
  MaxCrashes = 2
  MaxFailures = 2
INVARIANTS
  TypeOK
  ServesComplete
  MailSurvives
  KeyKept
PROPERTIES
  ServesAgain
