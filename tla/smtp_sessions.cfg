SPECIFICATION Spec
CONSTANTS
  alice = alice
  bob = bob
  remote = remote
  news = news
  note = note
  memo = memo
  card = card
  Names = {alice, bob}
  Registered = {alice}
  Remotes = {remote}
  Inbound = {i1, i2}
  Submission = {c}
  Requests = {w}
  Msgs = {news, note, memo, card}
  Nil = Nil
  Author <- MCAuthor
  Addressees <- MCAddressees
  Mixes <- MCMixes
  MaxFaults = 2
INVARIANTS
  TypeOK
  AckedDelivered
  NotMisdelivered
  CopiesExplained
  SentIsSent
