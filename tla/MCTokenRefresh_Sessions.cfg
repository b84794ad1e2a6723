SPECIFICATION RSpec
CONSTANTS
  Tids = {alice, bob}
  Plain = Plain
  Digest = Digest
  Passwords = {Plain, Digest}
  Hash <- MCHash
  Logins = {l1, l2}
  Forgets = {f1}
  Changes = {g1}
  NoToken = NoToken
  Lifetime = Lifetime
  Renewals = {r1}
  Undefined = Undefined
CHECK_DEADLOCK FALSE
SYMMETRY Symm
INVARIANTS
  TypeOK
  StaleOnlyByRace
  NumberOnlyByRace
PROPERTIES
  ClosedStaysClosed
  RefreshMovesNoSession
