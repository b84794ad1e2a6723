SPECIFICATION Spec
CONSTANTS
  c1 = c1
  c2 = c2
  Calls = {c1, c2}
  Served <- MCServed
  Tids = {alice}
  Nobody = Nobody
  NoHeader = NoHeader
  NoToken = NoToken
CHECK_DEADLOCK FALSE
INVARIANTS
  AdmittedWasValid
  NoticesAreNeverServed
