SPECIFICATION Spec
CONSTANTS
  Tids = {alice, bob}
  Blocks = {b1}
  Unblocks = {u1}
  Saves = {s1, s2}
  Deletes = {d1, d2}
CHECK_DEADLOCK FALSE
PROPERTY StillBlockedOnlyByRepeat
