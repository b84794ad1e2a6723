SPECIFICATION Spec
CONSTANTS
  Tids = {alice, bob}
  Msgs = {hello}
  Tags = {close}
  NoTag = NoTag
  Adds = {a1}
  Answers = {b1}
  Removes = {}
  Retags = {}
  UserId <- MCUserId
  ObjectKey = ObjectKey
  Expire = 0
  MaxTime = 1
  MaxFaults = 0
CHECK_DEADLOCK FALSE
INVARIANT AcceptedIsRemoved
