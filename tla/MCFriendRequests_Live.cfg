SPECIFICATION LiveSpec
CONSTANTS
  Tids = {alice, bob}
  Msgs = {hello}
  Tags = {close}
  NoTag = NoTag
  Adds = {a1}
  Answers = {b1}
  Removes = {d1}
  Retags = {g1}
  UserId <- MCUserId
  ObjectKey = ObjectKey
  Expire = 0
  MaxTime = 1
  MaxFaults = 1
CHECK_DEADLOCK FALSE
INVARIANTS
  FriendshipIsMutual
  AcceptedMeansFriends
PROPERTIES
  ExpiredNeverAccepted
  EveryCallAnswered
  AcceptSettles
