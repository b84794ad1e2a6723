SPECIFICATION Spec
CONSTANTS
  Tids = {alice, bob}
  Msgs = {hello}
  Tags = {close}
  NoTag = NoTag
  Adds = {a1, a2}
  Answers = {b1, b2}
  Removes = {}
  Retags = {}
  UserId <- MCUserId
  ObjectKey = ObjectKey
  Expire = 0
  MaxTime = 0
  MaxFaults = 1
CHECK_DEADLOCK FALSE
SYMMETRY Symm
INVARIANTS
  TypeOK
  FriendshipIsMutual
  FriendshipByConsent
  AcceptedMeansFriends
  AddedIsListed
  ListedIsStored
  OnePairPerAcceptOrFault
PROPERTY ImplementsFriendship
