SPECIFICATION Spec
CONSTANTS
  t1 = t1
  t2 = t2
  Tids = {t1, t2}
  Registered <- MCRegistered
  Size = 2
  NoPage = NoPage
  MaxRank = 100
  FriendSize = 2
  MaxRequests = 7
  MaxFriends = 2
SYMMETRY Symm
CHECK_DEADLOCK FALSE
INVARIANT FriendsAreListed
