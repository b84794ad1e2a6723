SPECIFICATION Spec
CONSTANTS
  Null = Null
  Falsy = {0}
  Exchange = Exchange
  Key = Key
  Tids = {alice, bob}
  Notices = {1, 2, 3}
  Removals = {9}
  Reads = {r1, r2}
  Pages = {0, 1, 2}
  Files <- MCFiles
  ObjectKey = ObjectKey
CHECK_DEADLOCK FALSE
SYMMETRY Symm
INVARIANTS
  UnseenOnlyByRace
  TwiceOnlyByRace
  EveryNoticeHasAPage
  RemovalIsNeverTold
