SPECIFICATION MCSpec
CONSTANTS
  Null = Null
  None = None
  Tracks = {t1, t2, t3}
  Legacy = {t3}
  Committers = {s1, s2}
  Editors = {e1}
  Snapshots <- FileTags
  Patches <- OnePatch
  MaxChanges = 3
  Songs = {1, 2, 3}
  Shelves = {1, 2}
  Covers = {k1}
  FirstAlbum <- TwoAndOne
  FirstCover <- FirstOnly
  MayBeArchived = {1}
  Admins = {a1, a2}
  MaxEdits = 2
  Numbers = {1, 2, 3}
  PageSize = 1
  MaxMoves = 1
SYMMETRY Alike
INVARIANT EveryMatchingRowReached
CHECK_DEADLOCK FALSE
