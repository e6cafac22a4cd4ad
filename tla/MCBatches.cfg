SPECIFICATION MCSpec
CONSTANTS
  Jobs = {1}
  Items = {1, 2}
  JobOf <- OneJob
  Workers = {w1, w2}
  Dead = Dead
  None = None
  ClaimWindow = 2
  Parallel = 1
  MaxAttempts = 2
  MaxStops = 1
  MaxClaims = 2
  t1 = t1
  t2 = t2
  s1 = s1
  s2 = s2
  Gone = Gone
  Tracks = {t1, t2}
  Sources = {s1, s2}
  TracksOf <- SharedFile
  DeleteJobs = {1}
  DeleteItems = {1, 2}
  BatchOf <- OneJob
  TrackOf <- BothTracks
  MaxVersion = 3
  Admins = {a1}
  MaxMishaps = 1
SYMMETRY Alike
INVARIANTS TypesOK BatchCountersAgree EndedBatchIsQuiet PictureIffSucceeded DeletionIsWhole
PROPERTIES CancelledBatchWritesNothing
CHECK_DEADLOCK FALSE
