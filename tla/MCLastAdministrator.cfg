SPECIFICATION MCSpec
CONSTANTS
  None = None
  a1 = a1
  a2 = a2
  a3 = a3
  b1 = b1
  b2 = b2
  c1 = c1
  c2 = c2
  Owners = {"ann"}
  Managers = {}
  Callers = {b1, b2}
  Keys = {c1, c2}
  MaxSessions = 1
  MaxTokens = 3
  MaxRevisions = 1
  MaxFaults = 1
  Users = {"ann", "bob", "eve"}
  FirstAdmins = {"ann", "bob"}
  MaxChanges = 3
  Songs = {"song"}
  Sleeves = {"sleeve"}
  Uploads = {c1, c2}
  Requests = {a1, a2, a3, b1, b2}
  Editors = {b1, b2}
  Quota = 1
  MaxFailures = 2
  Tracks = {a1, a2, a3}
  Entries = {a1, a2, a3}
  Devices = {b1, b2}
  MaxPlaylistEntries = 3
  PositionShift = 10
  Events <- EventsHeard
  MaxEdits = 4
SYMMETRY Alike
INVARIANT AdministratorRemains
CHECK_DEADLOCK FALSE
