SPECIFICATION MCSpec
CONSTANTS
  Callers = {r1, r2, r3}
  Limit = 4
  MaxUnits = 2
  Null = Null
  None = None
  Torn = Torn
  Blank = Blank
  Invalid = Invalid
  Runtimes = {r1, r2, r3}
  Requests = {q1, q2}
  MaxFailures = 2
  Configs = {r1, r2, r3}
  Askers = {q1, q2}
  MaxSetbacks = 1
  MaxCrashes = 1
  MaxCalls = 2
  Keys = {"jobs", "scan"}
  EndingKeys = {"scan"}
  Clients = {q1, q2}
  Pollers = {p1, p2}
  Final = 2
  Capacity = 1
  MaxSubscribers = 2
  MaxTopics = 1
  Tasks = {"scan", "writeback"}
SYMMETRY Alike
INVARIANTS TypesOK TokensConserved RuntimesAreWhole InstallationHolds SettingsHold StreamsAgree
CHECK_DEADLOCK FALSE
