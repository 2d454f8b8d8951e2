SPECIFICATION WaitingSpec
CONSTANTS
  Tools = {t}
  Args = {x, y}
  Lookback = 2
  FailureStreak = 3
  RepeatK = 2
  IdenticalCap = 2
  RoundsCap = 3
  NoCallYet = NoCallYet
  Slots = {0}
  MaxRounds = 1
  MaxCut = 0
  Anonymous = FALSE
  Turns = {t1}
  Params = {p1}
  Plugins = {a}
  Unsupported = {}
  Denied = {}
  Dead = {}
  MaxForgets = 0
  Servers = {m1}
  Clients = {c1, c2}
  Admins = {x1}
  NoClient = NoClient
  MaxSessions = 2
  MaxCancels = 1
  MaxDeaths = 1
  MaxReboots = 0
  Saves = {s1, s2}
  Callers = {}
  Forcers = {}
  Boot = boot
  NoOne = NoOne
PROPERTY RequestsEnd
CHECK_DEADLOCK FALSE
