SPECIFICATION UpstreamSpec
CONSTANTS
  Tools = {t}
  Args = {x, y}
  Lookback = 2
  FailureStreak = 3
  RepeatK = 2
  IdenticalCap = 2
  RoundsCap = 3
  NoCallYet = NoCallYet
  Slots = {0, 1}
  MaxRounds = 2
  MaxCut = 1
  Anonymous = TRUE
  Turns = {t1, t2}
  Params = {p1, p2}
  Plugins = {a, b}
  Unsupported = {p1, p2}
  Denied = {a}
  Dead = {a, b}
  MaxForgets = 1
  Servers = {m1}
  Clients = {c1, c2}
  Admins = {x1}
  NoClient = NoClient
  MaxSessions = 2
  MaxCancels = 1
  MaxDeaths = 1
  MaxReboots = 1
  Saves = {s1, s2}
  Callers = {k1}
  Forcers = {f1}
  Boot = boot
  NoOne = NoOne
CONSTRAINT FirstSwaps
CONSTRAINT FirstConnects
INVARIANT UpstreamTypesOK
INVARIANT OnlyLoopsAreCut
INVARIANT EndIsTruthful
INVARIANT TranscriptFaithful
INVARIANT ShownIsSettled
INVARIANT RefusedStaysOut
INVARIANT NobodyForgotten
INVARIANT ServicesFollowClient
CHECK_DEADLOCK FALSE
