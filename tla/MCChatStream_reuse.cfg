SPECIFICATION Spec
CONSTANTS
  Chats = {c1}
  Streams = {s1, s2}
  NoStream = NoStream
  ReuseIds = TRUE
  MaxTurns = 2
  MaxDeltas = 1
  MaxFaults = 0
  MaxCrashes = 0
  MaxDeletes = 1
SYMMETRY StreamSymmetry
INVARIANT OwnTurn
