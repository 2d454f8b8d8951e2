SPECIFICATION Spec
CONSTANTS
  Chats = {c1}
  Streams = {s1, s2}
  NoStream = NoStream
  ReuseIds = FALSE
  MaxTurns = 2
  MaxDeltas = 1
  MaxFaults = 0
  MaxCrashes = 1
  MaxDeletes = 1
SYMMETRY StreamSymmetry
INVARIANT MarkerPaired
INVARIANT FinishedTurnComplete
INVARIANT OwnTurn
