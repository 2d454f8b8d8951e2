SPECIFICATION Spec
CONSTANTS
  Chats = {c1}
  Streams = {s1, s2}
  NoStream = NoStream
  ReuseIds = TRUE
  MaxTurns = 2
  MaxDeltas = 1
  MaxFaults = 1
  MaxCrashes = 1
  MaxDeletes = 0
CONSTRAINT FewInFlight
SYMMETRY StreamSymmetry
INVARIANT TypeOK
INVARIANT SingleInProgress
PROPERTY LiveDraftNotReaped
PROPERTY DisconnectNeverFinal
PROPERTY ImplementsTurnLog
