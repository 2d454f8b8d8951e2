SPECIFICATION Spec
CONSTANTS
  Sessions = {x1}
  Streams = {s1, s2}
  NoStream = NoStream
  MaxDeltas = 1
  MaxFaults = 1
  MaxCrashes = 1
SYMMETRY Symmetry
CONSTRAINT DeltasAlone
CONSTRAINT OneMishap
CONSTRAINT FewInFlight
INVARIANT OneDraft
INVARIANT MarkerPaired
INVARIANT FinalIsEarned
PROPERTY ImplementsTurnLog
