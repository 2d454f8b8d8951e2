SPECIFICATION KnowledgeSpec
CONSTANTS
  Compactors = {c1, c2}
  NoCompactor = NoCompactor
  MaxTurns = 3
  MaxSpans = 2
  MaxDeletions = 1
  Texts = {x, y}
  NoText = NoText
  Pinners = {p1}
  Savers = {s1, s2}
  AutoCap = 1
  PinCap = 1
  MaxRows = 3
  MaxEdits = 1
  Contents = {x}
  Models = {m1, m2}
  FirstModel = m1
  Indexers = {k1, k2}
  None = none
  MaxMessages = 2
  MaxWrites = 3
  MaxReindexes = 2
  Uploads = {u1, u2}
  Files = {f1, f2}
  Blank = {f2}
  Projects = {g1, g2}
  Embedders = {nomic, other}
  DefaultEmbedder = nomic
  NoEmbedder = NoEmbedder
  MaxSwaps = 1
  MaxHalts = 1
CONSTRAINT OneMishap
SYMMETRY UploadSymmetry
INVARIANT KnowledgeTypesOK
INVARIANT SummariesInPlace
INVARIANT NothingForgotten
INVARIANT AutoCapKept
INVARIANT NoDeadDocument
INVARIANT UploadedUnderPin
PROPERTY VectorKept
CHECK_DEADLOCK FALSE
