SPECIFICATION DocSpec
CONSTANTS
  Uploads = {u1, u2}
  Files = {f1}
  Blank = {}
  Projects = {g1, g2}
  Embedders = {nomic, other}
  DefaultEmbedder = nomic
  NoEmbedder = NoEmbedder
  MaxSwaps = 1
  MaxHalts = 0
INVARIANT VectorsLabelled
CHECK_DEADLOCK FALSE
