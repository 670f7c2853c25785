CONSTANTS
  r1 = r1
  r2 = r2
  r3 = r3
  None = None
  Hole = Hole
  Puts <- ThreePuts
  Sizes = {0, 3, 4, 7}
  ChunkSizes = {1, 2, 3}
  Uploads = 2
  Precision = 2
  MaxExponent = 6
  Width = 8
SYMMETRY Symmetry
SPECIFICATION Spec
INVARIANT TypeOK
INVARIANT ChunksCover
INVARIANT InsideItsChunk
INVARIANT CompletedHasItsBytes
INVARIANT PublishedLength
CHECK_DEADLOCK FALSE
