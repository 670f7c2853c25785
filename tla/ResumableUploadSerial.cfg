CONSTANTS
  p1 = p1
  p2 = p2
  p3 = p3
  c1 = c1
  c2 = c2
  c3 = c3
  o1 = o1
  o2 = o2
  m1 = m1
  m2 = m2
  f1 = f1
  f2 = f2
  None = None
  Broken = Broken
  Puts <- ThreePuts
  Posts <- OnePost
  Chunks <- ThreeChunks
  MetaIds <- OneMeta
  FileIds <- TwoFiles
  LongMeta = FALSE
  SerialCreate = TRUE
  Faults = {"claim", "open", "stream", "check", "remove", "create", "body", "disk", "crash", "io", "reset", "scan"}
  MaxFaults = 2
SPECIFICATION Spec
SYMMETRY Symmetry
INVARIANT TypeOK
INVARIANT OneWriterPerChunk
INVARIANT PublishedIsComplete
INVARIANT CompletedIsStored
PROPERTY CompletedIsFinal
PROPERTY LedgerSpec
CHECK_DEADLOCK FALSE
