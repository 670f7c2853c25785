CONSTANTS
  p1 = p1
  p2 = p2
  p3 = p3
  c1 = c1
  c2 = c2
  c3 = c3
  o1 = o1
  o2 = o2
  m1 = m1
  m2 = m2
  f1 = f1
  f2 = f2
  None = None
  Broken = Broken
  Puts <- TwoPuts
  Posts <- OnePost
  Chunks <- TwoChunks
  MetaIds <- OneMeta
  FileIds <- TwoFiles
  LongMeta = FALSE
  SerialCreate = TRUE
  Faults = {"open", "stream", "body", "io"}
  MaxFaults = 1
SPECIFICATION FairSpec
INVARIANT LastChunkFinalises
PROPERTY ResumeSucceeds
