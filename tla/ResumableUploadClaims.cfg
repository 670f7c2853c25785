CONSTANTS
  p1 = p1
  p2 = p2
  p3 = p3
  c1 = c1
  c2 = c2
  c3 = c3
  o1 = o1
  o2 = o2
  m1 = m1
  m2 = m2
  f1 = f1
  f2 = f2
  None = None
  Broken = Broken
  Puts <- TwoPuts
  Posts <- OnePost
  Chunks <- TwoChunks
  MetaIds <- TwoMetas
  FileIds <- TwoFiles
  LongMeta = TRUE
  SerialCreate = FALSE
  Faults = {"open", "stream", "fail", "complete", "check", "remove", "create", "body", "disk", "crash", "io"}
  MaxFaults = 2
SPECIFICATION Spec
SYMMETRY Symmetry
INVARIANT OngoingHasOwner
CHECK_DEADLOCK FALSE
