CONSTANTS
  r1 = r1
  r2 = r2
  r3 = r3
  a = a
  b = b
  d = d
  e = e
  s1 = s1
  s2 = s2
  s3 = s3
  s4 = s4
  None = None
  Sems <- FourSems
  Unit = 4
  MaxPermits = 4
  Reqs <- ThreeReqs
  Paths <- FourPaths
  Lengths = {0, 5, 11, 17}
  MaxGlobal = 2
  MaxPerUpload = 1
  MaxBytes = 11
SPECIFICATION Spec
SYMMETRY Symmetry
INVARIANT TypeOK
INVARIANT OneSemaphorePerPath
INVARIANT PerUploadLimit
INVARIANT NothingLeaks
INVARIANT MapBounded
PROPERTY RefusedOnlyUnderLoad
PROPERTY AdmissionSpec
