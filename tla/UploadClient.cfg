CONSTANTS
  Chunks = {0, 1, 2}
  Pool = 2
  Limit = 2
  Retries = 2
  MaxFaults = 2
  Absent = Absent
  Broken = Broken
SPECIFICATION FairSpec
INVARIANT TypeOK
INVARIANT AnnouncedIsPublished
INVARIANT SuccessIsAnnounced
INVARIANT ProgressIsReal
PROPERTY UploadSucceeds
CHECK_DEADLOCK FALSE
