CONSTANTS
  a = a
  b = b
  g = g
  Old = Old
  Resumed = Resumed
  None = None
  Zero = Zero
  Blank = Blank
  Garbage = Garbage
  Forms <- TwoForms
  Gets <- OneGet
  Size <- MCSize
  Requests <- MCRequests
  Start <- Either
SPECIFICATION Spec
INVARIANT TypeOK
INVARIANT PublishedIsWhole
INVARIANT DownloadIsOneVersion
INVARIANT DownloadIsTheRange
INVARIANT ListingIsComplete
PROPERTY AnsweredIsPublished
CHECK_DEADLOCK FALSE
