----------------------------- MODULE ServerErrors -----------------------------
(***************************************************************************)
(* errors.rs: how an error is rendered, as far as a script can tell it     *)
(* from another: by its status, and by whether the body parses as JSON.    *)
(***************************************************************************)
JsonErrors ==
  {"FileAlreadyExists", "FileIsNotCreated", "UploadMetaIsBroken", "MissingContentLength",
   "InvalidContentLength", "MissingChunkIndex", "InvalidChunkIndex", "ChunkIsOngoing",
   "ChunkIsCompleted", "TooManyUploadRequests", "UploadChunkFailed"}

HtmlErrors ==
  {"MissingCredentials", "TokenCreation", "InvalidToken", "IoError", "InternalError",
   "InvalidUploadForm", "InvalidPath", "Custom"}

Rendered(error) ==
  CASE error = "TooManyUploadRequests"                -> "429"
    [] error \in JsonErrors \ {"TooManyUploadRequests"} -> "json"
    [] error \in HtmlErrors                           -> "html"
=============================================================================
