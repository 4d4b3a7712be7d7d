SPECIFICATION Spec
CONSTANTS
  Threads = {t1, t2}
  Creator = t1
  SyncThread = sync
  Nobody = nobody
  UploadWaits = {}
  DownloadWaits = {d}
  StopPolicy = "after_changes_uploaded"
  ResyncMode = "recover"
  CancelWaitsOnNonfatalError = TRUE
  Calls <- ResyncCalls
  Changes = {}
  Errors <- ResyncErrors
  UrlRejected = FALSE
  MaxSessions = 2
  MaxDeaths = 2
  MaxCommits = 1
INVARIANTS
  WaitNotLost
CHECK_DEADLOCK FALSE
