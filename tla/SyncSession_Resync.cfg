SPECIFICATION Spec
CONSTANTS
  Threads = {t1, t2}
  Creator = t1
  SyncThread = sync
  Nobody = nobody
  UploadWaits = {u}
  DownloadWaits = {}
  StopPolicy = "after_changes_uploaded"
  ResyncMode = "recover"
  CancelWaitsOnNonfatalError = FALSE
  Calls <- ResyncCalls
  Changes = {}
  Errors <- ResyncErrors
  UrlRejected = TRUE
  MaxSessions = 2
  MaxDeaths = 1
  MaxCommits = 1
INVARIANTS
  WaitCalledAtMostOnce
CHECK_DEADLOCK FALSE
