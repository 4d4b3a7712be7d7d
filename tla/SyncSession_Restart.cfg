SPECIFICATION Spec
CONSTANTS
  Threads = {t1, t2}
  Creator = t1
  SyncThread = sync
  Nobody = nobody
  UploadWaits = {}
  DownloadWaits = {d}
  StopPolicy = "immediately"
  ResyncMode = "manual"
  CancelWaitsOnNonfatalError = TRUE
  Calls <- RestartCalls
  Changes = {"connected"}
  Errors <- SessionErrors
  UrlRejected = FALSE
  MaxSessions = 2
  MaxDeaths = 2
  MaxCommits = 1
INVARIANTS
  WaitNotLost
  WaitsArmed
CHECK_DEADLOCK FALSE
