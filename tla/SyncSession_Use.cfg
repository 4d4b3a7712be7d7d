SPECIFICATION FairSpec
CONSTANTS
  Threads = {t1, t2}
  Creator = t1
  SyncThread = sync
  Nobody = nobody
  UploadWaits = {u}
  DownloadWaits = {}
  StopPolicy = "after_changes_uploaded"
  ResyncMode = "manual"
  CancelWaitsOnNonfatalError = TRUE
  Calls <- UseCalls
  Changes = {}
  Errors = {}
  UrlRejected = FALSE
  MaxSessions = 1
  MaxDeaths = 2
  MaxCommits = 1
INVARIANTS
  DyingHasHandler
  UploadWaitHonest
PROPERTIES
  UploadedBeforeStop
  DyingEnds
  WaitAnswered
CHECK_DEADLOCK FALSE
