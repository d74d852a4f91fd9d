SPECIFICATION FairSpec
CONSTANTS
  nas = nas
  s3 = s3
  data = data
  cache = cache
  run1 = run1
  run2 = run2
  Job = Job
  Op = Op
  None = None
  Clients = {run1, run2, Job, Op}
  Repos = {nas, s3}
  Budgeted = {s3}
  Runs = {run1, run2}
  Mounts = {data, cache}
  Empty = {cache}
  Scenarios <- ShopScenarios
INVARIANTS TypeOK HotOnlyByOverlap RestartedAfterAll MarksTrue NoStarvation HonestReport StaleLocksCleared BackupsUnblocked EveryRepoAccounted
PROPERTIES JobsEnd
CHECK_DEADLOCK FALSE
