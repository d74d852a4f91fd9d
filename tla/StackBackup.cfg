SPECIFICATION FairSpec
CONSTANTS
  db1 = db1
  db2 = db2
  api = api
  sdb = sdb
  sapi = sapi
  None = None
  NoService = NoService
  Services = {sdb, sapi}
  Containers = {db1, db2, api}
  ServiceOf <- ShopServiceOf
  Depends <- ShopDepends
  StopBefore = {db1, db2}
  Checked = {db1, db2}
  Flaky = {db1}
  Repoless = {api}
  Bare = {db2}
  Lost = {{}, {db1}, {api}}
  StartOrder <- SortedOrder
INVARIANTS TypeOK Restored OwnEventsIgnored PostHooksRun HonestReport
PROPERTIES StopOrdered RestartOrdered ColdBackup Terminates
CHECK_DEADLOCK FALSE
