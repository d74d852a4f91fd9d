SPECIFICATION FairSpec
CONSTANTS
  db = db
  web = web
  rdb = rdb
  rweb = rweb
  Containers = {db, web}
  Repos = {rdb, rweb}
  ReposOf <- OwnRepos
  Cold = {db}
  Stacked = {db}
  BadSchedule = {}
  Backups = {b1}
  MaxChanges = 2
  MaxEvents = 1
  MaxUnsaved = 1
  None = None
INVARIANTS TypeOK ScheduledNotOrphaned
PROPERTIES Converges OrphanDetected
