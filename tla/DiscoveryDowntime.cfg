SPECIFICATION FairSpec
CONSTANTS
  db = db
  web = web
  rdb = rdb
  rweb = rweb
  Containers = {db, web}
  Repos = {rdb, rweb}
  ReposOf <- OwnRepos
  Cold = {}
  Stacked = {}
  BadSchedule = {}
  Backups = {}
  MaxChanges = 3
  MaxEvents = 1
  MaxUnsaved = 1
  None = None
PROPERTY RemovedOrphaned
