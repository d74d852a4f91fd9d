SPECIFICATION Spec
CONSTANTS
  db = db
  web = web
  rdb = rdb
  rweb = rweb
  Containers = {db, web}
  Repos = {rdb}
  ReposOf <- SharedRepo
  Cold = {}
  Stacked = {}
  BadSchedule = {}
  Backups = {}
  MaxChanges = 2
  MaxEvents = 1
  MaxUnsaved = 1
  None = None
INVARIANT ScheduledNotOrphaned
