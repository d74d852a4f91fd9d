SPECIFICATION FairSpec
CONSTANTS
  db = db
  web = web
  solo = solo
  shop = shop
  nightly = nightly
  hourly = hourly
  plain = plain
  Standalone = Standalone
  None = None
  Slots = {s1, s2}
  Containers = {db}
  Projects = {shop}
  ProjectOf <- OneProjectOf
  Groups = {nightly}
  GroupOf <- OneGroupOf
  Jobs = {}
  Calls = {}
  Workers = {}
  Maint = {m1, m2}
  Ops = {}
  Signals = 0
PROPERTIES MaintenanceReturns
