SPECIFICATION FairSpec
CONSTANTS
  db = db
  web = web
  solo = solo
  shop = shop
  nightly = nightly
  hourly = hourly
  plain = plain
  Standalone = Standalone
  None = None
  Slots = {s1, s2}
  Containers = {db}
  Projects = {shop}
  ProjectOf <- OneProjectOf
  Groups = {nightly}
  GroupOf <- OneGroupOf
  Jobs = {j1}
  Calls = {k1}
  Workers = {}
  Maint = {m1}
  Ops = {}
  Signals = 1
PROPERTIES BatchServed MaintenanceReturns ShutdownCompletes
CHECK_DEADLOCK FALSE
