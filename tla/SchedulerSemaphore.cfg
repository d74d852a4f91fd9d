SPECIFICATION Spec
CONSTANTS
  db = db
  web = web
  solo = solo
  shop = shop
  nightly = nightly
  hourly = hourly
  plain = plain
  Standalone = Standalone
  None = None
  Slots = {s1, s2}
  Containers = {db, solo}
  Projects = {shop}
  ProjectOf <- PairProjectOf
  Groups = {nightly, plain}
  GroupOf <- PairGroupOf
  Jobs = {j1}
  Calls = {k1}
  Workers = {w1}
  Maint = {m1}
  Ops = {o1}
  Signals = 2
SYMMETRY Symmetry
INVARIANTS MaintenanceExclusive ConcurrencyBounded RunningAccurate CronWorkDrained
CHECK_DEADLOCK FALSE
