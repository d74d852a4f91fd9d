SPECIFICATION Spec
CONSTANTS
  db = db
  web = web
  solo = solo
  shop = shop
  nightly = nightly
  hourly = hourly
  plain = plain
  Standalone = Standalone
  None = None
  Slots = {s1, s2}
  Containers = {db, web}
  Projects = {shop}
  ProjectOf <- StackProjectOf
  Groups = {nightly, hourly}
  GroupOf <- StackGroupOf
  Jobs = {j1, j2}
  Calls = {k1, k2}
  Workers = {}
  Maint = {}
  Ops = {}
  Signals = 0
SYMMETRY Symmetry
INVARIANTS TypeOK OneDrainer NoLostBatch
PROPERTIES ImplementsStackQueue
