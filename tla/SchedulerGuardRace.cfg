SPECIFICATION Spec
CONSTANTS
  db = db
  web = web
  solo = solo
  shop = shop
  nightly = nightly
  hourly = hourly
  plain = plain
  Standalone = Standalone
  None = None
  Slots = {s1}
  Containers = {db}
  Projects = {shop}
  ProjectOf <- OneProjectOf
  Groups = {nightly}
  GroupOf <- OneGroupOf
  Jobs = {j1}
  Calls = {}
  Workers = {}
  Maint = {}
  Ops = {o1}
  Signals = 0
INVARIANTS DestructiveExclusive
