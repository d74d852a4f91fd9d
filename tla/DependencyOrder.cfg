SPECIFICATION Spec
CONSTANTS
  api = api
  cache = cache
  db = db
  web = web
  Names <- FourNames
  Labels <- ShortLabels
  Batches <- OneOrTwo
INVARIANTS OrderComplete DependenciesFirst WarnsOfCycles StopSetIsClosure
PROPERTIES Descends
CHECK_DEADLOCK FALSE
