SPECIFICATION Spec
CONSTANTS
  NoValue = NoValue
  c1 = c1
  c2 = c2
  Calls = {c1, c2}
  NoSlot = NoSlot
  Queries = {c1, c2}
  Sources = {ga4}
  Keys = {k1}
  Threshold = 2
  Cooldown = 2
  Budget = 1
  Capacity = 1
  Refill = 1
  TTL = 1
  MaxTime = 2
  MaxRestarts = 1
SYMMETRY Symmetry
INVARIANTS TypeOK LoadBound QuotaBound UnflaggedIsFresh WarmedMeansCached
PROPERTIES CoolDownKept CacheMasksOutage
