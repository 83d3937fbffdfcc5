SPECIFICATION FairSpec
CONSTANTS
  r1 = r1
  r2 = r2
  Runs = {r1, r2}
  Tiles = {hot, trend}
  Sealed = {trend}
  Compared = {trend}
  Selection <- SelectionDef
  Refresh = 1
  SealedTTL = 2
  HotTTL = 1
  PartialTTL = 1
  StaleFor = 1
  MaxEntries = 1
  MaxTime = 2
  MaxVersion = 2
  MaxRequests = 2
  MaxFaults = 2
INVARIANTS SnapshotIsRecent HitPlannedAlike ReloadIsCurrent RegistryNeverGoesBack
PROPERTIES RequestsAreAnswered
CHECK_DEADLOCK FALSE
