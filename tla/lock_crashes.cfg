SPECIFICATION FairSpec
CONSTANTS
  NoValue = NoValue
  Dead = Dead
  Runs = {r1, r2, r3}
  TTL = 3
  Timeout = 2
  MaxCrashes = 2
INVARIANTS ExclusiveUnlessOverrun LeaseOutlivesWork
PROPERTIES DeletesSuccessorOnlyIfOverrun CrashedLockExpires
