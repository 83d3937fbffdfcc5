SPECIFICATION Spec
CONSTANTS
  NoValue = NoValue
  Dead = Dead
  Runs = {r1, r2}
  TTL = 3
  Timeout = 2
  MaxCrashes = 0
INVARIANTS MutualExclusion
