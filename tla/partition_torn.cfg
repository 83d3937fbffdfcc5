SPECIFICATION Spec
CONSTANTS
  NoValue = NoValue
  a = a
  b = b
  c = c
  Readers = {}
  Contents <- MCContents
  NShards <- MCNShards
  MaxShards = 3
  MaxFolds = 3
  MaxCrashes = 1
CHECK_DEADLOCK FALSE
PROPERTIES UnchangedMeansIdentical
