SPECIFICATION Spec
CONSTANTS
  NoValue = NoValue
  a = a
  b = b
  c = c
  Readers = {r1}
  Contents <- MCContents
  NShards <- MCNShards
  MaxShards = 3
  MaxFolds = 4
  MaxCrashes = 2

PROPERTIES CompleteFoldIsExact UnchangedIfUndamaged UndisturbedReadIsOneFold
