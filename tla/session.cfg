SPECIFICATION Spec
CONSTANTS
  built = built
  custom = custom
  f1 = f1
  f2 = f2
  x = x
  y = y
  None = None
  Catalogue = Catalogue
  Builder = Builder
  Blank = Blank
  BuiltIns <- BuiltInsDef
  Customs = {custom}
  Filters = {f1, f2}
  DefaultOf <- DefaultOfDef
  HookDefault = f1
  Watched <- WatchedDef
  Bodies = {x, y}
  MaxEntries = 1
  MaxTiles = 2
  MaxWorld = 1
  r1 = r1
  r2 = r2
  Runs = {r1, r2}
  e1 = e1
  e2 = e2
  Edits = {e1, e2}
  MaxClicks = 5
  MaxFaults = 1
  Written <- WrittenDef
  Bookmarks = {None}
INVARIANTS ShownIsAsked NeverOlder FramesAreTheirOwn SpinnersEnd
SYMMETRY Symmetry
CHECK_DEADLOCK FALSE
