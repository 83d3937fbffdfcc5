SPECIFICATION FairSpec
CONSTANTS
  Orders = {1, 2}
  Deliveries = {w1}
  Job = Job
  DayLength = 2
  Lag = 1
  MaxSettle = 1
  PageSize = 1
  DaysMove = TRUE
  MaxClock = 4
  MaxEdits = 3
  MaxInterrupts = 1
INVARIANTS CursorBehindFacts WatermarkHonest
PROPERTY ConvergesUnlessMoved
