SPECIFICATION FairSpec
CONSTANTS
  Orders = {1}
  Deliveries = {}
  Job = Job
  DayLength = 2
  Lag = 1
  MaxSettle = 1
  PageSize = 1
  DaysMove = FALSE
  MaxClock = 4
  MaxEdits = 2
  MaxInterrupts = 1
PROPERTIES Converges
