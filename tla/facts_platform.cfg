SPECIFICATION Spec
CONSTANTS
  NoValue = NoValue
  ForceRewrite = TRUE
  Restating = TRUE
  MaxVersion = 3
  MaxObjectVersion = 3
  Events = {e1}
  Jobs = {j1}
  Orders = {o1}
  d1 = d1
  d2 = d2
  d3 = d3
  jul = jul
  aug = aug
  Days <- MCDays
  Months <- MCMonths
  MonthOf <- MCMonthOf
INVARIANT FactMatchesOrder
PROPERTY ImplementsLedger
