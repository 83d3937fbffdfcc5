SPECIFICATION Spec
CONSTANTS
  Null = Null
  MonthStarts <- Months
  QuarterStarts <- Quarters
  YearStarts <- Years
  Today <- MCToday
  WebTimezone = "Europe/Berlin"
  ItemTopN = 1
  Products <- MCProducts
  CategoryKeys <- MCCategoryKeys
  TopRows = 2
  Holdings <- MCHoldings
  Orders <- MCOrders
  StoredReports <- MCStoredReports
  Scenarios <- MarginScenarios
  OnMap <- MCOnMap
  Entities <- MCEntities
  Locale = "de-DE"
  Language = "de"
CHECK_DEADLOCK FALSE
INVARIANT NetRevenueIsOrderGrain
