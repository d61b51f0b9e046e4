SPECIFICATION BooksSpec
CONSTANTS
  Days = {1, 2, 3, 4, 5, 6, 7, 8, 9, 10, 11, 12, 13, 14, 15, 16, 17, 18, 19, 20, 21, 22, 23, 24, 25}
  Amounts = {40, 75, 90, 33, 21}
  Methods = {pix}
  pix = pix
  Nobody = Nobody
  DaysInWeek = 3
  MonthLengths <- FourMonths
  WindowWeeks = 2
  DefaultEntryLimit = 1
  MaxEntryLimit = 2
  MaxRangeEntries = 3
  MaxAggregateSpan = 10
  Weight <- TwoWeights
  RecentDays = 5
  BacktestMonths = 2
  Cutoffs <- OneCutoff
  MaxCashOutDays = 1
  HistoryMonths = 3
  MaxDigestInsights = 1
  MaxToolCategories = 1
  MaxDayTargets = 2
  OverdueLookbackMonths = 1
  MaxOverdue = 1
  MaxWhatsAppText = 60
  HeaderLength = 10
  ContinuationLength = 12
  LineLength <- LengthOfLine
  RuneStart <- EvenBytes
  Histories <- TwoLedgers
  GoalSets <- TwoGoals
  Menu <- SmallMenu
  MaxChanges = 2
  FirstNow = 18
  LastNow = 20
INVARIANTS FiguresAgree PlanInv NothingIsCutSilently WordsMatchTheFigures NoLookAhead
PROPERTIES SellingOnlyFillsTheDay OnlySalesJudge NightsMoveLittle
CHECK_DEADLOCK FALSE
