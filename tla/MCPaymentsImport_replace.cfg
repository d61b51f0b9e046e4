SPECIFICATION Spec
CONSTANTS
  first = first
  corrected = corrected
  broken = broken
  other = other
  saleA = saleA
  r1 = r1
  r2 = r2
  Nil = Nil
  Nobody = Nobody
  MonthLengths <- ShortMonths
  Files <- TheFiles
  LedgerOf <- TheLedger
  Imports <- AllDates
  Keys <- AllKeys
  Versions = {first, corrected, broken, other}
  Of <- TheImports
  Malformed <- TheMalformed
  KeysOf <- TheKeys
  Runs = {r1, r2}
  BatchSize = 2
  MaxTries = 2
  MaxDrops = 3
  Redrop = "same"
INVARIANTS ReplaceInv EveryLineIsCounted ForecastKeepsTheLedger AssemblyKeepsThePlan
PROPERTIES NothingGoesMissing
SYMMETRY TwoRuns
CHECK_DEADLOCK FALSE
