SPECIFICATION LedgerSpec
CONSTANTS
  e1 = e1
  e2 = e2
  e3 = e3
  e4 = e4
  cash = cash
  sales = sales
  fy1 = fy1
  fy2 = fy2
  p1 = p1
  p2 = p2
  NoDate = 0
  Entries = {e1, e2, e3, e4}
  Accounts = {cash, sales}
  Dates <- MCDates
  Years = {fy1, fy2}
  Periods = {p1, p2}
  StartYear <- MCStartYear
  FiscalYear <- MCFiscalYear
  Covers <- MCCovers
  LineSets <- MCLineSets
SYMMETRY Symmetry
INVARIANTS PostedBalanced TrialBalanceEqual LedgerMeetsTrialBalance
