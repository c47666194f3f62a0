SPECIFICATION FairSpec
CONSTANTS
  e1 = e1
  e2 = e2
  e3 = e3
  t1 = t1
  t2 = t2
  cash = cash
  sales = sales
  jan = jan
  feb = feb
  fy1 = fy1
  p1 = p1
  p2 = p2
  NoEntry = NoEntry
  NoPeriod = NoPeriod
  Entries = {e1, e2, e3}
  Txns = {t1, t2}
  Accounts = {cash, sales}
  Dates <- MCDates
  Years = {fy1}
  Periods = {p1, p2}
  StartYear <- MCStartYear
  FiscalYear <- MCFiscalYear
  Covers <- MCCovers
  LineSets <- MCLineSets
INVARIANTS GaplessNumbers ReversalsMatch OneOpeningPerDate NumberIsFree
PROPERTIES NoPostingIntoClosedPeriod BooksAreImmutable ImplementsLedger EveryTransactionEnds
