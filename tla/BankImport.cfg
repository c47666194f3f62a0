SPECIFICATION FairSpec
CONSTANTS
  a1 = a1
  a2 = a2
  i1 = i1
  i2 = i2
  newest = newest
  oldest = oldest
  camt = camt
  None = None
  Requests = {r1, r2}
  Accounts = {a1, a2}
  Ibans = {i1, i2}
  Files = {newest, oldest, camt}
  MaxChanges = 2
  Rows <- MCRows
  Contents <- MCContents
  Opened <- MCOpened
INVARIANTS ImportedOnce NothingLost
PROPERTIES EveryImportEnds
CHECK_DEADLOCK FALSE
