SPECIFICATION DeskSpec
CONSTANTS
  Requests = {r1, r2}
  None = none
  Templates = {t1, t2}
  StartDays = {31}
  Steps = {1, 3}
  MaxMonth = 2
  MaxDocs = 3
  MaxOps = 6
INVARIANT EveryPeriodBilled NoFalseSuccess
CHECK_DEADLOCK FALSE
