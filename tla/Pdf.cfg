SPECIFICATION FairSpec
CONSTANTS
  w1 = w1
  w2 = w2
  k1 = k1
  k2 = k2
  NoKey = NoKey
  Invoices = {invoice}
  Reminders = {reminder}
  Workers = {w1, w2}
  Keys = {k1, k2}
  MaxAttempts = 2
  BatchSize = 2
  MaxEvents = 2
  MaxCrashes = 1
INVARIANTS ReadyHasFile ProcessedIsDelivered
PROPERTIES ReadyIsFinal EveryEventSettles
CHECK_DEADLOCK FALSE
