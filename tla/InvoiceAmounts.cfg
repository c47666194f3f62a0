SPECIFICATION AmountsSpec
CONSTANTS
  Code <- MCCode
  Patches <- MCPatches
  Statutory <- MCStatutory
  Inputs <- MCInputs
  Selections <- MCSelections
  MaxChanges = 1
  MaxLines = 3
  MaxNotes = 1
INVARIANTS DiscountIsShared BooksMeetDocuments
CHECK_DEADLOCK FALSE
