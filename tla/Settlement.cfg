SPECIFICATION Spec
CONSTANTS
  d1 = d1
  d2 = d2
  d3 = d3
  d4 = d4
  b1 = b1
  t1 = t1
  t2 = t2
  Books = Books
  NoDoc = NoDoc
  Docs = {d1, d2, d3}
  Banks = {b1}
  Txns = {t1, t2}
  Amounts = {1, 2}
  MaxAllocations = 2
  Drafts <- MCDrafts
  Plans <- MCPlans
  BankAmount <- MCBankAmount
  Ages <- MCAges
SYMMETRY Symmetric
CHECK_DEADLOCK FALSE
INVARIANTS AdvancesNotOverdrawn InvoiceNumbersGapless SubledgerMeetsBooks CreditsAddUp PaidOnce ReportsAgree
PROPERTIES ManualWithinOpen IssuedIsImmutable
