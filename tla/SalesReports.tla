---------------------------- MODULE SalesReports ----------------------------
(***************************************************************************)
(* What the sales ledger, the aging report, the customer's statement and   *)
(* balance and the advance screen say of the tables of Settlement: five    *)
(* readings of the same documents (salesService.ts, salesMath.ts).  All    *)
(* documents are those of one customer.                                    *)
(***************************************************************************)
EXTENDS Settlement

CONSTANT Ages  \* days a document may be past its due date

ASSUME SalesReportsAssumption == Ages \subseteq Int

Owing == {d \in Docs : doc[d].status = "ISSUED"}
Invoices == {d \in Docs : Issued(d) /\ doc[d].kind # "SALES_CREDIT_NOTE"}

\* openBalance
OpenBalance(d) == Max({0, Open(d)})

\* The summary of salesLedger, and the "open" of customerBalance: the ledger
\* counts every ISSUED document, the balance leaves credit notes out.
OpenOver(S) == SumFunctionOnSet([d \in Docs |-> OpenBalance(d)], S)
Outstanding == OpenOver(Owing)
CustomerOpen == OpenOver(Owing \intersect Invoices)

\* agingBucketFor
Buckets == {"NOT_DUE", "1_7", "8_30", "31_60", "61_90", "OVER_90"}

Bucket(d, days) ==
  IF OpenBalance(d) = 0 \/ days <= 0 THEN "NOT_DUE"
  ELSE CASE days \in 1 .. 7 -> "1_7"
         [] days \in 8 .. 30 -> "8_30"
         [] days \in 31 .. 60 -> "31_60"
         [] days \in 61 .. 90 -> "61_90"
         [] OTHER -> "OVER_90"

\* salesAging, every document being days past its due date.
Aging(bucket, days) == OpenOver({d \in Owing : Bucket(d, days) = bucket})

\* overdueDays, which also looks at what is open.
OverdueDays(d, days) == IF Open(d) <= 0 \/ d \notin Owing THEN 0 ELSE Max({0, days})

\* The rows of sales_invoice_payments: those entered by hand and those a
\* reconciliation wrote for the allocations of the transaction it posted.
\* Mutant: the statement reads the payments entered by hand.
PaymentsOfMutant(d) == manual[d]

PaymentsOf(d) == manual[d] + PaidByBank(d)

\* customerStatement: what was billed, less credit notes, less payments.
StatementTotal ==
  SumFunctionOnSet([d \in Docs |-> doc[d].total - doc[d].advance
                                     - NotesTotal(d) - PaymentsOf(d)], Invoices)

\* getInvoiceAdvanceState
Remaining(a) == Max({0, doc[a].total - AppliedFrom(a)})
-----------------------------------------------------------------------------
\* The reports of one customer agree, although the statement is computed from
\* credit notes and payments and the others from the amounts kept on the
\* invoices: statement and balance differ by what was paid too much and by what
\* credited invoices leave behind (what their notes and payments did not take
\* of them, which the balance does not look at); every open cent is in one bucket of the aging,
\* past due exactly where days are counted; and the advance screens add up to
\* the account of advances received.
ReportsAgree ==
  /\ StatementTotal =
       CustomerOpen
         + SumFunctionOnSet([d \in Docs |-> doc[d].total - doc[d].advance
                                              - NotesTotal(d) - doc[d].paid],
                            Invoices \ Owing)
         - SumFunctionOnSet([d \in Docs |-> Max({0, -Open(d)})],
                            Owing \intersect Invoices)
  /\ \A days \in Ages :
       /\ SumFunction([bucket \in Buckets |-> Aging(bucket, days)]) = Outstanding
       /\ \A d \in Owing : Bucket(d, days) = "NOT_DUE" <=> OverdueDays(d, days) = 0
  /\ SumFunctionOnSet([a \in Docs |-> Remaining(a)],
                      {a \in Invoices : doc[a].kind = "ADVANCE_INVOICE"})
       = AdvancesAccount
=============================================================================
