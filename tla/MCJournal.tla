----------------------------- MODULE MCJournal -----------------------------
(***************************************************************************)
(* Small instances of Journal.  One fiscal year with two periods of one    *)
(* date each, so that postings meet at the counter as well as at a period. *)
(***************************************************************************)
EXTENDS Journal, TLC

CONSTANTS e1, e2, e3, t1, t2, cash, sales, jan, feb, fy1, p1, p2

MCDates == {jan, feb}
MCFiscalYear == p1 :> fy1 @@ p2 :> fy1
MCStartYear == fy1 :> 2026
MCCovers == p1 :> {jan} @@ p2 :> {feb}

Debit(a, n) == [account |-> a, debit |-> n, credit |-> 0]
Credit(a, n) == [account |-> a, debit |-> 0, credit |-> n]

\* Every draft balances: those that do not are the business of MCLedger.
MCLineSets == {<<Debit(cash, 1), Credit(sales, 1)>>}
=============================================================================
