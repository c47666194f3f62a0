----------------------------- MODULE MCLedger ------------------------------
(***************************************************************************)
(* Small instances of Ledger with the reports over it.                     *)
(***************************************************************************)
EXTENDS Reports, TLC

CONSTANTS e1, e2, e3, e4, cash, sales, fy1, fy2, p1, p2

\* Two days, each with a period of its own.
MCDates == 1 .. 2
MCFiscalYear == p1 :> fy1 @@ p2 :> fy2
MCStartYear == fy1 :> 2025 @@ fy2 :> 2026
MCCovers == p1 :> {1} @@ p2 :> {2}

Debit(a, n) == [account |-> a, debit |-> n, credit |-> 0]
Credit(a, n) == [account |-> a, debit |-> 0, credit |-> n]

\* A sale, a refund of twice the amount, and a draft that does not balance.
MCLineSets == {<<Debit(cash, 1), Credit(sales, 1)>>,
               <<Debit(sales, 2), Credit(cash, 2)>>,
               <<Debit(cash, 2), Credit(sales, 1)>>}

Symmetry == Permutations({e1, e2, e3, e4})
=============================================================================
