---------------------------- MODULE MCSettlement ----------------------------
EXTENDS SalesReports, TLC

CONSTANTS d1, d2, d3, d4, b1, t1, t2

MCDrafts == {[kind |-> "SALES_INVOICE", total |-> 3],
             [kind |-> "ADVANCE_INVOICE", total |-> 2]}
MCUse(a, n) == [advance |-> a, amount |-> n]
MCPlans == {<<>>} \union {<<MCUse(a, n)>> : a \in Docs, n \in Amounts}
             \union {<<MCUse(a, 1), MCUse(b, 1)>> : a, b \in Docs}
\* A day before anything is due and the last one of a bucket of the aging report.
MCAges == {0, 30}
MCBankAmount == [b \in Banks |-> 2]

Symmetric == Permutations(Docs) \union Permutations(Txns)
=============================================================================
