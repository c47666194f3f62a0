------------------------------ MODULE Reports ------------------------------
(***************************************************************************)
(* The figures accountingService.ts computes from the books: trialBalance  *)
(* up to a date, and accountLedger over a range of dates.                  *)
(***************************************************************************)
EXTENDS Ledger, Integers, Functions

CONSTANT NoDate   \* a date filter that was not given

ASSUME ReportsAssumption ==
  /\ Dates \subseteq Nat /\ NoDate \notin Dates
  /\ IsFiniteSet(Entries) /\ IsFiniteSet(Accounts)

\* Mutant: drafts count as well.
CountedMutant == {e \in Entries : book[e].status \in {"DRAFT", "POSTED"}}

\* The entries a report counts.
Counted == {e \in Entries : book[e].status = "POSTED"}

LinesOf(e, a) == {i \in DOMAIN book[e].lines : book[e].lines[i].account = a}

DebitOf(e, a) ==
  SumFunctionOnSet([i \in DOMAIN book[e].lines |-> book[e].lines[i].debit], LinesOf(e, a))
CreditOf(e, a) ==
  SumFunctionOnSet([i \in DOMAIN book[e].lines |-> book[e].lines[i].credit], LinesOf(e, a))

\* sum(debit - credit) of an account over the entries of S.
Balance(S, a) == SumFunctionOnSet([e \in Entries |-> DebitOf(e, a) - CreditOf(e, a)], S)

From(date) == {e \in Counted : date # NoDate => book[e].date >= date}
UpTo(date) == {e \in Counted : date # NoDate => book[e].date <= date}

\* The two columns of the trial balance: whatever the normal side of an account,
\* a positive debit - credit shows on the debit side, a negative one on the other.
DebitColumn(asOf) ==
  SumFunctionOnSet([a \in Accounts |-> Balance(UpTo(asOf), a)],
                   {a \in Accounts : Balance(UpTo(asOf), a) > 0})
CreditColumn(asOf) ==
  SumFunctionOnSet([a \in Accounts |-> -Balance(UpTo(asOf), a)],
                   {a \in Accounts : Balance(UpTo(asOf), a) < 0})

\* Mutant: the entries of the first day are counted into the opening balance.
BeforeMutant(from) == {e \in Counted : from # NoDate => book[e].date <= from}

\* What the opening balance of an account ledger adds up.  Without a from date
\* the query has no date condition at all.
Before(from) == {e \in Counted : from # NoDate => book[e].date < from}

\* closing_balance: the opening balance and the movements of the range.
ClosingBalance(a, from, to) ==
  Balance(Before(from), a) + Balance(From(from) \intersect UpTo(to), a)
-----------------------------------------------------------------------------
\* The columns of the trial balance are equal on every date, whatever drafts
\* exist and whatever has been reversed (trialBalance answers balanced).
TrialBalanceEqual ==
  \A asOf \in Dates \union {NoDate} : DebitColumn(asOf) = CreditColumn(asOf)

\* The account ledger from any date closes with the figure the trial balance of
\* its last date shows (accountLedger against trialBalance).
LedgerMeetsTrialBalance ==
  \A a \in Accounts, from \in Dates, to \in Dates \union {NoDate} :
    (to # NoDate => from <= to) =>
      ClosingBalance(a, from, to) = Balance(UpTo(to), a)

\* A reversed entry and its reversal together leave every balance unchanged
\* (ADR-0015: POSTED reversal entries neutralise the effect).  The reports drop
\* the REVERSED original and keep its POSTED mirror, so this does not hold.
ReversalIsNeutral ==
  \A x \in reversals : book[x[2]].status = "POSTED" =>
    \A a \in Accounts : Balance({x[1], x[2]} \intersect Counted, a) = 0
=============================================================================
