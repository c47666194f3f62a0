------------------------------- MODULE Books -------------------------------
(***************************************************************************)
(* The rows of one tenant's accounting tables and the pure computations on *)
(* journal lines.  Shared by Ledger (what the books promise) and Journal   *)
(* (the transactions of accountingService.ts that keep the promise).       *)
(*                                                                         *)
(* Amounts are naturals (minor units): the NUMERIC columns are compared    *)
(* and added, and negative input is refused by createJournalDraft and by   *)
(* a CHECK constraint.                                                     *)
(***************************************************************************)
EXTENDS Naturals, Sequences

CONSTANTS
  Entries,      \* identifiers of journal_entries rows (uuids)
  Accounts,     \* accounts of the chart
  Dates,        \* business dates
  Years,        \* fiscal_years rows
  Periods,      \* accounting_periods rows, existing or still to be created
  StartYear,    \* calendar year in which a fiscal year starts
  FiscalYear,   \* the fiscal_year_id of a period
  Covers,       \* the dates between start_date and end_date of a period
  LineSets      \* the line lists a request may carry

Amount == Nat
Line == [account : Accounts, debit : Amount, credit : Amount]

ASSUME BooksAssumption ==
  /\ Dates # {} /\ Years # {}
  /\ FiscalYear \in [Periods -> Years]
  /\ Covers \in [Periods -> SUBSET Dates]
  /\ StartYear \in [Years -> Nat]
  /\ LineSets \subseteq Seq(Line)

EntryStatus == {"ABSENT", "DRAFT", "POSTED", "REVERSED"}
PeriodStatus == {"ABSENT", "OPEN", "SOFT_CLOSED", "CLOSED"}
Source == {"MANUAL", "OPENING_BALANCE", "JOURNAL_REVERSAL"}

(***************************************************************************)
(* One journal_entries row with its journal_lines.  year and number are    *)
(* the fiscal year and the counter value that entry_number is made of;     *)
(* number = 0 stands for an entry_number that is still NULL.               *)
(***************************************************************************)
Row == [status : EntryStatus, date : Dates, source : Source,
        lines : Seq(Line), year : Years, number : Nat]

\* entry_number, 'YYYY-######': the year the fiscal year starts in, and the
\* counter.  Equal for two rows exactly when the texts are equal.
EntryNumber(row) == <<StartYear[row.year], row.number>>

InBooks(row) == row.status \in {"POSTED", "REVERSED"}

\* Decimal.plus over the lines.  A recursive function, and no fold of the
\* library, because the proofs compare it across an INSTANCE.
Total(amounts) ==
  LET sum[n \in 0 .. Len(amounts)] == IF n = 0 THEN 0 ELSE amounts[n] + sum[n - 1]
  IN  sum[Len(amounts)]

DebitTotal(lines) == Total([i \in DOMAIN lines |-> lines[i].debit])
CreditTotal(lines) == Total([i \in DOMAIN lines |-> lines[i].credit])

\* The check of the trigger tilivo_journal_post_balanced.
Balanced(lines) == Len(lines) >= 2 /\ DebitTotal(lines) = CreditTotal(lines)

\* A draft line may be empty but never carries both sides.
DraftLine(line) == line.debit = 0 \/ line.credit = 0

\* A line that may be posted carries exactly one side.
PostableLine(line) == DraftLine(line) /\ (line.debit > 0 \/ line.credit > 0)

Postable(lines) ==
  Balanced(lines) /\ \A i \in DOMAIN lines : PostableLine(lines[i])

Mirror(lines) ==
  [i \in DOMAIN lines |-> [account |-> lines[i].account,
                           debit   |-> lines[i].credit,
                           credit  |-> lines[i].debit]]

\* A freshly inserted row: DRAFT, no number yet.
Draft(date, source, lines) ==
  [status |-> "DRAFT", date |-> date, source |-> source, lines |-> lines,
   year |-> CHOOSE y \in Years : TRUE, number |-> 0]

Posted(row, y, n) ==
  [row EXCEPT !.status = "POSTED", !.year = y, !.number = n]
=============================================================================
