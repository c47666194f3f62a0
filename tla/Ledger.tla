------------------------------- MODULE Ledger -------------------------------
(***************************************************************************)
(* What the books promise, with every operation taken as one atomic step.  *)
(* Journal implements this specification with row-locking transactions.    *)
(***************************************************************************)
EXTENDS Books, FiniteSets

VARIABLES
  book,       \* journal_entries with their lines
  period,     \* status of every accounting period
  issued,     \* the last entry number given out per fiscal year
  reversals   \* pairs <<original, reversal>>

ledgerVars == <<book, period, issued, reversals>>

AbsentRow == [Draft(CHOOSE d \in Dates : TRUE, "MANUAL", <<>>)
                EXCEPT !.status = "ABSENT"]

LedgerInit ==
  /\ book = [e \in Entries |-> AbsentRow]
  /\ period = [p \in Periods |-> "ABSENT"]
  /\ issued = [y \in Years |-> 0]
  /\ reversals = {}

\* A date may be posted to in fiscal year y when an open period of that year
\* covers it.  Nothing keeps periods from overlapping, and another period of
\* the date may be closed.
OpenIn(date, y) ==
  \E p \in Periods : /\ date \in Covers[p]
                     /\ FiscalYear[p] = y
                     /\ period[p] = "OPEN"

NoOpeningOn(date) ==
  ~ \E e \in Entries : /\ book[e].status = "POSTED"
                       /\ book[e].source = "OPENING_BALANCE"
                       /\ book[e].date = date

CreateDraft(e, date, lines) ==
  /\ book[e].status = "ABSENT"
  /\ book' = [book EXCEPT ![e] = Draft(date, "MANUAL", lines)]
  /\ UNCHANGED <<period, issued, reversals>>

\* Mutant: the lines are not checked again when a draft is posted.
PostMutant(e, y) ==
  /\ book[e].status = "DRAFT"
  /\ OpenIn(book[e].date, y)
  /\ issued' = [issued EXCEPT ![y] = @ + 1]
  /\ book' = [book EXCEPT ![e] = Posted(@, y, issued'[y])]
  /\ UNCHANGED <<period, reversals>>

Post(e, y) ==
  /\ book[e].status = "DRAFT"
  /\ Postable(book[e].lines)
  /\ OpenIn(book[e].date, y)
  /\ issued' = [issued EXCEPT ![y] = @ + 1]
  /\ book' = [book EXCEPT ![e] = Posted(@, y, issued'[y])]
  /\ UNCHANGED <<period, reversals>>

PostOpening(e, date, lines, y) ==
  /\ book[e].status = "ABSENT"
  /\ Postable(lines)
  /\ OpenIn(date, y)
  /\ NoOpeningOn(date)
  /\ issued' = [issued EXCEPT ![y] = @ + 1]
  /\ book' = [book EXCEPT
                ![e] = Posted(Draft(date, "OPENING_BALANCE", lines), y, issued'[y])]
  /\ UNCHANGED <<period, reversals>>

ReverseJournal(o, r, y) ==
  /\ book[o].status = "POSTED"
  /\ book[r].status = "ABSENT"
  /\ OpenIn(book[o].date, y)
  /\ issued' = [issued EXCEPT ![y] = @ + 1]
  /\ book' = [book EXCEPT
                ![o].status = "REVERSED",
                ![r] = Posted(Draft(book[o].date, "JOURNAL_REVERSAL",
                                    Mirror(book[o].lines)), y, issued'[y])]
  /\ reversals' = reversals \union {<<o, r>>}
  /\ UNCHANGED period

ChangePeriod(p) ==
  /\ \/ period[p] = "ABSENT" /\ period' = [period EXCEPT ![p] = "OPEN"]
     \/ /\ period[p] \in {"OPEN", "SOFT_CLOSED"}
        /\ \E s \in {"SOFT_CLOSED", "CLOSED"} : period' = [period EXCEPT ![p] = s]
     \/ /\ period[p] \in {"SOFT_CLOSED", "CLOSED"}
        /\ period' = [period EXCEPT ![p] = "OPEN"]
  /\ UNCHANGED <<book, issued, reversals>>

LedgerNext ==
  \/ \E e \in Entries, d \in Dates, l \in LineSets : CreateDraft(e, d, l)
  \/ \E e \in Entries, y \in Years : Post(e, y)
  \/ \E e \in Entries, d \in Dates, l \in LineSets, y \in Years :
        PostOpening(e, d, l, y)
  \/ \E o, r \in Entries, y \in Years : ReverseJournal(o, r, y)
  \/ \E p \in Periods : ChangePeriod(p)

LedgerSpec == LedgerInit /\ [][LedgerNext]_ledgerVars
-----------------------------------------------------------------------------
\* Every table holds rows of its own shape.
LedgerTypeOK ==
  /\ book \in [Entries -> Row]
  /\ period \in [Periods -> PeriodStatus]
  /\ issued \in [Years -> Nat]
  /\ reversals \in SUBSET (Entries \X Entries)

\* Whatever was posted or reversed balances and has at least two lines
\* (postEntryInTransaction and the trigger tilivo_journal_post_balanced).
PostedBalanced == \A e \in Entries : InBooks(book[e]) => Postable(book[e].lines)

\* The numbers of a fiscal year are exactly 1 .. issued, each held by one
\* entry: parallel postings, refusals and roll-backs leave neither gaps nor
\* duplicates (the journal_sequences upsert).
NumberedIn(y) == {e \in Entries : InBooks(book[e]) /\ book[e].year = y}

GaplessNumbers ==
  \A y \in Years :
    /\ {book[e].number : e \in NumberedIn(y)} = 1 .. issued[y]
    /\ \A e, f \in NumberedIn(y) : book[e].number = book[f].number => e = f

\* An entry is REVERSED exactly when one reversal is recorded for it, and that
\* reversal is in the books, on the same date, with the sides swapped
\* (reverseJournal, tilivo_journal_reversal_validate).
ReversalsMatch ==
  /\ \A e \in Entries :
       book[e].status = "REVERSED" <=> \E r \in Entries : <<e, r>> \in reversals
  /\ \A x, z \in reversals : x[1] = z[1] <=> x[2] = z[2]
  /\ \A x \in reversals :
       /\ InBooks(book[x[2]])
       /\ book[x[2]].date = book[x[1]].date
       /\ book[x[2]].lines = Mirror(book[x[1]].lines)

\* At most one opening balance stands per date
\* (journal_entries_opening_balance_date_unique).
OneOpeningPerDate ==
  \A e, f \in Entries :
    /\ book[e].status = "POSTED" /\ book[f].status = "POSTED"
    /\ book[e].source = "OPENING_BALANCE" /\ book[f].source = "OPENING_BALANCE"
    /\ book[e].date = book[f].date
    => e = f

\* What is in the books never changes: a posted entry may only become
\* REVERSED, a reversed one is final (tilivo_journal_entries_immutable).
BooksAreImmutable ==
  [][\A e \in Entries :
       InBooks(book[e]) =>
         /\ InBooks(book'[e])
         /\ [book'[e] EXCEPT !.status = book[e].status] = book[e]
         /\ book[e].status = "REVERSED" => book'[e].status = "REVERSED"]_ledgerVars
=============================================================================
