------------------------------ MODULE Journal ------------------------------
(***************************************************************************)
(* The posting transactions of accountingService.ts, one step per row lock *)
(* they wait for or table they read, running concurrently under            *)
(* PostgreSQL's READ COMMITTED isolation: a transaction sees what others   *)
(* committed, waits for a row another one holds FOR UPDATE, and publishes  *)
(* its own writes in one step, Commit.                                     *)
(***************************************************************************)
EXTENDS Books, FiniteSets

CONSTANTS
  Txns,   \* transactions that may be open at once
  NoEntry, NoPeriod

ASSUME JournalAssumption ==
  NoEntry \notin Entries /\ NoPeriod \notin Periods

VARIABLES
  account,    \* accounts.is_active
  period,     \* accounting_periods.status
  entry,      \* committed journal_entries with their lines
  sequence,   \* journal_sequences.next_number, 0 while there is no row
  reversals,  \* journal_reversals, as pairs <<original, reversal>>
  tx          \* the open transactions

vars == <<account, period, entry, sequence, reversals, tx>>

(***************************************************************************)
(* An open transaction: how far it is, the entry it will post, the entry   *)
(* it reverses (if any), its own uncommitted copy of the row to post, the  *)
(* period rows it holds and the period it found.                           *)
(***************************************************************************)
Phase == {"idle", "begun", "inPeriod", "checked", "numbered"}

Tx == [phase : Phase, entry : Entries \union {NoEntry},
       original : Entries \union {NoEntry}, row : Row,
       locked : SUBSET Periods, period : Periods \union {NoPeriod}]

AbsentRow == [Draft(CHOOSE d \in Dates : TRUE, "MANUAL", <<>>)
                EXCEPT !.status = "ABSENT"]

Idle == [phase |-> "idle", entry |-> NoEntry, original |-> NoEntry,
         row |-> AbsentRow, locked |-> {}, period |-> NoPeriod]

Begun(e, o, row) == [Idle EXCEPT !.phase = "begun", !.entry = e,
                                 !.original = o, !.row = row]

Init ==
  /\ account = [a \in Accounts |-> TRUE]
  /\ period = [p \in Periods |-> "ABSENT"]
  /\ entry = [e \in Entries |-> AbsentRow]
  /\ sequence = [y \in Years |-> 0]
  /\ reversals = {}
  /\ tx = [t \in Txns |-> Idle]
-----------------------------------------------------------------------------
\* Row locks follow from how far each transaction is.
EntryHeld(e) == \E t \in Txns : e \in {tx[t].entry, tx[t].original}

\* Mutant: the period row is read without FOR UPDATE.
PeriodHeldMutant(p) == FALSE

PeriodHeld(p) == \E t \in Txns : p \in tx[t].locked
YearOf(t) == FiscalYear[tx[t].period]

\* Mutant: the counter is read, not upserted, so nobody waits for it.
SequenceHeldMutant(y) == FALSE

SequenceHeld(y) == \E t \in Txns : tx[t].phase = "numbered" /\ YearOf(t) = y

\* The period rows the query of postEntryInTransaction returns for a date.
Covering(date) == {p \in Periods : date \in Covers[p] /\ period[p] # "ABSENT"}

AccountsActive(lines) == \A i \in DOMAIN lines : account[lines[i].account]

\* The upsert answers 1 for a new row, and next_number - 1 after the increment.
NextNumber(y) == IF sequence[y] = 0 THEN 1 ELSE sequence[y]

Moved(t, next) == tx' = [tx EXCEPT ![t] = next]

CreateDraft(e, date, lines) ==
  /\ entry[e].status = "ABSENT" /\ ~EntryHeld(e)
  /\ \A i \in DOMAIN lines : DraftLine(lines[i])
  /\ entry' = [entry EXCEPT ![e] = Draft(date, "MANUAL", lines)]
  /\ UNCHANGED <<account, period, sequence, reversals, tx>>

\* Mutant: the status is not required to be DRAFT.
BeginPostMutant(t, e) ==
  /\ tx[t].phase = "idle"
  /\ ~EntryHeld(e) /\ entry[e].status # "ABSENT"
  /\ Moved(t, Begun(e, NoEntry, entry[e]))
  /\ UNCHANGED <<account, period, entry, sequence, reversals>>

\* postJournal: lock the entry, require DRAFT.
BeginPost(t, e) ==
  /\ tx[t].phase = "idle"
  /\ ~EntryHeld(e) /\ entry[e].status = "DRAFT"
  /\ Moved(t, Begun(e, NoEntry, entry[e]))
  /\ UNCHANGED <<account, period, entry, sequence, reversals>>

\* postOpeningBalances: the draft is inserted by the transaction that posts it.
BeginOpening(t, e, date, lines) ==
  /\ tx[t].phase = "idle"
  /\ ~EntryHeld(e) /\ entry[e].status = "ABSENT"
  /\ \A i \in DOMAIN lines : DraftLine(lines[i])
  /\ Moved(t, Begun(e, NoEntry, Draft(date, "OPENING_BALANCE", lines)))
  /\ UNCHANGED <<account, period, entry, sequence, reversals>>

\* reverseJournal: lock the original, require it POSTED and not yet reversed,
\* insert the mirrored draft.
BeginReverse(t, o, e) ==
  /\ tx[t].phase = "idle" /\ o # e
  /\ ~EntryHeld(o) /\ entry[o].status = "POSTED"
  /\ ~ \E x \in reversals : x[1] = o
  /\ ~EntryHeld(e) /\ entry[e].status = "ABSENT"
  /\ Moved(t, Begun(e, o, Draft(entry[o].date, "JOURNAL_REVERSAL",
                                Mirror(entry[o].lines))))
  /\ UNCHANGED <<account, period, entry, sequence, reversals>>

\* The period query holds every covering row and takes the first one returned.
PeriodsFree(t) == \A p \in Covering(tx[t].row.date) : ~PeriodHeld(p)

\* Mutant: the status of the period is not tested.
LockPeriodMutant(t) ==
  /\ tx[t].phase = "begun" /\ PeriodsFree(t)
  /\ \E p \in Covering(tx[t].row.date) :
       Moved(t, [tx[t] EXCEPT !.phase = "inPeriod", !.period = p,
                              !.locked = Covering(tx[t].row.date)])
  /\ UNCHANGED <<account, period, entry, sequence, reversals>>

LockPeriod(t) ==
  /\ tx[t].phase = "begun" /\ PeriodsFree(t)
  /\ \E p \in Covering(tx[t].row.date) :
       /\ period[p] = "OPEN"
       /\ Moved(t, [tx[t] EXCEPT !.phase = "inPeriod", !.period = p,
                                 !.locked = Covering(tx[t].row.date)])
  /\ UNCHANGED <<account, period, entry, sequence, reversals>>

CheckLines(t) ==
  /\ tx[t].phase = "inPeriod"
  /\ AccountsActive(tx[t].row.lines) /\ Postable(tx[t].row.lines)
  /\ Moved(t, [tx[t] EXCEPT !.phase = "checked"])
  /\ UNCHANGED <<account, period, entry, sequence, reversals>>

\* Mutant: the counter moves outside the transaction and survives a roll-back.
TakeNumberMutant(t) ==
  /\ tx[t].phase = "checked" /\ ~SequenceHeld(YearOf(t))
  /\ Moved(t, [tx[t] EXCEPT !.phase = "numbered",
                            !.row = Posted(@, YearOf(t), NextNumber(YearOf(t)))])
  /\ sequence' = [sequence EXCEPT ![YearOf(t)] = NextNumber(YearOf(t)) + 1]
  /\ UNCHANGED <<account, period, entry, reversals>>

TakeNumber(t) ==
  /\ tx[t].phase = "checked" /\ ~SequenceHeld(YearOf(t))
  /\ Moved(t, [tx[t] EXCEPT !.phase = "numbered",
                            !.row = Posted(@, YearOf(t), NextNumber(YearOf(t)))])
  /\ UNCHANGED <<account, period, entry, sequence, reversals>>

\* The unique indexes on entry_number and on POSTED opening balances.
DuplicateNumber(row) ==
  \E e \in Entries : InBooks(entry[e]) /\ EntryNumber(entry[e]) = EntryNumber(row)

\* Mutant: the index on opening balances is missing.
DuplicateOpeningMutant(row) == FALSE

DuplicateOpening(row) ==
  /\ row.source = "OPENING_BALANCE"
  /\ \E e \in Entries : /\ entry[e].status = "POSTED"
                        /\ entry[e].source = "OPENING_BALANCE"
                        /\ entry[e].date = row.date

\* tilivo_journal_reversal_validate, on the rows about to be linked.
ReversalValid(row, original) ==
  /\ original.status = "POSTED" /\ row.status = "POSTED"
  /\ row.date = original.date /\ row.lines = Mirror(original.lines)

\* Mutant: the original is linked to its reversal and left POSTED.
CommitMutant(t) ==
  LET row == tx[t].row
      o == tx[t].original
  IN /\ tx[t].phase = "numbered"
     /\ Balanced(row.lines)
     /\ ~DuplicateNumber(row) /\ ~DuplicateOpening(row)
     /\ sequence' = [sequence EXCEPT ![row.year] = row.number + 1]
     /\ entry' = [entry EXCEPT ![tx[t].entry] = row]
     /\ reversals' = IF o = NoEntry THEN reversals
                     ELSE reversals \union {<<o, tx[t].entry>>}
     /\ Moved(t, Idle)
     /\ UNCHANGED <<account, period>>

\* The row updates of the transaction, seen by the others from here on.
Commit(t) ==
  LET row == tx[t].row
      o == tx[t].original
  IN /\ tx[t].phase = "numbered"
     /\ Balanced(row.lines)
     /\ ~DuplicateNumber(row) /\ ~DuplicateOpening(row)
     /\ sequence' = [sequence EXCEPT ![row.year] = row.number + 1]
     /\ \/ /\ o = NoEntry
           /\ entry' = [entry EXCEPT ![tx[t].entry] = row]
           /\ UNCHANGED reversals
        \/ /\ o # NoEntry /\ ReversalValid(row, entry[o])
           /\ entry' = [entry EXCEPT ![tx[t].entry] = row,
                                     ![o].status = "REVERSED"]
           /\ reversals' = reversals \union {<<o, tx[t].entry>>}
     /\ Moved(t, Idle)
     /\ UNCHANGED <<account, period>>

\* Mutant: the unique violation on opening balances is swallowed.
RefuseMutant(t) ==
  /\ \/ /\ tx[t].phase = "begun" /\ PeriodsFree(t)
        /\ \/ Covering(tx[t].row.date) = {}
           \/ \E p \in Covering(tx[t].row.date) : period[p] # "OPEN"
     \/ /\ tx[t].phase = "inPeriod"
        /\ ~AccountsActive(tx[t].row.lines) \/ ~Postable(tx[t].row.lines)
     \/ tx[t].phase = "numbered" /\ DuplicateNumber(tx[t].row)
  /\ Moved(t, Idle)
  /\ UNCHANGED <<account, period, entry, sequence, reversals>>

\* Every check that throws: the transaction rolls back.
Refuse(t) ==
  /\ \/ /\ tx[t].phase = "begun" /\ PeriodsFree(t)
        /\ \/ Covering(tx[t].row.date) = {}
           \/ \E p \in Covering(tx[t].row.date) : period[p] # "OPEN"
     \/ /\ tx[t].phase = "inPeriod"
        /\ ~AccountsActive(tx[t].row.lines) \/ ~Postable(tx[t].row.lines)
     \/ /\ tx[t].phase = "numbered"
        /\ DuplicateNumber(tx[t].row) \/ DuplicateOpening(tx[t].row)
  /\ Moved(t, Idle)
  /\ UNCHANGED <<account, period, entry, sequence, reversals>>

\* The connection or the API process is lost: PostgreSQL rolls back.
Crash(t) ==
  /\ tx[t].phase # "idle"
  /\ Moved(t, Idle)
  /\ UNCHANGED <<account, period, entry, sequence, reversals>>

\* PATCH /accounts/:id writes is_active without locking anything else.
SetAccountActive(a) ==
  /\ account' = [account EXCEPT ![a] = ~@]
  /\ UNCHANGED <<period, entry, sequence, reversals, tx>>

CreatePeriod(p) ==
  /\ period[p] = "ABSENT"
  /\ period' = [period EXCEPT ![p] = "OPEN"]
  /\ UNCHANGED <<account, entry, sequence, reversals, tx>>

\* Both are one UPDATE: it waits for the row, then tests its status.
SetPeriodStatus(p, status) ==
  /\ period[p] \in {"OPEN", "SOFT_CLOSED"} /\ ~PeriodHeld(p)
  /\ period' = [period EXCEPT ![p] = status]
  /\ UNCHANGED <<account, entry, sequence, reversals, tx>>

ReopenPeriod(p) ==
  /\ period[p] \in {"SOFT_CLOSED", "CLOSED"} /\ ~PeriodHeld(p)
  /\ period' = [period EXCEPT ![p] = "OPEN"]
  /\ UNCHANGED <<account, entry, sequence, reversals, tx>>

Step(t) == LockPeriod(t) \/ CheckLines(t) \/ TakeNumber(t) \/ Commit(t) \/ Refuse(t)

Begin(t) ==
  \/ \E e \in Entries : BeginPost(t, e)
  \/ \E e \in Entries, d \in Dates, l \in LineSets : BeginOpening(t, e, d, l)
  \/ \E o, e \in Entries : BeginReverse(t, o, e)

Next ==
  \/ \E t \in Txns : Begin(t) \/ Step(t) \/ Crash(t)
  \/ \E e \in Entries, d \in Dates, l \in LineSets : CreateDraft(e, d, l)
  \/ \E a \in Accounts : SetAccountActive(a)
  \/ \E p \in Periods : \/ CreatePeriod(p) \/ ReopenPeriod(p)
                        \/ SetPeriodStatus(p, "SOFT_CLOSED")
                        \/ SetPeriodStatus(p, "CLOSED")

Spec == Init /\ [][Next]_vars

(***************************************************************************)
(* PostgreSQL hands a row lock to its waiters in turn, and an open         *)
(* transaction runs on without further input; only then is anything        *)
(* certain to happen.  Requests, roll-backs and administrators are free.   *)
(***************************************************************************)
FairSpec == Spec /\ \A t \in Txns : SF_vars(Step(t))
-----------------------------------------------------------------------------
\* The last number given out: journal_sequences holds the one after it.
Issued == [y \in Years |-> IF sequence[y] = 0 THEN 0 ELSE sequence[y] - 1]

Promise == INSTANCE Ledger WITH book <- entry, issued <- Issued

\* Every variable, and every open transaction, has its shape.
TypeOK ==
  /\ account \in [Accounts -> BOOLEAN]
  /\ period \in [Periods -> PeriodStatus]
  /\ entry \in [Entries -> Row]
  /\ sequence \in [Years -> Nat]
  /\ reversals \in SUBSET (Entries \X Entries)
  /\ tx \in [Txns -> Tx]

\* No entry enters the books while a period covering its date is closed, not
\* even one that closed after the transaction had found it open (ADR-0014: no
\* intermediate state where an entry is posted into a closed period).
NoPostingIntoClosedPeriod ==
  [][\A e \in Entries :
       ~InBooks(entry[e]) /\ InBooks(entry'[e]) =>
         \A p \in Covering(entry'[e].date) : period[p] = "OPEN"]_vars

\* An entry that passed every check of the posting flow gets a number nobody
\* has: posting into an open period is allowed (ADR-0014).  Holds when no two
\* fiscal years start in the same calendar year.
NumberIsFree ==
  \A t \in Txns : tx[t].phase = "numbered" => ~DuplicateNumber(tx[t].row)

\* Numbering stays gapless over interleaved postings, refusals and crashes.
GaplessNumbers == Promise!GaplessNumbers

\* Racing reversals of one entry leave exactly one, and it mirrors the entry.
ReversalsMatch == Promise!ReversalsMatch

\* Racing opening balances of one date leave exactly one.
OneOpeningPerDate == Promise!OneOpeningPerDate

\* Racing requests never alter or renumber what is in the books.
BooksAreImmutable == Promise!BooksAreImmutable

\* Seen from outside, every transaction is one atomic operation on the books.
ImplementsLedger == Promise!LedgerSpec

\* Every transaction commits or is rolled back: row locks are taken in an
\* order that never leaves two transactions waiting for each other.
EveryTransactionEnds ==
  \A t \in Txns : tx[t].phase # "idle" ~> tx[t].phase = "idle"
=============================================================================
