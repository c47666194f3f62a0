# Verification of Tilivo

Tilivo is a multi-tenant bookkeeping service for small companies: a Fastify API
over PostgreSQL (`src/apps/api`), a worker process that serves an outbox, and a
web client.  Every request runs one database transaction
(`withTenantTransaction`, READ COMMITTED, rows locked with `FOR UPDATE` where
the code asks for it); there is no other synchronisation between requests,
between the API and the worker, or between two workers.  What can go wrong is
therefore in the order in which transactions lock rows, read what others
committed, are refused, or are lost half way, and in sums that must agree over
long histories.  That is what the modules here describe and check.

## Inventory

Paths are under `src/apps/api/src` unless they say otherwise.

| Component | State | Operations | What makes it correct |
|---|---|---|---|
| Accounting core (`services/accountingService.ts`, `routes/accounting.ts`, migrations `accounting_core`, `accounting_hardening`, `accounting_core_v08`) | journal entries with their lines, periods, one number counter per fiscal year, reversal pairs | draft, post, opening balance, reverse; open, soft-close, close and reopen periods | entries balance and never change; numbers are gapless per fiscal year; nothing enters a closed period; one reversal per entry, one opening balance per date; transactions end |
| Accounting reports (`trialBalance`, `accountLedger`) | none of their own | sums over dates | debits equal credits on every date; the account ledger closes with the trial balance's figure; a reversal leaves no trace in the balances |
| Sales (`services/salesService.ts`, `salesMath.ts`, `routes/sales.ts`) | invoices, advances, credit notes, their links and applications, manual payments, the number series | edit drafts, issue, use advances, credit in full or in part, pay; ledger, aging, statements, balances | advances are not overdrawn; numbers are gapless; the sales ledger agrees with the books and the reports with each other; credits add up; issued documents are immutable |
| Sales desk (same files) | settings, series, templates with their next run, the history of what was sent | draft, generate recurring invoices, send invoices and reminders, export e-invoices | every period is billed once; nothing is called sent that was not |
| Banking (`services/bankingReconciliationService.ts`; import in `bankingService.ts`, matching in `bankingMatching.ts`) | statements, bank transactions, allocations | import, suggest, allocate, reconcile, review | a bank transaction is posted once and counted once; an import repeated adds nothing |
| Outbox, worker and PDFs (`services/integrationQueue.ts`, `worker.ts`, `services/invoicePdfWorker.ts`) | events, PDF rows, documents, stored files | append, claim, render, store, mark, retry, give up | a READY PDF has its own file and never changes; every event is settled; none is marked done undelivered |
| Purchases (`services/purchaseService.ts`, `expenseClassificationService.ts`, `routes/purchases.ts`, migrations `purchases_core`, `purchase_merchant_review`) | purchase invoices from DRAFT to POSTED and CORRECTED with their lines, settings, documents | enter, import, scan, edit, classify, review, reject, cancel, approve, post, correct | approval by another person, one posting per invoice, corrections mirror postings, no invoice counted twice, nothing moves after review |
| Identity (`routes/auth.ts`, `services/sessionService.ts`, `twoFactorService.ts`, `identityService.ts`) | users, sessions, one-time tokens, recovery codes, credentials of authenticators | register, verify, log in, second factor, set up, disable, change and reset the password | challenges, codes and tokens are good for one use; a new password ends the sessions of the old |
| Tenants and roles (`services/tenantService.ts`, `routes/tenant.ts`) | memberships, their states and roles | add, change state, assign and revoke roles, remove | there is always an owner |
| Audit (`services/audit.ts`, `db/pool.ts`) | hash chain of events, the pool of connections | append under an advisory lock on a second connection, verify | the chain is linked after any interleaving of appends; no request waits for ever for a connection |
| Amounts and VAT (`services/vatEngineService.ts`, `salesMath.ts`, the line arithmetic of sales and purchases, `vatSummary` and tax codes in `accountingService.ts`) | tax codes, the snapshot of them an invoice keeps | compute lines, share discounts, group the lines of an entry, sum them up | every entry balances to the cent and says what the document says |
| Documents, OCR, expenses, employees, time, business registry, e-mail, web client, deployment | see `PROJECT.json` | record keeping, input and output | little that interleaves |

How they interact.  Issuing, crediting and reconciling call
`createJournalDraftInTransaction` and `postJournalEntryInTransaction` inside
their own transaction, so a refusal of the accounting core rolls back the sale;
issuing also writes a PDF row and an outbox event in that transaction.  The
worker polls the outbox, renders, writes a file and points a document at it.
The hard behaviours: two requests on one row; rows locked in different orders;
rows read without a lock and used later; refusals and lost connections after a
number was drawn; a worker that dies between a file and its commit; two
workers; retries.  `PROJECT.json` lists them one by one, at their lines, with
the property that covers each or the reason none does.

## Modules

| Module | What it describes |
|---|---|
| `Books` | rows of the journal: amounts, lines, when a draft may be posted, what posting and mirroring make of it.  No state. |
| `Ledger` | the promise of the accounting core: every operation is one atomic step on the books, the periods, the numbers issued and the reversals. |
| `Journal` | the accounting core as it is: any number of open transactions, one step per row lock or table they wait for, commits, refusals, crashes, administrators at the same time.  Refines `Ledger`. |
| `Reports` | trial balance and account ledger as operators over `Ledger`. |
| `Settlement` | sales documents, their advances, credit notes and payments, and the bank transactions matched with them. |
| `SalesReports` | ledger, aging, statement and balance as operators over `Settlement`. |
| `VatEngine` | the VAT of one line.  No state. |
| `InvoiceAmounts` | lines, discounts, totals, journal entries and the VAT summary, while tax codes change.  Extends `VatEngine`; it is where the totals of `Settlement` and `Purchases` come from. |
| `SalesDesk` | drafts, settings, recurring invoices, sending and reminders. |
| `PdfDelivery` | outbox, workers, PDF rows and files. |
| `Purchases` | purchase invoices, the requests that write to them, and the entries they make. |
| `BankImport` | bank accounts and the import of statement files. |
| `AuditTrail` | the connections a request takes and the hash chain it appends to after its transaction. |
| `Tenants` | members and roles.  Extends `AuditTrail` with what the transactions of a request do. |
| `Login` | the account of one user: password, tokens, second factor, sessions. |
| `SumTheorems` | lemmas on sums of functions over finite sets, used by the proofs about amounts. |
| `LedgerProofs`, `JournalProofs` | proofs about `Books`, `Ledger` and `Journal`. |
| `TotalsProofs` | proofs about `Settlement`, `SalesReports` and `Reports`. |
| `InvoiceProofs` | proofs about `Purchases`, `VatEngine` and `InvoiceAmounts`. |
| `DeliveryProofs` | proofs about `PdfDelivery` and `SalesDesk`. |
| `IdentityProofs` | proofs about `Login`, `AuditTrail` and `Tenants`. |
| `BankImportProofs` | proofs about `BankImport`. |
| `MC*` | small instances for TLC. |

**Journal.**  `entry`, `period`, `sequence`, `reversals` and `account` are the
committed tables; `tx[t]` is what an open transaction has got to and what it
has not yet committed.  `BeginPost`, `BeginOpening` and `BeginReverse` lock the
entry; `LockPeriod` waits for all the period rows that cover the date and tests
the one it found first; `CheckLines` is the line and account validation;
`TakeNumber` waits for the counter row (`INSERT ... ON CONFLICT DO UPDATE`);
`Commit` publishes everything, including the triggers' and unique indices'
verdict.  `Refuse` is every throw after the first lock, `Crash` a lost
connection or process.  A row lock is not a variable: it follows from how far
its holder is.  In the refinement, only `Commit`, `CreateDraft` and the period
operations are steps of `Ledger`; the rest stutters.  `Issued` maps the counter,
which holds the next number, to the last one given out.

**Settlement.**  A transaction has a list of rows still to lock (`todo`) and a
set it holds (`held`), because here the order of locks differs between
operations: issuing takes the invoice, the advances in the order of the request,
then the books; crediting the original, then the books; reconciling the bank
transaction, then the books, then the invoices.  `Books` stands for the series,
period and counter rows a posting keeps to its commit; the posting itself is
`Journal`'s business and appears as what it debits and credits (`posting`) and
as `Abort` when it is refused.  Taking several rows as one loses no deadlock
between them and the invoices; among themselves they are always locked in the
same order.  Tests are made when the next row is locked, as in the code; what
constraints and triggers refuse at the end is `Violates`.  An allocation to an
account has no document to lock (`NoDoc` in `todo`).  Circles of waiting
transactions really occur here; `BreakDeadlock` is PostgreSQL's detection.
Amounts are totals in cents: lines, VAT and discounts are behind `total`;
tolerances of a tenth of a cent vanish, those of a cent (`FullyCredited`,
`WholeAllowed`) stay.  There are two credit routes.  `createCreditNote` credits
an amount within what is left.  `creditInvoice` (`whole`) copies the lines and
computes the note's total anew: from today's tax codes it may come to less than
the original, which is written off as a whole all the same; `WrittenOff` names
these originals in the properties, which say of every other one that its notes,
its credited amount and the books agree.

**PdfDelivery.**  One action per step of the worker between which it can die or
another worker can act: claim, start, store the file, commit, mark the event,
schedule a retry.  The claim keeps no lock, as in the code; it takes the oldest
due events (`Oldest`).  The answer to a COMMIT may be lost: the worker then takes
for failed what has succeeded.

**Purchases.**  Most operations lock the invoice, test it and commit; nothing
they tested can change in between, so each is one step.  Four are not, and are
what the module is about.  An approval reads the settings and only then waits
for the row (`BeginApprove`, `Approve`).  A classification reads the invoice
without a lock, writes row and lines, and commits (`BeginClassify`, `Classify`,
`CommitClassify`); what it has written and not committed is the one lock that
others can meet, and `RowFree` and `LinesFree` say who has to wait for it: a
review waits for the row but not for the lines.  OCR reads the status, extracts
outside of any transaction, and writes (`BeginOcr`, `ApplyOcr`).  An import
looks for its event in a transaction of its own, looks again, and inserts
(`BeginImport`, `LookAgain`, `Import`).  The triggers are part of the guards:
what they refuse is no step, and the request ends by `Abandon`.  An entry keeps
its counter account and its lines; the posting itself is `Journal`'s business.
Every invoice has the same date, so supplier and number alone make a duplicate;
a number OCR reads does not reach the normalised column, and is left out.
`relaxed` remembers whether the rule of the second person was ever off.

**SalesReports.**  Five readings of one set of tables: the summary of the sales
ledger, the aging, the statement, the balance of a customer and what is left of
an advance, for documents any number of days (`Ages`) past due.

**InvoiceAmounts.**  `codes` are the tax codes, `draft` the invoice being
prepared with the tax codes its lines were entered with, `docs` what was issued
or posted, `books` the entries.  One request at a time: nothing interleaves
here but changes of tax codes (`CreateTaxCode`, `UpdateTaxCode`), which may come
between entering a draft and booking it.  `Issue` and `IssueWithAdvance`
compute the lines anew with today's codes, `PostPurchase` books the snapshot,
`CreditAll` and `CreditSome` take the lines of the original and the codes of
today.  Rounding is half up, as `Decimal` does it; quantities are in
thousandths and discounts in tenths of a cent, which is where the two differ.

**SalesDesk.**  `DraftBegin`, `EnsureSeries`, `EnsureSettings`, `Draft` are the
transaction that makes a draft and, on first use, a series and a settings row
others may be making too.  `GenerateRead` reads the templates that are due
without a lock, `GenerateLock` takes them one by one in whatever order the
query returned, `Generate` writes the invoice and the next run.  `SendBegin`,
`Mail`, `Tell`, `Mark`, `SendDone` are the chain around the call of the
provider, each in a transaction of its own; `SendFails`, `TellFailure`,
`MarkFailure` are what follows an error; `confirmed` counts the sends that have
resolved, the noop driver's included; and `Fail` is a crash or a lost
connection at any of them.  Dates are a month and a day; months end by
`MonthEnds`.

**BankImport.**  `request[r]` is an open transaction with the rows it has
inserted and not committed.  `Preview` parses and reads on a connection of its
own; `InsertBatch` writes the batch row under the unique index on the hash of
the file; then, row by row, `CheckRow` looks for the fingerprint and `InsertRow`
inserts it, waiting for whoever has inserted a clashing one (`Blockers`).
`RefuseBatch`, `RefuseRow` are the unique violations, `DeadlockAbort` is
PostgreSQL's detection, `Fail` a lost connection.  `BeginDefault`,
`ClearDefaults`, `SetDefault` create or update an account that becomes the
default one, under the partial unique index.  A row is what goes into its
fingerprint and the bank's identifier for it, if the file carries one.  The
fingerprint also holds the IBAN the preview has read; `Create`, `Update` and
`SetDefault` give accounts IBANs and change them, except while an open import
refers to the account (`InUse`).  `held` remembers which IBANs an account has had.

**AuditTrail and Tenants.**  `phase[r]` is where a request is, `held[r]` the
connections it has.  A request waits for a connection (`TxConnect`) or times
out, locks the tenant row if its operation does (`TxLock`), reads (`TxRead`),
writes and commits or is refused (`TxCommit`, `TxRefuse`); the import asks for a
second connection on the way (`InnerConnect`, `InnerTimeOut`, `InnerCommit`).
Then it appends one or two events, each in a transaction on a new connection:
`AuditConnect`, the advisory lock, `BEGIN`, which reads the clock,
the newest row, the insert, the commit.  `AuditFail` is a statement on the audit
connection that fails, `AuditTimeOut` a connection that never comes; a failure inside
the transaction of the operation is not an action of its own, as it leaves what
`TxRefuse` leaves.  `Crash` takes all requests with it.  An event keeps the object id
its hash was made of next to the one its row has (`hashed`, `object`): the column is a
uuid, and `Stored` is what it makes of an id in capitals, which a request may name in
its path (`CHANGE`).  `clock` moves at each `BEGIN`, so two transactions never
have the same time.

**Login.**  One user, since nothing is shared between two.  Every statement
outside a transaction is a step; `statement[r]` is the next one of a handler
and `job[r]` what it has read: `LoginRead`, `Challenge` or `CreateSession`;
`LoginChallenge`, `FactorRead`, `SpendTotp` or `SpendRecoveryCode`,
`ClaimChallenge`, `CreateSession`; `ResetBegin`, `ResetWrite`, `ResetCommit`, which is the one
transaction and holds the row of the user (`userLock`); `ChangeRead`,
`ChangeWrite`, `RevokeOthers`; and the setup, confirmation and removal of the
second factor.  A password is the number of times it was set.  A code of the
authenticator is made of a secret and a counter: `FactorRead` keeps the secret it is
checked against (`job[r].secret`), and `SpendTotp` moves the counter of whichever
credential is confirmed by then (`of`).  A session remembers the number of the
password it was opened with and what it rests on, which no row does.

## Runs

| Run | Instance and size | What it shows |
|---|---|---|
| `journal` | 2 transactions, 3 entries, 2 periods in one fiscal year; 372 960 states | every interleaving is an atomic history of `Ledger` (`ImplementsLedger`); numbers gapless and free, one reversal, one opening balance, nothing into a closed period, books immutable; every posting transaction ends without deadlock detection: the lock order has no circles |
| `ledger` | 4 entries, 2 days, 2 fiscal years; 64 512 states, up to symmetry | posted entries balance, the trial balance balances on every date, an account ledger with a from date closes with its figure |
| `reversal` | 2 entries; a violation | a reversal moves the balances instead of restoring them |
| `settlement` | 3 documents, 1 bank transaction with up to 2 allocations, 2 transactions; 1 072 274 states, up to symmetry | advances, numbers, credits and payments add up, the sales ledger agrees with the books, the reports agree with each other |
| `settlement_live` | 2 documents; 97 603 states | every transaction ends, though locks are taken in conflicting orders |
| `invoice_amounts` | up to 3 lines, 1 credit note, 1 change of a tax code; 256 664 states | discounts are shared to the cent, and entries and VAT summary say what the documents say |
| `sales_desk` | 2 requests, 2 templates from the 31st every month or quarter, 3 documents, 6 requests served, 2 months; 1 801 308 states | every period is billed once; no send is called a success the provider did not confirm |
| `purchases` | 2 invoices, 2 requests, 2 users, 3 settings; 2 284 778 states, up to symmetry | one entry and one mirror, four eyes, no duplicates, nothing moves after review but what a classification had written |
| `bank_import` | 2 requests, 2 accounts and IBANs, 2 changes of them, 3 files with common rows; 265 900 states | no row is there twice for an IBAN, none is lost but to an account that has had it, and imports that wait for each other end |
| `pdf` | 2 workers that may claim the same events, an invoice and a reminder, 1 crash; 473 971 states | READY PDFs are whole and final, nothing is marked done undelivered, every event is settled |
| `login` | 2 handlers at a time, 4 in all; 5 083 692 states, up to symmetry | challenges, codes and tokens are used once; no session outlives the change that revoked it |
| `access` | 2 requests at a time, 3 in all, 2 connections, 2 users; 1 014 608 states | the chain is linked and verifies but for ids in capitals, the last owner stays, every request ends |

Bounds, and why they are enough.  Two open transactions meet in every pair of
steps; three would only queue at the same rows.  Three entries are an original
and two racing mirrors; three documents are an advance and two invoices racing
for it, or an original with two credit notes.  One fiscal year with two periods
lets postings meet at the counter without meeting at a period.  Amounts of one
to three cents separate "all", "part" and "too much", and meet the tolerance of
a cent.  Attempts and batches of the worker are two instead of ten: one retry
and one event behind another in a batch.  The outbox of `pdf` has two events as
well, so the `LIMIT` of a claim never cuts it short: that an event left out of a
full batch is claimed later is not checked there.  `MaxAllocations`, `MaxEvents`, `MaxCrashes`,
`MaxOps`, `MaxStarted`, `MaxDocs`, `MaxMonth`, `MaxTime`, `MaxLines`, `MaxNotes` and
`MaxChanges` cap what would otherwise grow.  Two purchase invoices with one
supplier, number and event are enough to be duplicates of each other, and two
requests to race; the constraint `OneReviewed` lets one invoice at a time be
past its review, since past it invoices meet only as duplicates, and for that
one of the two must still be entered or edited.  The lines of `invoice_amounts`
are chosen for their remainders: halves of a cent, thirds, a free line, two
lines in one group, a discount below a cent and one above the net.  Templates
start on the 31st, so January to March meets a month too short and what comes
after it.  Two of the files list two payments in opposite order, one of them twice,
and the third repeats one of the bank's identifiers: each order of locks, repetition
and clash of the two indexes.  One account is there at first; two changes give its
IBAN to a second one, or make two accounts race for the default.  Two connections are as few as
an import needs, so two imports take each other's second one.  Three
operations are a change of the roles that prepares for two that race; with four
the state space has 13 million states and the safety properties were seen to
hold there too.  Four handlers reach two logins with one challenge and a change of
the password among them, and, as a user with two-factor authentication starts signed in and
asked for a code, a login whose secret is replaced under it.  The deadlock of two requests that
name two advances in opposite orders needs four documents; the circle of
reconciliation and credit is the same mechanism and fits in two.
`CHECK_DEADLOCK FALSE` is given where every document may be settled, every
event spent, every operation served, every change of an account made, and nothing
is left to do.

Fairness.  `Journal` and `Settlement` assume `SF` on the steps of an open
transaction: PostgreSQL serves waiters of a row lock in turn, so one that could
proceed again and again does, and a transaction needs nothing from outside to
go on.  `Settlement` also assumes that a circle is broken (`deadlock_timeout`).
`BankImport` assumes `SF` on the steps of an import, the breaking of a circle
among them.  `Tenants` needs `WF` only: whoever waits for a connection gets
one or times out (`connectionTimeoutMillis`), and the locks are served in turn and
held for a few statements.  `PdfDelivery` assumes that a worker goes on
polling (`setTimeout` in `worker.ts`, `restart` in `compose.yaml`) and that
back-off times pass.  Requests, refusals, failures, crashes and administrators
are never fair.

## What was found

Checked by a run that is violated: `reversal`.  Reports drop a REVERSED
original and keep its mirror.  The VAT summary does the same, so a corrected
purchase is reported with minus its VAT.

The rest was met while modelling.  Each of these is in the modules as it is in
the code; the properties are stated for what does hold, and their comments name
the exception.  Lines are those of the services under `apps/api/src/services`
(`SAL` is `salesService.ts`, `PUR` `purchaseService.ts`).

Books and periods.

- Without a from date `accountLedger` counts every line twice
  (`accountingService.ts:1022`).
- Periods may overlap (`routes/accounting.ts:237`), and posting looks at one of
  the covering periods only; `NoPostingIntoClosedPeriod` holds only where they
  do not.  The query holds the rows it finds one after another and in no order
  (`accountingService.ts:87`), which the model takes for one step;
  `EveryTransactionEnds` is checked for periods that do not overlap.
- Counters are per fiscal year, but numbers carry the calendar year it starts
  in and are unique per tenant (`accountingService.ts:143`): the second fiscal
  year that starts in a calendar year cannot post.  `NumberIsFree` assumes
  `StartYearsDiffer`.

Sales.

- A unique index refuses every reconciliation with two allocations
  (`bankingReconciliationService.ts:318`), against `docs/BANKING.md:10`.
- The credit note of an advance invoice takes back revenue instead of the
  advance (`SAL:1492`), against `docs/CREDIT_NOTES.md:25`.
- Crediting an invoice in full after a rate was lowered (`SAL:1781`) makes a note
  smaller than the original, but marks the original CREDITED with its own total
  (`SAL:1805`): the customer owes nothing, the books keep the rest, against
  `docs/CREDIT_NOTES.md:25`.
- The outstanding amount (`SAL:2081`) and the aging count issued credit notes
  as money owed; the balance of the customer does not.  `ReportsAgree` states
  how far the two differ.
- The statement selects `issue_date AS event_date` and reads `row.issue_date`
  (`SAL:3392`); the aging builds dates with `String(Date)`, so its ages are not
  numbers and every document is NOT_DUE.  It passes a date to `overdueDays`
  which that ignores (`SAL:2032`).
- A discount below a cent is dropped from the lines but kept by the header; the
  totals of a draft leave the discount of the invoice out; a credit note of all lines leaves
  it out too (`SAL:3119`), exceeds the original and is refused.
- A credit note reads tax codes on its own day, and reads them twice
  (`SAL:3200`).
- Partial credits may name one line again and again, within the total only.
- Two runs that generate recurring invoices may take templates in opposite
  orders; one of them is aborted.  A day that was cut to the end of a short
  month stays cut.  `end_date` is never read.  Generated lines carry amounts
  of 0 until the invoice is edited or issued.
- An e-mail that was sent but could not be recorded ends as FAILED and is sent
  again on request.  `NoFalseSuccess` states the other direction: no success
  without a `send()` that resolved (`SAL:3682`).
- The noop driver, the default and the only one outside development
  (`config/env.ts:44, 89`), resolves without taking the mail
  (`emailProvider.ts:19`); the history and the invoice then say SENT, and nothing
  was mailed.
- Changing one of the three ledger accounts in the settings resets the others
  (`SAL:829`).  `updateCustomer` (`SAL:596`) reads without a lock and writes all
  columns: the earlier of two edits is lost.

Purchases.

- Lines a classification wrote before a review may be committed after the
  approval, or after the posting, and then differ from what was approved, or
  from the entry; `ReviewedIsFrozen` allows just this.
- OCR records FAILED only for what `provider.extract` throws.  When the file
  cannot be read (`PUR:1775`) or the result is refused (`PUR:1886`) the draft
  stays PROCESSING, against `docs/PURCHASES_RECEIPTS.md:39`.
- OCR replaces a supplier that was chosen while it was reading, and leaves the
  number it reads out of the search for duplicates.
- A correction does not look whether the entry was already reversed in the
  journal, and mirrors it again.
- A line of nothing makes a line of the entry of nothing, which posting
  refuses: the invoice is stuck.

Bank import.

- The fingerprint leaves out the direction, and two genuine payments that agree
  in date, amount, reference and counterparty become one.
- Two imports at once, one of which has the bank's identifier for a payment,
  insert it twice: `ImportedOnce` is about the two indexes.
- The fingerprint holds the IBAN, which may be changed (`bankingService.ts:82`).
  Afterwards another file with rows that are there inserts them again, in the
  same account; and an account that is given the IBAN of another skips what the
  other has, as the search goes by tenant (`bankingService.ts:217`), against
  `docs/BANKING_GAP.md:76`.  `ImportedOnce` speaks of one IBAN, and `NothingLost`
  leaves out IBANs that two accounts have had (`Shared`).
- An identifier seen before with other fields fails the whole import.
- The preview is stale when the rows are inserted, and duplicates are counted
  twice (`bankingService.ts:198` and `253`).
- The CAMT parser calls `textOf(x)` without keys
  (`bankStatementParsers.ts:223`), which finds nothing.

Tenants, audit, identity.

- An event is lost when its request has committed and then gets no connection,
  or dies.  `ChainVerifies` says that this does not show.
- Several handlers hash the object id as the path has it (`audit.ts:162`,
  `routes/accounting.ts:592`, `608`, `627`, `643`), but `object_id` is a uuid, which
  comes back in lower case.  One request with capitals in its path, and
  `verifyAuditChain` (`auditQuery.ts:85`) stops at its event for good, against
  `docs/ACCOUNTING_CORE.md:107`.  `ChainVerifies` excepts such events, and says of all
  that they are linked.
- An import holds a connection while it waits for another
  (`bankingService.ts:189`).  As many imports at once as there are connections
  wait until they time out.
- `setMemberStatus` (`tenantService.ts:349`) guards the last owner against
  SUSPENDED and REMOVED; INVITED passes, and leaves the tenant without one
  (`stranded`; `LastOwnerKept` excludes just this), though
  `CODEX_DEEPSEEK_V0_3_MULTITENANT_RLS_PROMPT.md:335` forbids it.
- `updateCurrentCompany` (`tenantService.ts:236`) sets the business identifier
  to NULL when the request leaves it out.
- A login that has read the old password goes on while the password is reset or
  changed, and creates its session after the others were revoked.  `SignedOut`
  states what is left: the sessions that were there at that moment end.
- A login, `2fa/disable` and `2fa/recovery-codes` read the secret
  (`routes/auth.ts:391`, `629`, `654`) before `verifyTotpWithReplay` moves the
  counter of whatever credential the user has by then
  (`twoFactorService.ts:108`).  Where two-factor authentication was removed and set
  up anew in between, a code of the old secret is taken, used before or not, against
  `docs/IDENTITY_SECURITY.md:21`.  `UsedOnce` leaves out such codes (`Replaced`).
- Changing the password writes the hash and revokes the sessions in two
  statements; a crash between them leaves the sessions.
- `replaceRecoveryCodes` deletes and inserts without a transaction: a failure
  between them leaves no codes.


## Proofs

Every invariant and every action property of the passing runs is a theorem,
for any number of transactions, entries, documents, accounts, dates, users and
requests, and so is the refinement of `Ledger` by `Journal`.  Liveness is not:
no prover here handles fairness or `ENABLED`, so `EveryTransactionEnds`,
`EverySettlementEnds`, `EveryImportEnds`, `EveryRequestEnds` and
`EveryEventSettles` are checked on the instances only.

What is assumed.  The constants are as the modules' assumptions say: tables are
finite (`SettlementAssumption`, `ReportsAssumption`, `SalesDeskAssumption`), the
values that stand for "no row" are none of the rows, amounts, forms and tax
codes have their shape, the ages of documents are integers
(`SalesReportsAssumption`), and a purchase is entered without a discount
(`InvoiceAmountsAssumption`), because the code has none there.  Two things that
the code does not enforce are hypotheses of the theorems that need them:
`PeriodsDisjoint` (periods do not overlap) by `JournalPeriods` alone, and
`StartYearsDiffer` by `JournalNumbers` alone.

**The books.**

1. `LedgerProofs` proves the promise sound on its own: type correctness,
   gapless numbers, balanced entries, matching reversals, single opening
   balances, immutability.  Balance under reversal rests on `MirrorPostable`:
   swapping the sides of every line swaps two equal totals.
2. `JournalProofs` proves `JournalInv` inductive.  Type correctness is not
   enough: that what a transaction has checked is still true when it commits
   needs three facts about row locks.  `TxOK`: the draft a transaction carries is the
   one its locked rows still allow, its period is still open, its number is
   still the next one.  `Apart`: no two transactions hold the same entry,
   period or counter.  `Frame`: a step of one transaction leaves alone what the
   others rely on.  Each action has a lemma of its own.
3. `JournalImplements`: every step of `Journal` is a step of `Ledger` or a
   stutter.  Everything proved of `Ledger` then carries over to the
   interleaved transactions (`JournalGapless`, `JournalReversals`,
   `JournalOpenings`, `JournalImmutable`), for any periods and fiscal years.
   `Ledger` asks for an open period that covers the date, as the code does, and
   not that every period of the date is open.
4. `JournalPeriods` uses `JournalInv` directly: where periods do not overlap, the
   period that a transaction holds is the only one of its date.  `JournalNumbers`
   follows from `JournalInv` and `JournalGapless`.

**Sums.**  The properties about amounts are equations between sums over tables of
any size.  `SumTheorems` has what they need.  Induction over the subsets of a
finite set is proved here (`SmallestSubset`, `GrowInduction`), for sets of
subsets instead of predicates, so that it can be used without an operator as a
parameter.  With it the fold of the community modules, which chooses some
solution of a recursion, is shown to have exactly one (`IterUnique`,
`IterExists`).  From there on sums are used by their laws: taking out an
element (`SumTake`), adding pointwise (`SumAdd`), splitting (`SumSplit`),
changing one summand (`SumChange`), grouping by a key (`SumByKey`), exchanging
two summations (`SumSwap`), appending to a sequence (`SumAppend`).

**Settlement** (`TotalsProofs`).  `IInv` is inductive.  Its first half is about
locks: no row is held by two transactions (`LocksApart`), and an issue, a credit
and a reconciliation still find what they found under the locks they hold
(`IssueInv`, `CreditInv`, `ReconcileInv`); that others do not disturb this is
shown once for all steps (`Frame`, `FrameKeeps`).  Its second half is about the
tables: a document that is not issued has left no trace in any of them
(`UnissuedInv`), an issued one is posted as its columns say (`PostingInv`), its
advance is the sum of what was applied to it (`AppliedInv`).
`SubledgerMeetsBooks` follows by exchanging the two summations over advances and
the invoices that used them; no history is needed beyond `IInv`.

**Reports** (`TotalsProofs`).  `ReportsAgree` follows from `IInv` by splitting the
issued documents into the buckets of the aging (`SumByKey`).  The trial balance
is a sum over accounts of sums over entries: exchanged (`SumSwap`), it is a sum
of entries each of which balances (`PostedBalanced`).  `TotalIsSum` relates the
total `Books` computes along the lines of an entry to a sum over its positions.

**Amounts** (`InvoiceProofs`).  `AmountsInv` is inductive: tax codes, draft,
documents and entries have their shape, every document that is in the books has a
posted entry of its own (`Linked`), and the books say what the documents say
(`Mirrored`).  The last is stated for every part `Q` of the (leg, VAT class) pairs
at once: what the posted entries book in `Q` is what the documents' lines put
there, corrected purchases with the sign they have in the books.  All that
`BooksMeetDocuments` compares is an instance of it.  Because it quantifies over
all parts TLC does not evaluate it; it checks the instances.  Under it are: the
grouping of lines into lines of an entry loses nothing (`SumByKey`), the entry of
a document balances to the cent, and the tax of a line is what its legs add up to.
`DiscountIsShared` is the method of the largest remainder: ranks are a bijection
between the lines and their positions, and the cents left over are at most as
many as the lines with a fraction, so handing out one each gives a line nothing
it cannot bear and leaves none.

**Purchases** (`InvoiceProofs`).  The invariant `PurchasesInv` adds to
the properties three facts.  `TargetKnown`: a request that works on an invoice
names one.  `HeldUnapproved`: while a classification has a method written and
not committed, its invoice is neither approved nor closed, because approval and
rejection wait for that row; without it the counter account of an entry could
be changed under it.  `RuleKept`: while the rule was never off, every approval
under way has read it as on.  That a correction has an entry to mirror
follows from `BooksFollowStatus` itself, so typing is proved together with it.

**The sales desk** (`DeliveryProofs`).  `BillingInv`: who works on a template
holds its lock (`MineLocked`), and the invoices generated from it are one for each
period up to its next run (`Billed`).  `SendingInv` counts: the rows of the history
that say an invoice was sent, together with the requests that still owe one
(`Owing`), are never more than the sends that resolved (`ToldAfterConfirmed`),
and a request that is about to write such a row, or SENT, has had one resolve
(`ConfirmedBefore`).  So two sends that overlap, and die anywhere, cannot leave
more successes than the provider confirmed.

**PDFs** (`DeliveryProofs`).  `PdfInv`: the claim gives a worker nothing
but numbers of events, so two workers may hold the same one; what keeps them
apart is the row of the PDF (`WorkersApart`): it is locked from the test for
READY to the commit, so what a worker renders is not READY (`WorkerOK`), and the
key it has stored under is in no document and no other worker's hands.  A commit
then changes one row that was not READY, and no step changes one that is
(`ReadyStays`).

**Login** (`IdentityProofs`).  `LoginInv` is inductive without any lock but that of
a reset (`ResetHolds`: the token it has claimed stays there until it commits).  It
rests on numbers instead: whatever is given out bears one that has been reached
(`Numbered`) and what comes later bears a higher one, so a token that is gone
(`Claimed`) and a code that is used up (`Spent`) stay so under every step
(`ClaimedStays`, `SpentStays`).  A code of the authenticator is used up when the
counter of its credential has passed it, or the credential is gone; a recovery
code when it is not there and the batch under insertion, from the highest place
down, is past it (`Behind`).  No two requests hold the same one
(`ChallengesClaimed`, `CodesSpent`), and `UsedOnce` follows: a code whose secret is that
of the credential that has counted it is the code that was typed.  `SignedOut` needs
that who revokes after a change names that change (`Revoking`).
Not assumed: anything about the order of the handlers, or where they stop.

**Tenants and audit** (`IdentityProofs`).  Two locks carry `AccessInv`.  The advisory
lock: at most one request is between it and its commit (`OneWriter`), what it
has read as the newest event is still the newest, and what is committed is older
than it (`WriterIsNewest`); so appending extends the chain (`Chained`).  The lock of the
tenant: while a request that may take an owner away is past it, nobody else
takes one away, so the owners it has counted are still there when it writes.
Besides, the connections a request holds follow from where it is (`Connected`).
Not assumed: anything about the number of connections, or which requests fail.

**Bank import** (`BankImportProofs`).  The unique indexes see rows
that are inserted and not committed, so `ImportInv` is about these together
with the committed ones (`Inserted`): no two of them clash (`NoClash`).  A batch
row keeps others from the file (`Sole`); what an import has passed is there or
is its own (`Covered`).  `NothingLost` needs the last at the commit,
`ImportedOnce` the first two.  That a row under the IBAN of an account is in that
account, unless the IBAN was shared, is `Known`: whatever names an account and an
IBAN names a pair of `held`.

## Not modelled, and why

- The web client: views over the API.  It holds answers that may be stale, but
  the API checks again whatever it sends.
- The parsers of bank statements and e-invoices, and the layout of PDFs: data
  without interleaving.  A file is the rows it yields.
- The cooldown after failed logins: it depends on address and clock only.
- Rates of foreign currencies, suggestions of accounts and of matches: they rank
  and change nothing.  `allocateAdvanceProportion` and `calculateLateInterest`
  enter no document.
- `SALES_INVOICE_ISSUED` events: the worker logs them and marks them processed.
- Outgoing bank transactions, which pay purchase invoices: the same code as
  incoming ones.  Its update of a posted invoice is refused by the trigger of
  the purchases (`bankingReconciliationService.ts:295`), so there is little to
  model but the refusal.
- Of purchases: attached documents, the progress of OCR and the warnings kept
  beside an invoice, payment files, suppliers' master data.
- Documents uploaded by hand.  The file is written before the transaction and
  deleted when that fails, also when a COMMIT fails whose outcome is not known
  (`documentStorage.ts:133`): the row then points at nothing.  A crash in between
  leaves a file no row names, at which the check of a restored backup exits
  (`docs/BACKUP_STRATEGY.md:49`).  Retention policies and holds are tables
  nothing reads.
- Employees and time tracking: records with one state each.
- The inbox (`receiveInboxEvent`) has no caller.
- Tenant isolation by row-level security: policies, not behaviour.
- A report that reads the books in two statements while postings commit.
- External registries, e-mail and OCR: input and output.

## Plan

In order of what matters most to the books:

1. The totals of `Settlement` and `Purchases` are any amounts; those of
   `InvoiceAmounts` are computed.  That every step of the first is possible with
   the amounts of the second is said, not proved.
2. Documents uploaded by hand, what is attached to purchases, and OCR's progress.
3. Suppliers and payment files, to make `Purchases` whole.
4. A report in two reads over `Journal`.
5. The web client's answers that come late or out of order.
