----------------------------- MODULE Settlement -----------------------------
(***************************************************************************)
(* How sales invoices are issued, settled by advances, credit notes and    *)
(* payments, and matched with bank transactions (salesService.ts,          *)
(* bankingReconciliationService.ts).                                       *)
(*                                                                         *)
(* Issuing, crediting and reconciling lock several rows one after the      *)
(* other and are split at every lock; the other operations lock one row,   *)
(* test it and commit, and are one step.  Amounts are in cents.            *)
(***************************************************************************)
EXTENDS Integers, Sequences, SequencesExt

CONSTANTS
  Docs,       \* sales_invoices rows: invoices, advances and credit notes
  Banks,      \* bank_transactions rows, all incoming
  Txns,       \* transactions that may be open at once
  Books,      \* the series, period and counter rows a posting holds
  NoDoc,      \* the target of an allocation that names an account
  Drafts,     \* what a draft may say: its kind and its total
  Plans,      \* the advance allocations an issue request may carry
  Amounts,    \* amounts a request may carry
  BankAmount, \* the amount of each bank transaction
  MaxAllocations   \* bound on the allocations of a bank transaction

\* What an issue request takes from an advance.
Use == [advance : Docs, amount : Amounts]

Kind == {"SALES_INVOICE", "ADVANCE_INVOICE", "SALES_CREDIT_NOTE"}

ASSUME SettlementAssumption ==
  /\ IsFiniteSet(Docs) /\ IsFiniteSet(Banks)
  /\ NoDoc \notin Docs /\ Books \notin Docs \union Banks \union {NoDoc}
  /\ Docs \intersect Banks = {}
  /\ Amounts \subseteq Nat \ {0} /\ MaxAllocations \in Nat
  /\ BankAmount \in [Banks -> Nat \ {0}]
  /\ Drafts \subseteq [kind : Kind \ {"SALES_CREDIT_NOTE"}, total : Nat]
  /\ Plans \subseteq Seq(Use)

VARIABLES
  doc,      \* sales_invoices
  applied,  \* sales_invoice_advance_applications: amount per <<advance, invoice>>
  credits,  \* sales_invoice_credit_links, as pairs <<original, credit note>>
  posting,  \* what the journal entry of a document debits, less what it credits
  series,   \* invoice_number_series.next_number
  manual,   \* sum of the manual rows of sales_invoice_payments, per document
  bank,     \* bank_transactions with their allocations
  tx        \* the open transactions

vars == <<doc, applied, credits, posting, series, manual, bank, tx>>

DocStatus == {"ABSENT", "DRAFT", "ISSUED", "CREDITED", "CANCELLED_DRAFT"}
BankStatus == {"UNMATCHED", "PARTIALLY_MATCHED", "MATCHED", "POSTED",
               "REVIEWED_NO_POST"}

Doc == [status : DocStatus, kind : Kind, total : Nat,
        advance : Nat, credited : Nat, paid : Nat,
        payment : {"UNPAID", "PARTIALLY_PAID", "PAID"}, number : Nat]

DraftDoc(draft) ==
  [status |-> "DRAFT", kind |-> draft.kind, total |-> draft.total,
   advance |-> 0, credited |-> 0, paid |-> 0, payment |-> "UNPAID", number |-> 0]

AbsentDoc ==
  [DraftDoc([kind |-> "SALES_INVOICE", total |-> 0]) EXCEPT !.status = "ABSENT"]

\* Accounts receivable, advances received, and revenue with its VAT.
Posting == [receivable : Int, advances : Int, revenue : Int]
NotPosted == [receivable |-> 0, advances |-> 0, revenue |-> 0]

Allocation == [target : Docs \union {NoDoc}, amount : Amounts]

(***************************************************************************)
(* An open transaction: what it does, the rows it still has to lock, the   *)
(* rows it holds (the id of a new row included), and the input, the number *)
(* and the credit note's id it carries along, and whether it credits the   *)
(* whole invoice.                                                          *)
(***************************************************************************)
Tx == [op : {"none", "issue", "credit", "reconcile"},
       target : Docs \union Banks \union {NoDoc},
       todo : Seq(Docs \union {Books, NoDoc}), held : SUBSET (Docs \union Banks \union {Books}),
       plan : Seq(Use), amount : Nat, number : Nat,
       note : Docs \union {NoDoc}, whole : BOOLEAN]

Idle == [op |-> "none", target |-> NoDoc, todo |-> <<>>, held |-> {},
         plan |-> <<>>, amount |-> 0, number |-> 0, note |-> NoDoc,
         whole |-> FALSE]

Init ==
  /\ doc = [d \in Docs |-> AbsentDoc]
  /\ applied = [p \in Docs \X Docs |-> 0]
  /\ credits = {}
  /\ posting = [d \in Docs |-> NotPosted]
  /\ series = 1
  /\ manual = [d \in Docs |-> 0]
  /\ bank = [b \in Banks |-> [status |-> "UNMATCHED", allocations |-> <<>>]]
  /\ tx = [t \in Txns |-> Idle]
-----------------------------------------------------------------------------
AmountsOf(seq) == [k \in DOMAIN seq |-> seq[k].amount]
SumOf(seq) == SumFunction(AmountsOf(seq))
AppliedFrom(a) == SumFunction([f \in Docs |-> applied[<<a, f>>]])
NotesOf(d) == {c \in Docs : <<d, c>> \in credits}
NotesTotal(d) == SumFunctionOnSet([c \in Docs |-> doc[c].total], NotesOf(d))

\* What may still be credited, and what is still to be paid.
Creditable(d) == doc[d].total - doc[d].advance - doc[d].credited
Open(d) == Creditable(d) - doc[d].paid

PaymentStatus(open, paid) ==
  IF open <= 0 THEN "PAID" ELSE IF paid > 0 THEN "PARTIALLY_PAID" ELSE "UNPAID"

\* Row locks.
\* Mutant: the advance rows are read without FOR UPDATE.
FreeForMutant(t, r) ==
  \A u \in Txns \ {t} : r \notin tx[u].held \/ (r \in Docs /\ tx[t].op = "issue")

FreeFor(t, r) == \A u \in Txns \ {t} : r \notin tx[u].held
Unlocked(r) == \A t \in Txns : r \notin tx[t].held

Moved(t, next) == tx' = [tx EXCEPT ![t] = next]

CreateInvoiceDraft(d, draft) ==
  /\ Unlocked(d) /\ doc[d].status = "ABSENT"
  /\ doc' = [doc EXCEPT ![d] = DraftDoc(draft)]
  /\ UNCHANGED <<applied, credits, posting, series, manual, bank, tx>>

\* Mutant: the status is not tested.
UpdateDraftMutant(d, draft) ==
  /\ Unlocked(d) /\ doc[d].status # "ABSENT"
  /\ doc' = [doc EXCEPT ![d] = DraftDoc(draft)]
  /\ UNCHANGED <<applied, credits, posting, series, manual, bank, tx>>

UpdateDraft(d, draft) ==
  /\ Unlocked(d) /\ doc[d].status = "DRAFT"
  /\ doc' = [doc EXCEPT ![d] = DraftDoc(draft)]
  /\ UNCHANGED <<applied, credits, posting, series, manual, bank, tx>>

CancelDraft(d) ==
  /\ Unlocked(d) /\ doc[d].status = "DRAFT"
  /\ doc' = [doc EXCEPT ![d].status = "CANCELLED_DRAFT"]
  /\ UNCHANGED <<applied, credits, posting, series, manual, bank, tx>>
-----------------------------------------------------------------------------
(***************************************************************************)
(* issueInvoice: lock the draft, then the advances it is to use in the     *)
(* order of the request, then number and post.  An advance invoice uses    *)
(* no advances, whatever the request says.                                 *)
(***************************************************************************)
BeginIssue(t, d, plan) ==
  LET used == IF doc[d].kind = "ADVANCE_INVOICE" THEN <<>> ELSE plan
  IN /\ tx[t].op = "none"
     /\ Unlocked(d) /\ doc[d].status = "DRAFT"
     /\ Moved(t, [Idle EXCEPT
          !.op = "issue", !.target = d, !.plan = used, !.held = {d},
          !.todo = Append([k \in DOMAIN used |-> used[k].advance], Books)])
     /\ UNCHANGED <<doc, applied, credits, posting, series, manual, bank>>

\* The advance exists, is issued and has enough left.
Usable(p) ==
  /\ doc[p.advance].kind = "ADVANCE_INVOICE" /\ doc[p.advance].status = "ISSUED"
  /\ p.amount + AppliedFrom(p.advance) <= doc[p.advance].total

\* The allocation whose advance is locked next.
NextUse(t) == tx[t].plan[Len(tx[t].plan) + 2 - Len(tx[t].todo)]

Issuable(t) ==
  /\ doc[tx[t].target].total > 0
  /\ SumOf(tx[t].plan) <= doc[tx[t].target].total

\* Lock the original.  creditInvoice (whole) wants one that no note credits;
\* createCreditNote credits lines, or all of them, within what is left.  Both
\* compute the note's total anew, from the tax codes of today.
BeginCredit(t, o, c, amount, whole) ==
  /\ tx[t].op = "none"
  /\ Unlocked(o) /\ doc[o].status = "ISSUED"
  /\ Unlocked(c) /\ doc[c].status = "ABSENT"
  /\ IF whole THEN NotesOf(o) = {} ELSE amount <= Creditable(o)
  /\ Moved(t, [Idle EXCEPT !.op = "credit", !.target = o, !.amount = amount,
                           !.note = c, !.whole = whole,
                           !.held = {o, c}, !.todo = <<Books>>])
  /\ UNCHANGED <<doc, applied, credits, posting, series, manual, bank>>

\* Mutant: a transaction that was posted before is posted again.
BeginReconcileMutant(t, b) ==
  /\ tx[t].op = "none"
  /\ Unlocked(b)
  /\ bank[b].allocations # <<>> /\ SumOf(bank[b].allocations) = BankAmount[b]
  /\ Moved(t, [Idle EXCEPT
       !.op = "reconcile", !.target = b, !.held = {b},
       !.todo = <<Books>> \o [k \in DOMAIN bank[b].allocations |->
                                bank[b].allocations[k].target]])
  /\ UNCHANGED <<doc, applied, credits, posting, series, manual, bank>>

\* reconcileBankTransaction: lock the bank transaction, post its entry, then
\* lock the invoices of its allocations one by one.
BeginReconcile(t, b) ==
  /\ tx[t].op = "none"
  /\ Unlocked(b) /\ bank[b].status # "POSTED"
  /\ bank[b].allocations # <<>> /\ SumOf(bank[b].allocations) = BankAmount[b]
  /\ Moved(t, [Idle EXCEPT
       !.op = "reconcile", !.target = b, !.held = {b},
       !.todo = <<Books>> \o [k \in DOMAIN bank[b].allocations |->
                                bank[b].allocations[k].target]])
  /\ UNCHANGED <<doc, applied, credits, posting, series, manual, bank>>
-----------------------------------------------------------------------------
\* The test made once the next row is locked.
Passes(t) ==
  LET r == Head(tx[t].todo)
  IN CASE tx[t].op = "issue" /\ r = Books -> Issuable(t)
       [] tx[t].op = "issue" /\ r # Books -> Usable(NextUse(t))
       [] tx[t].op = "reconcile" /\ r \in Docs -> doc[r].status = "ISSUED"
       [] OTHER -> TRUE

\* allocateInvoiceNumber comes with the lock of the books; an allocation that
\* names an account has no row to lock.
Lock(t) ==
  LET r == Head(tx[t].todo)
  IN /\ tx[t].op # "none" /\ tx[t].todo # <<>>
     /\ FreeFor(t, r) /\ Passes(t)
     /\ Moved(t, [tx[t] EXCEPT
          !.todo = Tail(@), !.held = @ \union ({r} \ {NoDoc}),
          !.number = IF r = Books /\ tx[t].op # "reconcile" THEN series ELSE @])
     /\ UNCHANGED <<doc, applied, credits, posting, series, manual, bank>>

Ready(t, op) == tx[t].op = op /\ tx[t].todo = <<>>

\* The unique index on the pairs of an advance and an invoice.
DuplicateUse(plan) ==
  \E j, k \in DOMAIN plan : j # k /\ plan[j].advance = plan[k].advance

UsedOf(plan, a) ==
  SumFunctionOnSet(AmountsOf(plan), {k \in DOMAIN plan : plan[k].advance = a})

\* Mutant: the customer owes the whole total although advances cover some of it.
IssuePostingMutant(d, used) ==
  IF doc[d].kind = "ADVANCE_INVOICE"
  THEN [receivable |-> doc[d].total, advances |-> -doc[d].total, revenue |-> 0]
  ELSE [receivable |-> doc[d].total, advances |-> 0, revenue |-> -doc[d].total]

IssuePosting(d, used) ==
  IF doc[d].kind = "ADVANCE_INVOICE"
  THEN [receivable |-> doc[d].total, advances |-> -doc[d].total, revenue |-> 0]
  ELSE [receivable |-> doc[d].total - used, advances |-> used,
        revenue |-> -doc[d].total]

CommitIssue(t) ==
  LET d == tx[t].target
      plan == tx[t].plan
  IN /\ Ready(t, "issue") /\ ~DuplicateUse(plan)
     /\ doc' = [doc EXCEPT ![d].status = "ISSUED", ![d].number = tx[t].number,
                           ![d].advance = SumOf(plan)]
     /\ applied' = [p \in Docs \X Docs |->
                      IF p[2] = d THEN UsedOf(plan, p[1]) ELSE applied[p]]
     /\ posting' = [posting EXCEPT ![d] = IssuePosting(d, SumOf(plan))]
     /\ series' = tx[t].number + 1
     /\ Moved(t, Idle)
     /\ UNCHANGED <<credits, manual, bank>>

\* tilivo_sales_credit_link_validate: against the notes already linked.
LinkValid(o, amount) ==
  amount <= doc[o].total - doc[o].advance - NotesTotal(o)

\* tilivo_sales_invoices_immutable: what a credit note for the whole invoice
\* writes must be what the advances had not covered, to the cent.
WholeAllowed(o) == doc[o].advance <= 1

CanCredit(t) ==
  /\ LinkValid(tx[t].target, tx[t].amount)
  /\ tx[t].whole => WholeAllowed(tx[t].target)

\* A cent may be left over.
FullyCredited(d, credited) == credited + 1 >= doc[d].total - doc[d].advance

\* Mutant: a second credit note replaces the first in credited_amount.
CreditedMutant(o, amount, whole) ==
  LET credited == IF whole THEN doc[o].total ELSE amount
  IN  IF whole \/ FullyCredited(o, credited)
      THEN [doc[o] EXCEPT !.status = "CREDITED", !.credited = credited,
                          !.payment = "PAID"]
      ELSE [doc[o] EXCEPT !.credited = credited]

\* The original, after a credit note of this amount.  creditInvoice writes the
\* original's total, whatever the note came to.
Credited(o, amount, whole) ==
  LET credited == IF whole THEN doc[o].total ELSE doc[o].credited + amount
  IN  IF whole \/ FullyCredited(o, credited)
      THEN [doc[o] EXCEPT !.status = "CREDITED", !.credited = credited,
                          !.payment = "PAID"]
      ELSE [doc[o] EXCEPT !.credited = credited]

\* Whatever the original was, its credit note takes revenue and receivable back.
CommitCredit(t) ==
  LET o == tx[t].target
      c == tx[t].note
      amount == tx[t].amount
  IN /\ Ready(t, "credit") /\ CanCredit(t)
     /\ doc' = [doc EXCEPT
          ![c] = [DraftDoc([kind |-> "SALES_CREDIT_NOTE", total |-> amount])
                    EXCEPT !.status = "ISSUED", !.number = tx[t].number],
          ![o] = Credited(o, amount, tx[t].whole)]
     /\ credits' = credits \union {<<o, c>>}
     /\ posting' = [posting EXCEPT
          ![c] = [receivable |-> -amount, advances |-> 0, revenue |-> amount]]
     /\ series' = tx[t].number + 1
     /\ Moved(t, Idle)
     /\ UNCHANGED <<applied, manual, bank>>

\* bank_allocations_journal_unique: one allocation per journal entry, and all
\* the allocations of a bank transaction are given the same entry.
DuplicateLink(b) == Len(bank[b].allocations) > 1

Paid(d, amount) ==
  [doc[d] EXCEPT !.paid = @ + amount,
                 !.payment = PaymentStatus(Open(d) - amount, doc[d].paid + amount)]

CommitReconcile(t) ==
  LET b == tx[t].target
      allocation == Head(bank[b].allocations)
  IN /\ Ready(t, "reconcile") /\ ~DuplicateLink(b)
     /\ doc' = IF allocation.target = NoDoc THEN doc
               ELSE [doc EXCEPT ![allocation.target] =
                       Paid(allocation.target, allocation.amount)]
     /\ bank' = [bank EXCEPT ![b].status = "POSTED"]
     /\ Moved(t, Idle)
     /\ UNCHANGED <<applied, credits, posting, series, manual>>

\* A constraint or a trigger that refuses the writes of the transaction.
Violates(t) ==
  \/ Ready(t, "issue") /\ DuplicateUse(tx[t].plan)
  \/ Ready(t, "credit") /\ ~CanCredit(t)
  \/ Ready(t, "reconcile") /\ DuplicateLink(tx[t].target)

\* Mutant: an error of the database is not answered by a roll-back.
RefuseMutant(t) ==
  /\ tx[t].op # "none" /\ tx[t].todo # <<>>
  /\ FreeFor(t, Head(tx[t].todo)) /\ ~Passes(t)
  /\ Moved(t, Idle)
  /\ UNCHANGED <<doc, applied, credits, posting, series, manual, bank>>

\* A test that throws: the transaction rolls back.
Refuse(t) ==
  /\ \/ /\ tx[t].op # "none" /\ tx[t].todo # <<>>
        /\ FreeFor(t, Head(tx[t].todo)) /\ ~Passes(t)
     \/ Violates(t)
  /\ Moved(t, Idle)
  /\ UNCHANGED <<doc, applied, credits, posting, series, manual, bank>>

\* Mutant: a number that was drawn is used up, as that of a sequence would be.
AbortMutant(t) ==
  /\ tx[t].op # "none"
  /\ series' = Max({series, tx[t].number + 1})
  /\ Moved(t, Idle)
  /\ UNCHANGED <<doc, applied, credits, posting, manual, bank>>

\* The posting is refused, or the connection or the API process is lost.
Abort(t) ==
  /\ tx[t].op # "none"
  /\ Moved(t, Idle)
  /\ UNCHANGED <<doc, applied, credits, posting, series, manual, bank>>

\* Transactions that wait for one another in a circle.
WaitsFor(t, u) == tx[t].todo # <<>> /\ t # u /\ Head(tx[t].todo) \in tx[u].held

Deadlocked(t) ==
  \E circle \in SUBSET Txns :
    t \in circle /\ \A x \in circle : \E y \in circle : WaitsFor(x, y)

\* PostgreSQL's deadlock detection ends one of them.
BreakDeadlock(t) == Deadlocked(t) /\ Abort(t)
-----------------------------------------------------------------------------
\* Mutant: credit notes are not subtracted from what is open.
PayMutant(d, amount) ==
  /\ Unlocked(d) /\ doc[d].status = "ISSUED"
  /\ amount <= doc[d].total - doc[d].advance - doc[d].paid
  /\ doc' = [doc EXCEPT ![d] = Paid(d, amount)]
  /\ manual' = [manual EXCEPT ![d] = @ + amount]
  /\ UNCHANGED <<applied, credits, posting, series, bank, tx>>

\* recordSalesPayment
Pay(d, amount) ==
  /\ Unlocked(d) /\ doc[d].status = "ISSUED" /\ amount <= Open(d)
  /\ doc' = [doc EXCEPT ![d] = Paid(d, amount)]
  /\ manual' = [manual EXCEPT ![d] = @ + amount]
  /\ UNCHANGED <<applied, credits, posting, series, bank, tx>>

MatchStatus(b, sum) ==
  IF sum >= BankAmount[b] THEN "MATCHED" ELSE "PARTIALLY_MATCHED"

\* createBankAllocation: the invoice is read, not locked, and what other bank
\* transactions are to pay of it does not count.
CreateAllocation(b, d, amount) ==
  LET sum == SumOf(bank[b].allocations) + amount
  IN /\ Unlocked(b) /\ bank[b].status # "POSTED"
     /\ Len(bank[b].allocations) < MaxAllocations
     /\ sum <= BankAmount[b]
     /\ d # NoDoc => doc[d].status = "ISSUED" /\ amount <= Open(d)
     /\ bank' = [bank EXCEPT
          ![b] = [status |-> MatchStatus(b, sum),
                  allocations |-> Append(@.allocations,
                                         [target |-> d, amount |-> amount])]]
     /\ UNCHANGED <<doc, applied, credits, posting, series, manual, tx>>

\* deleteBankAllocation
DeleteAllocation(b, k) ==
  /\ Unlocked(b) /\ bank[b].status # "POSTED" /\ k \in DOMAIN bank[b].allocations
  /\ bank' = [bank EXCEPT
       ![b] = [status |-> IF Len(@.allocations) = 1 THEN "UNMATCHED"
                          ELSE "PARTIALLY_MATCHED",
               allocations |-> RemoveAt(@.allocations, k)]]
  /\ UNCHANGED <<doc, applied, credits, posting, series, manual, tx>>

\* reviewBankTransactionNoPost
ReviewNoPost(b) ==
  /\ Unlocked(b) /\ bank[b].status # "POSTED"
  /\ bank' = [bank EXCEPT ![b].status = "REVIEWED_NO_POST"]
  /\ UNCHANGED <<doc, applied, credits, posting, series, manual, tx>>
-----------------------------------------------------------------------------
Step(t) ==
  \/ Lock(t) \/ Refuse(t)
  \/ CommitIssue(t) \/ CommitCredit(t) \/ CommitReconcile(t)

Begin(t) ==
  \/ \E d \in Docs, plan \in Plans : BeginIssue(t, d, plan)
  \/ \E o, c \in Docs, amount \in Amounts, whole \in BOOLEAN :
       BeginCredit(t, o, c, amount, whole)
  \/ \E b \in Banks : BeginReconcile(t, b)

Edit ==
  \/ \E d \in Docs, draft \in Drafts : CreateInvoiceDraft(d, draft) \/ UpdateDraft(d, draft)
  \/ \E d \in Docs : CancelDraft(d)
  \/ \E d \in Docs, amount \in Amounts : Pay(d, amount)

Match ==
  \E b \in Banks :
    \/ \E d \in Docs \union {NoDoc}, amount \in Amounts : CreateAllocation(b, d, amount)
    \/ \E k \in 1 .. MaxAllocations : DeleteAllocation(b, k)
    \/ ReviewNoPost(b)

Next ==
  \/ \E t \in Txns : Begin(t) \/ Step(t) \/ Abort(t) \/ BreakDeadlock(t)
  \/ Edit
  \/ Match

Spec == Init /\ [][Next]_vars

(***************************************************************************)
(* Row locks are handed on in turn, an open transaction runs on without    *)
(* further input, and a circle of waiting transactions is found and broken *)
(* after deadlock_timeout.                                                 *)
(***************************************************************************)
FairSpec ==
  Spec /\ \A t \in Txns : SF_vars(Step(t)) /\ WF_vars(BreakDeadlock(t))
-----------------------------------------------------------------------------
Issued(d) == doc[d].status \in {"ISSUED", "CREDITED"}

\* What is left of the advances, as their documents say and as the books say.
AdvancesLeft ==
  SumFunctionOnSet([a \in Docs |-> doc[a].total - AppliedFrom(a)],
                   {a \in Docs : Issued(a) /\ doc[a].kind = "ADVANCE_INVOICE"})
AdvancesAccount == SumFunction([d \in Docs |-> -posting[d].advances])

ReceivableOfNotes(d) ==
  SumFunctionOnSet([c \in Docs |-> posting[c].receivable], NotesOf(d))

\* Credited as a whole, by one note.
WrittenOff(d) ==
  /\ doc[d].status = "CREDITED" /\ doc[d].credited = doc[d].total
  /\ \A b, c \in NotesOf(d) : b = c

\* What the bank transactions posted have paid of a document.
Settles(b, d) ==
  LET allocations == bank[b].allocations
  IN  SumFunctionOnSet(AmountsOf(allocations),
                       {k \in DOMAIN allocations : allocations[k].target = d})
PaidByBank(d) ==
  SumFunctionOnSet([b \in Banks |-> Settles(b, d)],
                   {b \in Banks : bank[b].status = "POSTED"})

\* Every table, and every open transaction, has its shape.
TypeOK ==
  /\ doc \in [Docs -> Doc]
  /\ applied \in [Docs \X Docs -> Nat]
  /\ credits \in SUBSET (Docs \X Docs)
  /\ posting \in [Docs -> Posting]
  /\ series \in Nat
  /\ manual \in [Docs -> Nat]
  /\ bank \in [Banks -> [status : BankStatus, allocations : Seq(Allocation)]]
  /\ tx \in [Txns -> Tx]

\* Final invoices issued at once never use more of an advance than it has.
AdvancesNotOverdrawn ==
  \A a \in Docs : Issued(a) => AppliedFrom(a) <= doc[a].total

\* Invoices and credit notes share the numbers 1, 2, ... of their series without
\* a gap or a duplicate, whatever was refused or lost on the way (ADR-0017).
InvoiceNumbersGapless ==
  /\ {doc[d].number : d \in {x \in Docs : Issued(x)}} = 1 .. series - 1
  /\ \A d, e \in Docs : Issued(d) /\ doc[d].number = doc[e].number => d = e

\* The sales ledger and the books tell the same story: what an invoice and its
\* credit notes left on accounts receivable is what the invoice says before
\* payments, never less than nothing, and the account of advances received is
\* what is left of them.  Only an invoice written off as a whole may leave in the
\* books what its note, at the tax rates of its day, did not take back.
SubledgerMeetsBooks ==
  /\ \A d \in Docs : Issued(d) /\ doc[d].kind # "SALES_CREDIT_NOTE" =>
       LET books == posting[d].receivable + ReceivableOfNotes(d)
       IN  books >= 0 /\ (books = Creditable(d) \/ WrittenOff(d))
  /\ AdvancesAccount = AdvancesLeft

\* Credit notes never exceed what the advances left of the invoice; credited_amount
\* is their sum, unless the invoice was written off as a whole; and the invoice is
\* CREDITED exactly when that leaves at most a cent to credit.
CreditsAddUp ==
  \A d \in Docs : Issued(d) =>
    /\ NotesTotal(d) <= doc[d].total - doc[d].advance
    /\ doc[d].credited = NotesTotal(d) \/ WrittenOff(d)
    /\ doc[d].status = "CREDITED" <=> NotesOf(d) # {} /\ Creditable(d) <= 1

\* Every payment is counted once: the manual ones, and of every bank
\* transaction posted the amount it was matched with.
PaidOnce == \A d \in Docs : doc[d].paid = manual[d] + PaidByBank(d)

\* A payment somebody enters by hand never takes more than is open.
ManualWithinOpen ==
  [][\A d \in Docs : manual'[d] > manual[d] =>
       doc'[d].paid <= doc[d].total - doc[d].advance - doc[d].credited]_vars

\* Once issued, a document keeps its kind, totals, advances and number and may
\* only become CREDITED; credits, payments and posted bank transactions stay
\* (the immutability triggers).
IssuedIsImmutable ==
  [][/\ \A d \in Docs : Issued(d) =>
          /\ doc'[d].status \in {doc[d].status, "CREDITED"}
          /\ [doc[d] EXCEPT !.status = doc'[d].status, !.payment = doc'[d].payment,
                            !.paid = doc'[d].paid, !.credited = doc'[d].credited]
               = doc'[d]
          /\ doc'[d].paid >= doc[d].paid /\ doc'[d].credited >= doc[d].credited
     /\ \A b \in Banks : bank[b].status = "POSTED" => bank'[b] = bank[b]]_vars

\* Whatever waits for whatever, every transaction ends.
EverySettlementEnds == \A t \in Txns : tx[t].op # "none" ~> tx[t].op = "none"
=============================================================================
