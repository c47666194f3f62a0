----------------------------- MODULE Purchases -----------------------------
(***************************************************************************)
(* Purchase invoices from their entry, import or scan to their posting and *)
(* correction (purchaseService.ts, expenseClassificationService.ts).       *)
(*                                                                         *)
(* Most operations lock the invoice, test it and commit, and are one step. *)
(* Four are not: an approval reads the settings before it waits for the    *)
(* lock, a classification reads the invoice without a lock and writes it   *)
(* later, OCR reads and writes in two transactions with the extraction in  *)
(* between, and an import looks for its event in a transaction of its own. *)
(* Invoices have one date and one currency here.                           *)
(***************************************************************************)
EXTENDS Naturals, Sequences

CONSTANTS
  Purchases,   \* purchase_invoices rows
  Requests,    \* requests that may be under way at once
  Users,
  Suppliers, Numbers, Events, Lines,
  None,        \* no supplier, number, event, lines, user or payment method
  Settings,    \* what purchase_settings may say
  Forms,       \* what a form or an e-invoice may say
  Scans,       \* what OCR may read
  Proposals    \* what a classification may set

Method == {"BANK_TRANSFER", "CASH"}
Payment == {"UNPAID", "PAID_AT_PURCHASE"}

Form == [supplier : Suppliers \union {None}, number : Numbers \union {None},
         method : Method, payment : Payment, lines : Lines]
Scan == [supplier : Suppliers \union {None}, named : BOOLEAN, lines : Lines]
Proposal == [method : Method \union {None}, lines : Lines \union {None}]

ASSUME PurchasesAssumption ==
  /\ None \notin Users \union Suppliers \union Numbers \union Events \union Lines
  /\ None \notin Purchases \union Method
  /\ Settings \subseteq [separate : BOOLEAN, auto : BOOLEAN]
  /\ Forms \subseteq Form /\ Scans \subseteq Scan /\ Proposals \subseteq Proposal

VARIABLES
  purchase,  \* purchase_invoices, each with its lines
  entries,   \* the journal entries of a purchase, in the order of posting
  settings,  \* purchase_settings
  request,   \* the requests under way
  relaxed    \* history: a creator was once allowed to approve

vars == <<purchase, entries, settings, request, relaxed>>

Status == {"ABSENT", "DRAFT", "NEEDS_REVIEW", "READY_FOR_APPROVAL", "APPROVED",
           "POSTED", "CORRECTED", "REJECTED", "CANCELLED_DRAFT"}

\* named: review has a name to go by, be it the merchant's or in the snapshot.
Purchase == [status : Status, creator : Users \union {None},
             approver : Users \union {None}, event : Events \union {None},
             named : BOOLEAN, supplier : Suppliers \union {None},
             number : Numbers \union {None}, method : Method, payment : Payment,
             lines : Lines \union {None}]

Absent == [status |-> "ABSENT", creator |-> None, approver |-> None,
           event |-> None, named |-> FALSE, supplier |-> None, number |-> None,
           method |-> "BANK_TRANSFER", payment |-> "UNPAID", lines |-> None]

Account == {"PAYABLE", "CASH_AT_HAND"}
Entry == [kind : {"POSTING", "CORRECTION"}, counter : Account,
          lines : Lines \union {None}]

\* A request under way: what it does next, what it read, what it wrote.  What
\* it was given is chosen where it is first used.
Request == [step : {"none", "approve", "classify", "classified", "apply",
                    "import", "insert"},
            target : Purchases \union {None},
            separate : BOOLEAN, auto : BOOLEAN, event : Events \union {None},
            proposal : Proposal]

Idle == [step |-> "none", target |-> None, separate |-> FALSE,
         auto |-> FALSE, event |-> None,
         proposal |-> [method |-> None, lines |-> None]]

\* A tenant that has set up its purchases and has no invoice yet.
Init ==
  /\ purchase = [p \in Purchases |-> Absent]
  /\ entries = [p \in Purchases |-> <<>>]
  /\ settings \in Settings
  /\ request = [r \in Requests |-> Idle]
  /\ relaxed = ~settings.separate
-----------------------------------------------------------------------------
Editable == {"DRAFT", "NEEDS_REVIEW"}
Approved == {"APPROVED", "POSTED", "CORRECTED"}
Is(p, statuses) == purchase[p].status \in statuses

\* What a classification wrote and has not committed: the row, the lines.
RowFree(p) ==
  \A r \in Requests : request[r].step = "classified" /\ request[r].target = p
                        => request[r].proposal.method = None
LinesFree(p) ==
  \A r \in Requests : request[r].step = "classified" /\ request[r].target = p
                        => request[r].proposal.lines = None

\* Mutant: a posted invoice no longer counts as a duplicate.
LiveMutant(p) == Is(p, {"DRAFT", "NEEDS_REVIEW", "READY_FOR_APPROVAL", "APPROVED"})

\* The invoices that count as duplicates of others.
Live(p) == Is(p, Editable \union {"READY_FOR_APPROVAL", "APPROVED", "POSTED"})

\* purchase_invoices_supplier_duplicate_unique, and findDuplicate before it.
Taken(p, supplier, number) ==
  /\ supplier # None /\ number # None
  /\ \E q \in Purchases \ {p} :
       Live(q) /\ purchase[q].supplier = supplier /\ purchase[q].number = number

Known(event) == \E p \in Purchases : purchase[p].event = event

Moved(r, next) == request' = [request EXCEPT ![r] = next]
Changed(p, row) == purchase' = [purchase EXCEPT ![p] = row]

\* createPurchaseInvoiceDraft
Create(p, u, form) ==
  /\ Is(p, {"ABSENT"}) /\ ~Taken(p, form.supplier, form.number)
  /\ Changed(p, [Absent EXCEPT
       !.status = "DRAFT", !.creator = u, !.named = TRUE,
       !.supplier = form.supplier, !.number = form.number,
       !.method = form.method, !.payment = form.payment, !.lines = form.lines])
  /\ UNCHANGED <<entries, settings, request, relaxed>>

\* updatePurchaseInvoiceDraft
Update(p, form) ==
  /\ RowFree(p) /\ LinesFree(p)
  /\ Is(p, Editable) /\ ~Taken(p, form.supplier, form.number)
  /\ Changed(p, [purchase[p] EXCEPT
       !.named = TRUE, !.supplier = form.supplier, !.number = form.number,
       !.method = form.method, !.payment = form.payment, !.lines = form.lines])
  /\ UNCHANGED <<entries, settings, request, relaxed>>

\* reviewPurchaseInvoice
Review(p) ==
  /\ RowFree(p) /\ Is(p, Editable)
  /\ purchase[p].supplier # None \/ purchase[p].named
  /\ Changed(p, [purchase[p] EXCEPT !.status = "READY_FOR_APPROVAL", !.named = TRUE])
  /\ UNCHANGED <<entries, settings, request, relaxed>>

\* rejectPurchaseInvoice: the trigger does not let a draft be rejected.
Reject(p) ==
  /\ RowFree(p) /\ Is(p, {"NEEDS_REVIEW", "READY_FOR_APPROVAL"})
  /\ Changed(p, [purchase[p] EXCEPT !.status = "REJECTED"])
  /\ UNCHANGED <<entries, settings, request, relaxed>>

\* cancelPurchaseDraft
Cancel(p) ==
  /\ RowFree(p) /\ Is(p, {"DRAFT"})
  /\ Changed(p, [purchase[p] EXCEPT !.status = "CANCELLED_DRAFT"])
  /\ UNCHANGED <<entries, settings, request, relaxed>>
-----------------------------------------------------------------------------
\* resolvePurchaseCounterAccount: what the posting credits.
Counter(p) ==
  IF purchase[p].payment = "PAID_AT_PURCHASE" /\ purchase[p].method = "CASH"
  THEN "CASH_AT_HAND" ELSE "PAYABLE"

\* postApprovedPurchase: the lines as committed make the entry.
Posting(p) == [kind |-> "POSTING", counter |-> Counter(p), lines |-> purchase[p].lines]

\* approvePurchaseInvoice reads the settings, then waits for the invoice.
BeginApprove(r, p) ==
  /\ request[r].step = "none" /\ ~Is(p, {"ABSENT"})
  /\ Moved(r, [Idle EXCEPT !.step = "approve", !.target = p,
                           !.separate = settings.separate, !.auto = settings.auto])
  /\ UNCHANGED <<purchase, entries, settings, relaxed>>

\* Mutant: creator and approver are not compared when the posting follows at once.
MayApproveMutant(r, u) ==
  LET p == request[r].target
  IN /\ RowFree(p) /\ Is(p, {"READY_FOR_APPROVAL"})
     /\ request[r].separate /\ ~request[r].auto => purchase[p].creator # u

MayApprove(r, u) ==
  LET p == request[r].target
  IN /\ RowFree(p) /\ Is(p, {"READY_FOR_APPROVAL"})
     /\ request[r].separate => purchase[p].creator # u

Approve(r, u) ==
  LET p == request[r].target
  IN /\ request[r].step = "approve" /\ MayApprove(r, u)
     /\ Changed(p, [purchase[p] EXCEPT
          !.status = IF request[r].auto THEN "POSTED" ELSE "APPROVED",
          !.approver = u])
     /\ entries' = IF request[r].auto
                   THEN [entries EXCEPT ![p] = Append(@, Posting(p))] ELSE entries
     /\ Moved(r, Idle)
     /\ UNCHANGED <<settings, relaxed>>

\* Mutant: an invoice that auto-posting has posted is posted again.
PostMutant(p) ==
  /\ RowFree(p) /\ Is(p, {"APPROVED", "POSTED"})
  /\ Changed(p, [purchase[p] EXCEPT !.status = "POSTED"])
  /\ entries' = [entries EXCEPT ![p] = Append(@, Posting(p))]
  /\ UNCHANGED <<settings, request, relaxed>>

\* postPurchaseInvoice
Post(p) ==
  /\ RowFree(p) /\ Is(p, {"APPROVED"})
  /\ Changed(p, [purchase[p] EXCEPT !.status = "POSTED"])
  /\ entries' = [entries EXCEPT ![p] = Append(@, Posting(p))]
  /\ UNCHANGED <<settings, request, relaxed>>

\* correctPurchaseInvoice mirrors the entry as posted, without a look at what
\* became of it in the journal.
Correct(p) ==
  /\ RowFree(p) /\ Is(p, {"POSTED"})
  /\ Changed(p, [purchase[p] EXCEPT !.status = "CORRECTED"])
  /\ entries' = [entries EXCEPT
       ![p] = Append(@, [@[1] EXCEPT !.kind = "CORRECTION"])]
  /\ UNCHANGED <<settings, request, relaxed>>

\* updatePurchaseSettings
Configure(new) ==
  /\ settings' = new
  /\ relaxed' = (relaxed \/ ~new.separate)
  /\ UNCHANGED <<purchase, entries, request>>
-----------------------------------------------------------------------------
\* applyClassification reads the invoice without a lock.
BeginClassify(r, p) ==
  /\ request[r].step = "none" /\ Is(p, Editable)
  /\ Moved(r, [Idle EXCEPT !.step = "classify", !.target = p])
  /\ UNCHANGED <<purchase, entries, settings, relaxed>>

\* What the triggers let it write: the row until it is approved, the lines
\* while they are edited.
Writable(p, proposal) ==
  /\ proposal.method # None =>
       RowFree(p) /\ Is(p, Editable \union {"READY_FOR_APPROVAL"})
  /\ proposal.lines # None => LinesFree(p) /\ Is(p, Editable)

Classify(r, proposal) ==
  /\ request[r].step = "classify" /\ Writable(request[r].target, proposal)
  /\ Moved(r, [request[r] EXCEPT !.step = "classified", !.proposal = proposal])
  /\ UNCHANGED <<purchase, entries, settings, relaxed>>

CommitClassify(r) ==
  LET p == request[r].target
      proposal == request[r].proposal
  IN /\ request[r].step = "classified"
     /\ Changed(p, [purchase[p] EXCEPT
          !.method = IF proposal.method = None THEN @ ELSE proposal.method,
          !.lines = IF proposal.lines = None THEN @ ELSE proposal.lines])
     /\ Moved(r, Idle)
     /\ UNCHANGED <<entries, settings, relaxed>>

\* runPurchaseOcr: the document is read outside of any transaction.
BeginOcr(r, p) ==
  /\ request[r].step = "none" /\ Is(p, Editable)
  /\ Moved(r, [Idle EXCEPT !.step = "apply", !.target = p])
  /\ UNCHANGED <<purchase, entries, settings, relaxed>>

\* Mutant: the trigger on the lines looks for a posted invoice only.
ApplyOcrMutant(r, scan) ==
  LET p == request[r].target
      supplier == IF scan.supplier = None THEN purchase[p].supplier ELSE scan.supplier
  IN /\ request[r].step = "apply"
     /\ RowFree(p) /\ LinesFree(p) /\ Is(p, Editable \union {"READY_FOR_APPROVAL"})
     /\ ~Taken(p, supplier, purchase[p].number)
     /\ Changed(p, [purchase[p] EXCEPT !.supplier = supplier, !.lines = scan.lines,
                                       !.named = @ \/ scan.named])
     /\ Moved(r, Idle)
     /\ UNCHANGED <<entries, settings, relaxed>>

\* What it finds replaces what is there, a supplier somebody chose included; the
\* number it reads does not reach the column that is compared.
ApplyOcr(r, scan) ==
  LET p == request[r].target
      supplier == IF scan.supplier = None THEN purchase[p].supplier ELSE scan.supplier
  IN /\ request[r].step = "apply"
     /\ RowFree(p) /\ LinesFree(p) /\ Is(p, Editable)
     /\ ~Taken(p, supplier, purchase[p].number)
     /\ Changed(p, [purchase[p] EXCEPT !.supplier = supplier, !.lines = scan.lines,
                                       !.named = @ \/ scan.named])
     /\ Moved(r, Idle)
     /\ UNCHANGED <<entries, settings, relaxed>>
-----------------------------------------------------------------------------
\* importEinvoice looks for the event, then createFromCanonical looks again,
\* and the unique indices decide.  Its look for the number is one with theirs.
BeginImport(r, event) ==
  /\ request[r].step = "none" /\ ~Known(event)
  /\ Moved(r, [Idle EXCEPT !.step = "import", !.event = event])
  /\ UNCHANGED <<purchase, entries, settings, relaxed>>

LookAgain(r) ==
  /\ request[r].step = "import" /\ ~Known(request[r].event)
  /\ Moved(r, [request[r] EXCEPT !.step = "insert"])
  /\ UNCHANGED <<purchase, entries, settings, relaxed>>

Import(r, u, p, form) ==
  /\ request[r].step = "insert" /\ Is(p, {"ABSENT"})
  /\ ~Known(request[r].event) /\ ~Taken(p, form.supplier, form.number)
  /\ Changed(p, [Absent EXCEPT
       !.status = "NEEDS_REVIEW", !.creator = u,
       !.event = request[r].event, !.supplier = form.supplier,
       !.number = form.number, !.lines = form.lines])
  /\ Moved(r, Idle)
  /\ UNCHANGED <<entries, settings, relaxed>>

\* A test, a trigger or an index refuses, or the connection is lost.
Abandon(r) ==
  /\ request[r].step # "none"
  /\ Moved(r, Idle)
  /\ UNCHANGED <<purchase, entries, settings, relaxed>>
-----------------------------------------------------------------------------
Decide(p) == Review(p) \/ Reject(p) \/ Cancel(p) \/ Post(p) \/ Correct(p)

Begin(r) ==
  \/ \E p \in Purchases : BeginApprove(r, p) \/ BeginClassify(r, p) \/ BeginOcr(r, p)
  \/ \E event \in Events : BeginImport(r, event)

Proceed(r) ==
  \/ \E u \in Users : Approve(r, u)
  \/ \E proposal \in Proposals : Classify(r, proposal)
  \/ CommitClassify(r)
  \/ \E scan \in Scans : ApplyOcr(r, scan)
  \/ LookAgain(r)
  \/ \E u \in Users, p \in Purchases, form \in Forms : Import(r, u, p, form)

Next ==
  \/ \E p \in Purchases, form \in Forms :
       Update(p, form) \/ \E u \in Users : Create(p, u, form)
  \/ \E p \in Purchases : Decide(p)
  \/ \E new \in Settings : Configure(new)
  \/ \E r \in Requests : Begin(r) \/ Proceed(r) \/ Abandon(r)

Spec == Init /\ [][Next]_vars
-----------------------------------------------------------------------------
\* Every table, and every request under way, has its shape.
TypeOK ==
  /\ purchase \in [Purchases -> Purchase]
  /\ entries \in [Purchases -> Seq(Entry)]
  /\ settings \in Settings
  /\ request \in [Requests -> Request]
  /\ relaxed \in BOOLEAN

\* However approvals, postings and corrections meet, an invoice has its one
\* entry when it is posted and a mirror of it when it is corrected, and the
\* entry credits what the invoice says by the time it is read.
BooksFollowStatus ==
  \A p \in Purchases :
    LET posted == Is(p, {"POSTED", "CORRECTED"})
        corrected == Is(p, {"CORRECTED"})
    IN /\ Len(entries[p]) = (IF corrected THEN 2 ELSE IF posted THEN 1 ELSE 0)
       /\ posted => entries[p][1].kind = "POSTING" /\ entries[p][1].counter = Counter(p)
       /\ corrected => /\ entries[p][2].kind = "CORRECTION"
                       /\ entries[p][2].counter = entries[p][1].counter
                       /\ entries[p][2].lines = entries[p][1].lines

\* While the rule was never off nobody has approved what he entered himself,
\* by whatever path the approval came (ADR-0021).
FourEyes ==
  ~relaxed => \A p \in Purchases :
                Is(p, Approved) => purchase[p].approver # purchase[p].creator

Uncounted == {"ABSENT", "REJECTED", "CANCELLED_DRAFT", "CORRECTED"}

\* An invoice is in the books once: no two invoices that count have the same
\* supplier and number, and an event was imported once, however often it is
\* sent and whatever is entered, edited or scanned meanwhile (ADR-0022).
CountedOnce ==
  \A p, q \in Purchases : p # q =>
    /\ purchase[p].event # None => purchase[p].event # purchase[q].event
    /\ \/ Is(p, Uncounted) \/ Is(q, Uncounted)
       \/ purchase[p].supplier = None \/ purchase[p].number = None
       \/ purchase[p].supplier # purchase[q].supplier
       \/ purchase[p].number # purchase[q].number

Written(p) ==
  \E r \in Requests : request[r].step = "classified" /\ request[r].target = p

StaysFrozen(p) ==
  /\ \A field \in {"creator", "event", "named", "supplier", "number", "payment"} :
       purchase'[p][field] = purchase[p][field]
  /\ purchase'[p].method # purchase[p].method =>
       Written(p) /\ Is(p, {"READY_FOR_APPROVAL"})
  /\ purchase'[p].lines # purchase[p].lines => Written(p)
  /\ Is(p, Approved) => purchase'[p].approver = purchase[p].approver
                        /\ purchase'[p].status \in Approved

\* After its review nothing changes in an invoice but what a classification has
\* already written and not committed: the method until it is approved, and the
\* lines.  No scan or edit reaches it, however late (ADR-0019 and the triggers).
ReviewedIsFrozen ==
  [][\A p \in Purchases : Is(p, Approved \union {"READY_FOR_APPROVAL"})
                            => StaysFrozen(p)]_vars
=============================================================================
