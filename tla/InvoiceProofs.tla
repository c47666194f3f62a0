---------------------------- MODULE InvoiceProofs ---------------------------
(***************************************************************************)
(* Proofs about Purchases and InvoiceAmounts: the way of a purchase        *)
(* invoice to the books, for any number of invoices, requests, users,      *)
(* suppliers, numbers, events and lines; and the amounts of invoices of    *)
(* either side with their journal entries, for any tax codes, any lines,   *)
(* quantities, prices and discounts.                                       *)
(***************************************************************************)
EXTENDS Purchases, InvoiceAmounts, SumTheorems

-----------------------------------------------------------------------------
(***************************************************************************)
(* The way of a purchase invoice.                                          *)
(***************************************************************************)

\* A request knows its invoice or its event.
TargetKnown ==
  \A r \in Requests :
    /\ request[r].step \in {"approve", "classify", "classified", "apply"}
         => request[r].target \in Purchases
    /\ request[r].step \in {"import", "insert"} => request[r].event \in Events

\* The row lock of a classification keeps the invoice from being approved.
HeldUnapproved ==
  \A r \in Requests :
    request[r].step = "classified" /\ request[r].proposal.method # None
      => Is(request[r].target, Editable \union {"READY_FOR_APPROVAL"})

(***************************************************************************)
(* Types.                                                                  *)
(***************************************************************************)

LEMMA IdleType == Idle \in Request
BY DEF Idle, Request, Proposal

LEMMA AbsentType == Absent \in Purchase
BY DEF Absent, Purchase, Status, Method, Payment

LEMMA FormType ==
  ASSUME NEW form \in Forms
  PROVE  /\ form.supplier \in Suppliers \union {None}
         /\ form.number \in Numbers \union {None}
         /\ form.method \in Method /\ form.payment \in Payment
         /\ form.lines \in Lines
BY PurchasesAssumption DEF Form

\* What an approval, a classification or a scan writes leaves an invoice.
LEMMA ApprovedType ==
  ASSUME NEW row \in Purchase, NEW status \in Status, NEW u \in Users
  PROVE  [row EXCEPT !.status = status, !.approver = u] \in Purchase
  BY DEF Purchase

LEMMA ClassifiedType ==
  ASSUME NEW row \in Purchase, NEW method \in Method, NEW lines \in Lines \union {None}
  PROVE  [row EXCEPT !.method = method, !.lines = lines] \in Purchase
  BY DEF Purchase

LEMMA ScannedType ==
  ASSUME NEW row \in Purchase, NEW supplier \in Suppliers \union {None},
         NEW lines \in Lines \union {None}, NEW named \in BOOLEAN
  PROVE  [row EXCEPT !.supplier = supplier, !.lines = lines, !.named = named] \in Purchase
  BY DEF Purchase

LEMMA PostingType ==
  ASSUME TypeOK, NEW p \in Purchases
  PROVE  Posting(p) \in Entry
<1>1. purchase[p].lines \in Lines \union {None}
  BY DEF TypeOK, Purchase
<1>. QED
  BY <1>1 DEF Posting, Counter, Entry, Account

\* A decision leaves what the invoice says as it is, and the other invoices.
LEMMA DecisionKeeps ==
  ASSUME TypeOK, NEW p \in Purchases, Decide(p)
  PROVE  /\ purchase'[p].creator = purchase[p].creator
         /\ purchase'[p].approver = purchase[p].approver
         /\ purchase'[p].event = purchase[p].event
         /\ purchase'[p].supplier = purchase[p].supplier
         /\ purchase'[p].number = purchase[p].number
         /\ \A q \in Purchases \ {p} : purchase'[q] = purchase[q]
         /\ UNCHANGED relaxed
<1>1. purchase[p] \in Purchase
  BY DEF TypeOK
<1>2. CASE Review(p)
  BY <1>1, <1>2 DEF Review, Changed, TypeOK, Purchase
<1>3. CASE Reject(p)
  BY <1>1, <1>3 DEF Reject, Changed, TypeOK, Purchase
<1>4. CASE Cancel(p)
  BY <1>1, <1>4 DEF Cancel, Changed, TypeOK, Purchase
<1>5. CASE Post(p)
  BY <1>1, <1>5 DEF Post, Changed, TypeOK, Purchase
<1>6. CASE Correct(p)
  BY <1>1, <1>6 DEF Correct, Changed, TypeOK, Purchase
<1>. QED
  BY <1>2, <1>3, <1>4, <1>5, <1>6 DEF Decide

LEMMA TypeInit == Init => TypeOK /\ TargetKnown /\ HeldUnapproved
<1> SUFFICES ASSUME Init PROVE TypeOK /\ TargetKnown /\ HeldUnapproved
  OBVIOUS
<1>1. TypeOK
  BY AbsentType, IdleType, PurchasesAssumption DEF Init, TypeOK
<1>. QED
  BY <1>1 DEF Init, TargetKnown, HeldUnapproved, Idle

\* What a step makes of an invoice and of a request has its type; a correction
\* needs that there is an entry to mirror.
LEMMA TypeStep ==
  ASSUME TypeOK, TargetKnown, BooksFollowStatus, [Next]_vars
  PROVE  TypeOK'
<1> USE DEF TypeOK
<1>a. \A p \in Purchases : purchase[p] \in Purchase
  OBVIOUS
<1>b. \A r \in Requests : request[r] \in Request
  OBVIOUS
<1>1. ASSUME NEW p \in Purchases, NEW form \in Forms, Update(p, form)
      PROVE  TypeOK'
  <2>1. [purchase[p] EXCEPT !.named = TRUE, !.supplier = form.supplier,
           !.number = form.number, !.method = form.method,
           !.payment = form.payment, !.lines = form.lines] \in Purchase
    BY <1>a, FormType DEF Purchase
  <2>. QED
    BY <1>1, <2>1 DEF Update, Changed
<1>2. ASSUME NEW p \in Purchases, NEW form \in Forms, NEW u \in Users, Create(p, u, form)
      PROVE  TypeOK'
  <2>1. [Absent EXCEPT !.status = "DRAFT", !.creator = u, !.named = TRUE,
           !.supplier = form.supplier, !.number = form.number,
           !.method = form.method, !.payment = form.payment, !.lines = form.lines]
          \in Purchase
    BY AbsentType, FormType DEF Purchase, Status
  <2>. QED
    BY <1>2, <2>1 DEF Create, Changed
<1>3. ASSUME NEW p \in Purchases, Review(p) \/ Reject(p) \/ Cancel(p)
      PROVE  TypeOK'
  <2>1. ASSUME NEW status \in Status, NEW named \in BOOLEAN
        PROVE  [purchase[p] EXCEPT !.status = status, !.named = named] \in Purchase
    BY <1>a DEF Purchase
  <2>2. ASSUME NEW status \in Status
        PROVE  [purchase[p] EXCEPT !.status = status] \in Purchase
    BY <1>a DEF Purchase
  <2>3. {"READY_FOR_APPROVAL", "REJECTED", "CANCELLED_DRAFT"} \subseteq Status
    BY DEF Status
  <2>. QED
    BY <1>3, <2>1, <2>2, <2>3 DEF Review, Reject, Cancel, Changed
<1>4. ASSUME NEW p \in Purchases, Post(p)
      PROVE  TypeOK'
  <2>1. [purchase[p] EXCEPT !.status = "POSTED"] \in Purchase
    BY <1>a DEF Purchase, Status
  <2>2. Append(entries[p], Posting(p)) \in Seq(Entry)
    BY PostingType
  <2>. QED
    BY <1>4, <2>1, <2>2 DEF Post, Changed
<1>5. ASSUME NEW p \in Purchases, Correct(p)
      PROVE  TypeOK'
  <2>1. [purchase[p] EXCEPT !.status = "CORRECTED"] \in Purchase
    BY <1>a DEF Purchase, Status
  <2>2. entries[p] \in Seq(Entry) /\ Len(entries[p]) = 1
    BY <1>5 DEF Correct, Is, BooksFollowStatus
  <2>6. 1 \in 1 .. Len(entries[p])
    BY <2>2
  <2>5. entries[p][1] \in Entry
    BY <2>2, <2>6, ElementOfSeq
  <2>3. [entries[p][1] EXCEPT !.kind = "CORRECTION"] \in Entry
    BY <2>5 DEF Entry
  <2>4. Append(entries[p], [entries[p][1] EXCEPT !.kind = "CORRECTION"]) \in Seq(Entry)
    BY <2>3
  <2>. QED
    BY <1>5, <2>1, <2>4 DEF Correct, Changed
<1>6. ASSUME NEW new \in Settings, Configure(new)
      PROVE  TypeOK'
  BY <1>6, PurchasesAssumption DEF Configure
<1>7. ASSUME NEW r \in Requests, Begin(r)
      PROVE  TypeOK'
  <2>1. ASSUME NEW step \in {"approve", "classify", "apply"}, NEW p \in Purchases,
               NEW separate \in BOOLEAN, NEW auto \in BOOLEAN
        PROVE  /\ [Idle EXCEPT !.step = step, !.target = p, !.separate = separate,
                                !.auto = auto] \in Request
               /\ [Idle EXCEPT !.step = step, !.target = p] \in Request
    BY IdleType DEF Request
  <2>2. ASSUME NEW event \in Events
        PROVE  [Idle EXCEPT !.step = "import", !.event = event] \in Request
    BY IdleType DEF Request
  <2>3. settings.separate \in BOOLEAN /\ settings.auto \in BOOLEAN
    BY PurchasesAssumption
  <2>4. ASSUME NEW p \in Purchases, BeginApprove(r, p)
        PROVE  TypeOK'
    BY <2>1, <2>3, <2>4 DEF BeginApprove, Moved
  <2>5. ASSUME NEW p \in Purchases, BeginClassify(r, p) \/ BeginOcr(r, p)
        PROVE  TypeOK'
    BY <2>1, <2>5 DEF BeginClassify, BeginOcr, Moved
  <2>6. ASSUME NEW event \in Events, BeginImport(r, event)
        PROVE  TypeOK'
    BY <2>2, <2>6 DEF BeginImport, Moved
  <2>. QED
    BY <1>7, <2>4, <2>5, <2>6 DEF Begin
<1>8. ASSUME NEW r \in Requests, NEW u \in Users, Approve(r, u)
      PROVE  TypeOK'
  <2>1. request[r].target \in Purchases
    BY <1>8 DEF Approve, TargetKnown
  <2>2. {"POSTED", "APPROVED"} \subseteq Status
    BY DEF Status
  <2>3. Append(entries[request[r].target], Posting(request[r].target)) \in Seq(Entry)
    BY <2>1, PostingType
  <2>. QED
    BY <1>8, <1>a, <2>1, <2>2, <2>3, IdleType, ApprovedType DEF Approve, Changed, Moved
<1>9. ASSUME NEW r \in Requests, NEW proposal \in Proposals, Classify(r, proposal)
      PROVE  TypeOK'
  <2>1. [request[r] EXCEPT !.step = "classified", !.proposal = proposal] \in Request
    BY <1>b, PurchasesAssumption DEF Request
  <2>. QED
    BY <1>9, <2>1 DEF Classify, Moved
<1>10. ASSUME NEW r \in Requests, CommitClassify(r)
       PROVE  TypeOK'
  <2> DEFINE p == request[r].target
  <2>1. p \in Purchases
    BY <1>10 DEF CommitClassify, TargetKnown
  <2>2. request[r].proposal \in Proposal
    BY <1>b DEF Request
  <2>3. /\ (IF request[r].proposal.method = None THEN purchase[p].method
            ELSE request[r].proposal.method) \in Method
        /\ (IF request[r].proposal.lines = None THEN purchase[p].lines
            ELSE request[r].proposal.lines) \in Lines \union {None}
    BY <1>a, <2>1, <2>2 DEF Purchase, Proposal
  <2>. QED
    BY <1>10, <1>a, <2>1, <2>3, IdleType, ClassifiedType DEF CommitClassify, Changed, Moved
<1>11. ASSUME NEW r \in Requests, NEW scan \in Scans, ApplyOcr(r, scan)
       PROVE  TypeOK'
  <2> DEFINE p == request[r].target
  <2>1. p \in Purchases
    BY <1>11 DEF ApplyOcr, TargetKnown
  <2>2. scan \in Scan
    BY PurchasesAssumption
  <2>3. /\ (IF scan.supplier = None THEN purchase[p].supplier ELSE scan.supplier)
              \in Suppliers \union {None}
        /\ scan.lines \in Lines \union {None}
    BY <1>a, <2>1, <2>2 DEF Purchase, Scan
  <2>4. (purchase[p].named \/ scan.named) \in BOOLEAN
    OBVIOUS
  <2>. QED
    BY <1>11, <1>a, <2>1, <2>3, <2>4, IdleType, ScannedType DEF ApplyOcr, Changed, Moved
<1>12. ASSUME NEW r \in Requests, LookAgain(r) \/ Abandon(r)
       PROVE  TypeOK'
  <2>1. [request[r] EXCEPT !.step = "insert"] \in Request
    BY <1>b DEF Request
  <2>. QED
    BY <1>12, <2>1, IdleType DEF LookAgain, Abandon, Moved
<1>13. ASSUME NEW r \in Requests, NEW u \in Users, NEW p \in Purchases,
              NEW form \in Forms, Import(r, u, p, form)
       PROVE  TypeOK'
  <2>1. request[r].event \in Events \union {None}
    BY <1>b DEF Request
  <2>2. [Absent EXCEPT !.status = "NEEDS_REVIEW", !.creator = u,
           !.event = request[r].event, !.supplier = form.supplier,
           !.number = form.number, !.lines = form.lines] \in Purchase
    BY AbsentType, FormType, <2>1 DEF Purchase, Status
  <2>. QED
    BY <1>13, <2>2, IdleType DEF Import, Changed, Moved
<1>14. CASE UNCHANGED vars
  BY <1>14 DEF vars
<1>. QED
  BY <1>1, <1>2, <1>3, <1>4, <1>5, <1>6, <1>7, <1>8, <1>9, <1>10, <1>11, <1>12,
     <1>13, <1>14
  DEF Next, Decide, Proceed

(***************************************************************************)
(* What a request relies on.                                               *)
(***************************************************************************)

LEMMA TargetStep ==
  ASSUME TypeOK, TargetKnown, [Next]_vars
  PROVE  TargetKnown'
<1> USE DEF TargetKnown
<1>1. CASE UNCHANGED request
  BY <1>1
<1>2. ASSUME NEW r \in Requests, NEW next \in Request, Moved(r, next),
             /\ next.step \in {"approve", "classify", "classified", "apply"}
                  => next.target \in Purchases
             /\ next.step \in {"import", "insert"} => next.event \in Events
      PROVE  TargetKnown'
  BY <1>2 DEF Moved, TypeOK
<1>3. \A r \in Requests : request[r] \in Request
  BY DEF TypeOK
<1>4. ASSUME NEW r \in Requests, Moved(r, Idle)
      PROVE  TargetKnown'
  BY <1>2, <1>4, IdleType DEF Idle
<1>5. ASSUME NEW r \in Requests, Begin(r)
      PROVE  TargetKnown'
  <2>1. settings.separate \in BOOLEAN /\ settings.auto \in BOOLEAN
    BY PurchasesAssumption DEF TypeOK
  <2>2. ASSUME NEW p \in Purchases, BeginApprove(r, p)
        PROVE  TargetKnown'
    BY <2>2 DEF BeginApprove, Moved, Idle, TypeOK
  <2>3. ASSUME NEW p \in Purchases, BeginClassify(r, p) \/ BeginOcr(r, p)
        PROVE  TargetKnown'
    BY <2>3 DEF BeginClassify, BeginOcr, Moved, Idle, TypeOK
  <2>4. ASSUME NEW event \in Events, BeginImport(r, event)
        PROVE  TargetKnown'
    BY <2>4 DEF BeginImport, Moved, Idle, TypeOK
  <2>. QED
    BY <1>5, <2>2, <2>3, <2>4 DEF Begin
<1>6. ASSUME NEW r \in Requests, NEW proposal \in Proposals, Classify(r, proposal)
      PROVE  TargetKnown'
  BY <1>3, <1>6 DEF Classify, Moved, TypeOK, Request
<1>7. ASSUME NEW r \in Requests, LookAgain(r)
      PROVE  TargetKnown'
  BY <1>3, <1>7 DEF LookAgain, Moved, TypeOK, Request
<1>8. ASSUME NEW r \in Requests, Proceed(r) \/ Abandon(r)
      PROVE  TargetKnown'
  <2>1. ASSUME NEW u \in Users, Approve(r, u)
        PROVE  Moved(r, Idle)
    BY <2>1 DEF Approve
  <2>2. ASSUME NEW scan \in Scans, ApplyOcr(r, scan)
        PROVE  Moved(r, Idle)
    BY <2>2 DEF ApplyOcr
  <2>3. ASSUME NEW u \in Users, NEW p \in Purchases, NEW form \in Forms, Import(r, u, p, form)
        PROVE  Moved(r, Idle)
    BY <2>3 DEF Import
  <2>4. CommitClassify(r) \/ Abandon(r) => Moved(r, Idle)
    BY DEF CommitClassify, Abandon
  <2>. QED
    BY <1>4, <1>6, <1>7, <1>8, <2>1, <2>2, <2>3, <2>4 DEF Proceed
<1>. QED
  BY <1>1, <1>5, <1>8
  DEF Next, vars, Update, Create, Decide, Review, Reject, Cancel, Post, Correct,
      Configure

\* Who waited for the row lock finds no classification that still holds it.
LEMMA RowFreed ==
  ASSUME NEW p, RowFree(p), NEW r \in Requests,
         request[r].step = "classified", request[r].proposal.method # None
  PROVE  request[r].target # p
BY DEF RowFree

LEMMA HeldStep ==
  ASSUME TypeOK, TargetKnown, HeldUnapproved, [Next]_vars
  PROVE  HeldUnapproved'
<1> USE DEF HeldUnapproved
<1>1. ASSUME NEW p \in Purchases,
             RowFree(p) \/ Is(p, {"ABSENT"}),
             \A q \in Purchases \ {p} : purchase'[q].status = purchase[q].status,
             UNCHANGED request
      PROVE  HeldUnapproved'
  <2> SUFFICES ASSUME NEW r \in Requests, request[r].step = "classified",
                      request[r].proposal.method # None
               PROVE  purchase'[request[r].target].status
                        \in Editable \union {"READY_FOR_APPROVAL"}
    BY <1>1 DEF Is
  <2>1. request[r].target \in Purchases
    BY DEF TargetKnown
  <2>2. Is(request[r].target, Editable \union {"READY_FOR_APPROVAL"})
    OBVIOUS
  <2>3. request[r].target # p
    BY <1>1, <2>2, RowFreed DEF Is, Editable
  <2>. QED
    BY <1>1, <2>1, <2>2, <2>3 DEF Is
<1>2. ASSUME NEW p \in Purchases, NEW form \in Forms,
             Update(p, form) \/ \E u \in Users : Create(p, u, form)
      PROVE  HeldUnapproved'
  BY <1>1, <1>2 DEF Update, Create, Changed, TypeOK
<1>3. ASSUME NEW p \in Purchases, Decide(p)
      PROVE  HeldUnapproved'
  BY <1>1, <1>3 DEF Decide, Review, Reject, Cancel, Post, Correct, Changed, TypeOK
<1>4. ASSUME UNCHANGED purchase,
             \A s \in Requests : \/ request'[s] = request[s]
                                 \/ request'[s].step # "classified"
      PROVE  HeldUnapproved'
  BY <1>4 DEF Is
<1>5. ASSUME NEW r \in Requests, Begin(r) \/ LookAgain(r) \/ Abandon(r)
      PROVE  HeldUnapproved'
  <2>1. ASSUME NEW next \in Request, next.step # "classified", Moved(r, next),
               UNCHANGED purchase
        PROVE  HeldUnapproved'
    BY <1>4, <2>1 DEF Moved, TypeOK
  <2>2. CASE Begin(r) \/ Abandon(r)
    <3>1. ASSUME NEW p \in Purchases, BeginApprove(r, p) \/ BeginClassify(r, p) \/ BeginOcr(r, p)
          PROVE  HeldUnapproved'
      BY <1>4, <3>1 DEF BeginApprove, BeginClassify, BeginOcr, Moved, Idle, TypeOK
    <3>2. ASSUME NEW event \in Events, BeginImport(r, event)
          PROVE  HeldUnapproved'
      BY <1>4, <3>2 DEF BeginImport, Moved, Idle, TypeOK
    <3>3. CASE Abandon(r)
      BY <1>4, <3>3 DEF Abandon, Moved, Idle, TypeOK
    <3>. QED
      BY <2>2, <3>1, <3>2, <3>3 DEF Begin
  <2>3. CASE LookAgain(r)
    <3>1. request[r] \in Request
      BY DEF TypeOK
    <3>2. [request[r] EXCEPT !.step = "insert"] \in Request
      BY <3>1 DEF Request
    <3>. QED
      BY <2>1, <2>3, <3>1, <3>2 DEF LookAgain, Request
  <2>. QED
    BY <1>5, <2>2, <2>3
<1>6. ASSUME NEW r \in Requests, NEW proposal \in Proposals, Classify(r, proposal)
      PROVE  HeldUnapproved'
  <2> SUFFICES ASSUME NEW s \in Requests, request'[s].step = "classified",
                      request'[s].proposal.method # None
               PROVE  Is(request'[s].target, Editable \union {"READY_FOR_APPROVAL"})
    BY <1>6 DEF Classify, Is
  <2>1. request[r] \in Request
    BY DEF TypeOK
  <2>2. CASE s = r
    <3>1. request'[r].target = request[r].target /\ request'[r].proposal = proposal
      BY <1>6, <2>1 DEF Classify, Moved, TypeOK, Request
    <3>. QED
      BY <1>6, <2>2, <3>1 DEF Classify, Writable
  <2>3. CASE s # r
    BY <1>6, <2>3 DEF Classify, Moved, TypeOK
  <2>. QED
    BY <2>2, <2>3
<1>7. ASSUME NEW r \in Requests, NEW p \in Purchases,
             p = request[r].target, RowFree(p), Moved(r, Idle),
             \A q \in Purchases \ {p} : purchase'[q].status = purchase[q].status
      PROVE  HeldUnapproved'
  <2> SUFFICES ASSUME NEW s \in Requests, request'[s].step = "classified",
                      request'[s].proposal.method # None
               PROVE  purchase'[request'[s].target].status
                        \in Editable \union {"READY_FOR_APPROVAL"}
    BY DEF Is
  <2>1. s # r /\ request'[s] = request[s]
    BY <1>7 DEF Moved, Idle, TypeOK
  <2>2. request[s].target \in Purchases
    BY <2>1 DEF TargetKnown
  <2>3. request[s].target # p
    BY <1>7, <2>1, RowFreed
  <2>. QED
    BY <1>7, <2>1, <2>2, <2>3 DEF Is
<1>8. ASSUME NEW r \in Requests, NEW u \in Users, Approve(r, u)
      PROVE  HeldUnapproved'
  BY <1>7, <1>8 DEF Approve, MayApprove, Changed, TargetKnown, TypeOK
<1>9. ASSUME NEW r \in Requests, NEW scan \in Scans, ApplyOcr(r, scan)
      PROVE  HeldUnapproved'
  BY <1>7, <1>9 DEF ApplyOcr, Changed, TargetKnown, TypeOK
<1>10. ASSUME NEW r \in Requests, CommitClassify(r)
       PROVE  HeldUnapproved'
  <2>1. request[r].target \in Purchases
    BY <1>10 DEF CommitClassify, TargetKnown
  <2>2. purchase[request[r].target] \in Purchase
    BY <2>1 DEF TypeOK
  <2>3. \A q \in Purchases : purchase'[q].status = purchase[q].status
    BY <1>10, <2>1, <2>2 DEF CommitClassify, Changed, TypeOK, Purchase
  <2>4. \A s \in Requests : \/ request'[s] = request[s]
                           \/ request'[s].step # "classified"
    BY <1>10 DEF CommitClassify, Moved, Idle, TypeOK
  <2>. QED
    BY <2>3, <2>4 DEF Is, TargetKnown
<1>11. ASSUME NEW r \in Requests, NEW u \in Users, NEW p \in Purchases,
              NEW form \in Forms, Import(r, u, p, form)
       PROVE  HeldUnapproved'
  <2> SUFFICES ASSUME NEW s \in Requests, request'[s].step = "classified",
                      request'[s].proposal.method # None
               PROVE  purchase'[request'[s].target].status
                        \in Editable \union {"READY_FOR_APPROVAL"}
    BY DEF Is
  <2>1. request'[s] = request[s]
    BY <1>11 DEF Import, Moved, Idle, TypeOK
  <2>2. request[s].target \in Purchases
        /\ Is(request[s].target, Editable \union {"READY_FOR_APPROVAL"})
    BY <2>1 DEF TargetKnown
  <2>3. request[s].target # p
    BY <1>11, <2>2 DEF Import, Is, Editable
  <2>. QED
    BY <1>11, <2>1, <2>2, <2>3 DEF Import, Changed, Is, TypeOK
<1>12. CASE UNCHANGED <<purchase, request>>
  BY <1>12 DEF Is
<1>. QED
  BY <1>2, <1>3, <1>5, <1>6, <1>8, <1>9, <1>10, <1>11, <1>12
  DEF Next, vars, Configure, Proceed

(***************************************************************************)
(* The books.                                                              *)
(***************************************************************************)

\* An invoice whose status, payment and method stay, and its entries, agrees
\* with the books as before.
BooksAgree(p) ==
  LET posted == Is(p, {"POSTED", "CORRECTED"})
      corrected == Is(p, {"CORRECTED"})
  IN /\ Len(entries[p]) = (IF corrected THEN 2 ELSE IF posted THEN 1 ELSE 0)
     /\ posted => entries[p][1].kind = "POSTING" /\ entries[p][1].counter = Counter(p)
     /\ corrected => /\ entries[p][2].kind = "CORRECTION"
                     /\ entries[p][2].counter = entries[p][1].counter
                     /\ entries[p][2].lines = entries[p][1].lines

LEMMA BooksStep ==
  ASSUME TypeOK, TargetKnown, HeldUnapproved, BooksFollowStatus, [Next]_vars
  PROVE  BooksFollowStatus'
<1>0. BooksFollowStatus <=> \A p \in Purchases : BooksAgree(p)
  BY DEF BooksFollowStatus, BooksAgree
<1>1. BooksFollowStatus' <=> \A p \in Purchases : BooksAgree(p)'
  BY DEF BooksFollowStatus, BooksAgree
<1>a. \A p \in Purchases : purchase[p] \in Purchase /\ entries[p] \in Seq(Entry)
  BY DEF TypeOK
<1>2. ASSUME NEW p \in Purchases, entries'[p] = entries[p],
             purchase'[p].status = purchase[p].status,
             purchase'[p].payment = purchase[p].payment,
             purchase'[p].method = purchase[p].method
      PROVE  BooksAgree(p)'
  BY <1>0, <1>2 DEF BooksAgree, Is, Counter
\* Neither before nor after has it been posted.
<1>3. ASSUME NEW p \in Purchases, entries'[p] = entries[p],
             ~Is(p, {"POSTED", "CORRECTED"}),
             purchase'[p].status \notin {"POSTED", "CORRECTED"}
      PROVE  BooksAgree(p)'
  BY <1>0, <1>3 DEF BooksAgree, Is
<1>4. ASSUME NEW p \in Purchases, ~Is(p, {"POSTED", "CORRECTED"}),
             purchase'[p].status = "POSTED",
             purchase'[p].payment = purchase[p].payment,
             purchase'[p].method = purchase[p].method,
             entries'[p] = Append(entries[p], Posting(p))
      PROVE  BooksAgree(p)'
  <2>1. entries[p] \in Seq(Entry) /\ Posting(p) \in Entry
    BY <1>a, PostingType
  <2>3. Len(entries[p]) = 0
    BY <1>0, <1>4 DEF BooksAgree, Is
  <2>2. Len(entries'[p]) = 1 /\ entries'[p][1] = Posting(p)
    BY <1>4, <2>1, <2>3
  <2>. QED
    BY <1>4, <2>2 DEF BooksAgree, Is, Posting, Counter
<1>5. ASSUME NEW p \in Purchases, Correct(p)
      PROVE  BooksAgree(p)'
  <2>1. entries[p] \in Seq(Entry) /\ Len(entries[p]) = 1
        /\ entries[p][1].kind = "POSTING" /\ entries[p][1].counter = Counter(p)
    BY <1>0, <1>5, <1>a DEF BooksAgree, Correct, Is
  <2>2. 1 \in 1 .. Len(entries[p])
    BY <2>1
  <2>3. entries[p][1] \in Entry
    BY <2>1, <2>2, ElementOfSeq
  <2> DEFINE mirror == [entries[p][1] EXCEPT !.kind = "CORRECTION"]
  <2>4. mirror \in Entry /\ mirror.kind = "CORRECTION"
        /\ mirror.counter = entries[p][1].counter /\ mirror.lines = entries[p][1].lines
    BY <2>3 DEF Entry
  <2>5. entries'[p] = Append(entries[p], mirror)
    BY <1>5 DEF Correct, TypeOK
  <2> HIDE DEF mirror
  <2>6. Len(entries'[p]) = 2 /\ entries'[p][1] = entries[p][1] /\ entries'[p][2] = mirror
    BY <2>1, <2>4, <2>5
  <2>7. /\ purchase'[p].status = "CORRECTED"
        /\ purchase'[p].payment = purchase[p].payment
        /\ purchase'[p].method = purchase[p].method
    BY <1>5, <1>a DEF Correct, Changed, TypeOK, Purchase
  <2>. QED
    BY <2>1, <2>4, <2>6, <2>7 DEF BooksAgree, Is, Counter
<1>6. ASSUME NEW p \in Purchases, NEW form \in Forms,
             Update(p, form) \/ \E u \in Users : Create(p, u, form)
      PROVE  BooksFollowStatus'
  <2>3. ASSUME Update(p, form)
        PROVE  purchase'[p].status = purchase[p].status /\ Is(p, Editable)
    BY <2>3, <1>a DEF Update, Changed, TypeOK, Purchase
  <2>4. ASSUME NEW u \in Users, Create(p, u, form)
        PROVE  purchase'[p].status = "DRAFT" /\ Is(p, {"ABSENT"})
    BY <2>4 DEF Create, Changed, TypeOK, Absent
  <2>1. purchase'[p].status \notin {"POSTED", "CORRECTED"} /\ ~Is(p, {"POSTED", "CORRECTED"})
    BY <1>6, <2>3, <2>4 DEF Is, Editable
  <2>2. /\ \A q \in Purchases \ {p} : purchase'[q] = purchase[q]
        /\ entries' = entries
    BY <1>6 DEF Update, Create, Changed, TypeOK
  <2>. QED
    BY <1>1, <1>2, <1>3, <2>1, <2>2
<1>7. ASSUME NEW p \in Purchases, Review(p) \/ Reject(p) \/ Cancel(p)
      PROVE  BooksFollowStatus'
  <2>1. purchase'[p].status \notin {"POSTED", "CORRECTED"} /\ ~Is(p, {"POSTED", "CORRECTED"})
    <3>1. \/ Review(p) /\ purchase'[p].status = "READY_FOR_APPROVAL"
          \/ Reject(p) /\ purchase'[p].status = "REJECTED"
          \/ Cancel(p) /\ purchase'[p].status = "CANCELLED_DRAFT"
      BY <1>7, <1>a DEF Review, Reject, Cancel, Changed, TypeOK, Purchase
    <3>. QED
      BY <3>1 DEF Review, Reject, Cancel, Is, Editable
  <2>2. /\ \A q \in Purchases \ {p} : purchase'[q] = purchase[q]
        /\ entries' = entries
    BY <1>7 DEF Review, Reject, Cancel, Changed, TypeOK
  <2>. QED
    BY <1>1, <1>2, <1>3, <2>1, <2>2
<1>8. ASSUME NEW p \in Purchases, Post(p)
      PROVE  BooksFollowStatus'
  <2>1. /\ purchase'[p].status = "POSTED"
        /\ purchase'[p].payment = purchase[p].payment
        /\ purchase'[p].method = purchase[p].method
        /\ ~Is(p, {"POSTED", "CORRECTED"})
    BY <1>8, <1>a DEF Post, Changed, TypeOK, Is, Purchase
  <2>2. /\ \A q \in Purchases \ {p} : purchase'[q] = purchase[q] /\ entries'[q] = entries[q]
        /\ entries'[p] = Append(entries[p], Posting(p))
    BY <1>8 DEF Post, Changed, TypeOK
  <2>. QED
    BY <1>1, <1>2, <1>4, <2>1, <2>2
<1>9. ASSUME NEW p \in Purchases, Correct(p)
      PROVE  BooksFollowStatus'
  <2>1. \A q \in Purchases \ {p} : purchase'[q] = purchase[q] /\ entries'[q] = entries[q]
    BY <1>9 DEF Correct, Changed, TypeOK
  <2>. QED
    BY <1>1, <1>2, <1>5, <1>9, <2>1
<1>10. ASSUME NEW r \in Requests, NEW u \in Users, Approve(r, u)
       PROVE  BooksFollowStatus'
  <2> DEFINE p == request[r].target
  <2>1. p \in Purchases
    BY <1>10 DEF Approve, TargetKnown
  <2>2. \A q \in Purchases \ {p} : purchase'[q] = purchase[q] /\ entries'[q] = entries[q]
    BY <1>10, <2>1 DEF Approve, Changed, TypeOK
  <2>3. ~Is(p, {"POSTED", "CORRECTED"})
    BY <1>10 DEF Approve, MayApprove, Is
  <2>4. CASE request[r].auto
    <3>1. /\ purchase'[p].status = "POSTED"
          /\ purchase'[p].payment = purchase[p].payment
          /\ purchase'[p].method = purchase[p].method
          /\ entries'[p] = Append(entries[p], Posting(p))
      BY <1>10, <1>a, <2>1, <2>4 DEF Approve, Changed, TypeOK, Purchase
    <3>. QED
      BY <1>1, <1>2, <1>4, <2>1, <2>2, <2>3, <3>1
  <2>5. CASE ~request[r].auto
    <3>1. purchase'[p].status = "APPROVED" /\ entries'[p] = entries[p]
      BY <1>10, <1>a, <2>1, <2>5 DEF Approve, Changed, TypeOK, Purchase
    <3>. QED
      BY <1>1, <1>2, <1>3, <2>1, <2>2, <2>3, <3>1
  <2>. QED
    BY <2>4, <2>5
<1>11. ASSUME NEW r \in Requests, CommitClassify(r)
       PROVE  BooksFollowStatus'
  <2> DEFINE p == request[r].target
  <2>1. p \in Purchases
    BY <1>11 DEF CommitClassify, TargetKnown
  <2>2. /\ \A q \in Purchases \ {p} : purchase'[q] = purchase[q]
        /\ entries' = entries
        /\ purchase'[p].status = purchase[p].status
        /\ purchase'[p].payment = purchase[p].payment
        /\ request[r].proposal.method = None => purchase'[p].method = purchase[p].method
    BY <1>11, <1>a, <2>1 DEF CommitClassify, Changed, TypeOK, Purchase
  <2>3. CASE request[r].proposal.method = None
    BY <1>1, <1>2, <2>1, <2>2, <2>3
  <2>4. CASE request[r].proposal.method # None
    <3>1. Is(p, Editable \union {"READY_FOR_APPROVAL"})
      BY <1>11, <2>4 DEF CommitClassify, HeldUnapproved
    <3>2. ~Is(p, {"POSTED", "CORRECTED"})
      BY <3>1 DEF Is, Editable
    <3>. QED
      BY <1>1, <1>2, <1>3, <2>1, <2>2, <3>2 DEF Is
  <2>. QED
    BY <2>3, <2>4
<1>12. ASSUME NEW r \in Requests, NEW scan \in Scans, ApplyOcr(r, scan)
       PROVE  BooksFollowStatus'
  <2> DEFINE p == request[r].target
  <2>1. p \in Purchases
    BY <1>12 DEF ApplyOcr, TargetKnown
  <2>2. /\ \A q \in Purchases \ {p} : purchase'[q] = purchase[q]
        /\ entries' = entries
        /\ purchase'[p].status = purchase[p].status
        /\ Is(p, Editable)
    BY <1>12, <1>a, <2>1 DEF ApplyOcr, Changed, TypeOK, Purchase
  <2>. QED
    BY <1>1, <1>2, <1>3, <2>1, <2>2 DEF Is, Editable
<1>13. ASSUME NEW r \in Requests, NEW u \in Users, NEW p \in Purchases,
              NEW form \in Forms, Import(r, u, p, form)
       PROVE  BooksFollowStatus'
  <2>1. /\ \A q \in Purchases \ {p} : purchase'[q] = purchase[q]
        /\ entries' = entries
        /\ purchase'[p].status = "NEEDS_REVIEW"
        /\ ~Is(p, {"POSTED", "CORRECTED"})
    BY <1>13 DEF Import, Changed, TypeOK, Absent, Is
  <2>. QED
    BY <1>1, <1>2, <1>3, <2>1
<1>14. CASE UNCHANGED <<purchase, entries>>
  BY <1>1, <1>2, <1>14
<1>. QED
  BY <1>6, <1>7, <1>8, <1>9, <1>10, <1>11, <1>12, <1>13, <1>14
  DEF Next, vars, Decide, Configure, Begin, BeginApprove, BeginClassify, BeginOcr,
      BeginImport, Proceed, Classify, LookAgain, Abandon

(***************************************************************************)
(* Duplicates.                                                             *)
(***************************************************************************)

\* A number that is not taken belongs to no other invoice that counts.
LEMMA NotTaken ==
  ASSUME TypeOK, NEW p \in Purchases, NEW supplier, NEW number,
         ~Taken(p, supplier, number), NEW q \in Purchases \ {p}
  PROVE  \/ Is(q, Uncounted) \/ supplier = None \/ number = None
         \/ purchase[q].supplier # supplier \/ purchase[q].number # number
<1>1. purchase[q].status \in Status
  BY DEF TypeOK, Purchase
<1>2. Live(q) \/ Is(q, Uncounted)
  BY <1>1 DEF Live, Is, Uncounted, Status, Editable
<1>. QED
  BY <1>2 DEF Taken

LEMMA CountedStep ==
  ASSUME TypeOK, TargetKnown, CountedOnce, [Next]_vars
  PROVE  CountedOnce'
<1>a. \A p \in Purchases : purchase[p] \in Purchase
  BY DEF TypeOK
<1>1. ASSUME NEW p \in Purchases,
             \A q \in Purchases \ {p} : purchase'[q] = purchase[q],
             \/ purchase'[p].event = None
             \/ purchase'[p].event = purchase[p].event
             \/ ~Known(purchase'[p].event),
             \/ purchase'[p].status \in Uncounted
             \/ ~Taken(p, purchase'[p].supplier, purchase'[p].number)
             \/ /\ ~Is(p, Uncounted)
                /\ purchase'[p].supplier = purchase[p].supplier
                /\ purchase'[p].number = purchase[p].number
      PROVE  CountedOnce'
  <2>1. ASSUME NEW q \in Purchases \ {p}
        PROVE  /\ purchase'[p].event # None => purchase'[p].event # purchase[q].event
               /\ purchase[q].event # None => purchase'[p].event # purchase[q].event
    BY <1>1 DEF CountedOnce, Known
  <2>2. ASSUME NEW q \in Purchases \ {p}
        PROVE  \/ purchase'[p].status \in Uncounted \/ Is(q, Uncounted)
               \/ purchase'[p].supplier = None \/ purchase'[p].number = None
               \/ purchase'[p].supplier # purchase[q].supplier
               \/ purchase'[p].number # purchase[q].number
    BY <1>1, NotTaken DEF CountedOnce
  <2>. QED
    BY <1>1, <2>1, <2>2 DEF CountedOnce, Is
<1>2. ASSUME NEW p \in Purchases, NEW form \in Forms, Update(p, form)
      PROVE  CountedOnce'
  <2>1. /\ purchase'[p].event = purchase[p].event
        /\ ~Taken(p, purchase'[p].supplier, purchase'[p].number)
        /\ \A q \in Purchases \ {p} : purchase'[q] = purchase[q]
    BY <1>2, <1>a DEF Update, Changed, TypeOK, Purchase
  <2>. QED
    BY <1>1, <2>1
<1>3. ASSUME NEW p \in Purchases, NEW form \in Forms, NEW u \in Users, Create(p, u, form)
      PROVE  CountedOnce'
  <2>1. /\ purchase'[p].event = None
        /\ ~Taken(p, purchase'[p].supplier, purchase'[p].number)
        /\ \A q \in Purchases \ {p} : purchase'[q] = purchase[q]
    BY <1>3 DEF Create, Changed, TypeOK, Absent
  <2>. QED
    BY <1>1, <2>1
<1>4. ASSUME NEW p \in Purchases, Decide(p)
      PROVE  CountedOnce'
  <2>1. /\ purchase'[p].event = purchase[p].event
        /\ purchase'[p].supplier = purchase[p].supplier
        /\ purchase'[p].number = purchase[p].number
        /\ \A q \in Purchases \ {p} : purchase'[q] = purchase[q]
    BY <1>4, DecisionKeeps
  <2>2. ~Is(p, Uncounted)
    BY <1>4 DEF Decide, Review, Reject, Cancel, Post, Correct, Is, Editable, Uncounted
  <2>. QED
    BY <1>1, <2>1, <2>2
<1>5. ASSUME NEW r \in Requests, NEW u \in Users, Approve(r, u)
      PROVE  CountedOnce'
  <2> DEFINE p == request[r].target
  <2>1. p \in Purchases
    BY <1>5 DEF Approve, TargetKnown
  <2>2. /\ purchase'[p].event = purchase[p].event
        /\ purchase'[p].supplier = purchase[p].supplier
        /\ purchase'[p].number = purchase[p].number
        /\ \A q \in Purchases \ {p} : purchase'[q] = purchase[q]
    BY <1>5, <1>a, <2>1 DEF Approve, Changed, TypeOK, Purchase
  <2>3. ~Is(p, Uncounted)
    BY <1>5 DEF Approve, MayApprove, Is, Uncounted
  <2>. QED
    BY <1>1, <2>1, <2>2, <2>3
<1>6. ASSUME NEW r \in Requests, CommitClassify(r)
      PROVE  CountedOnce'
  <2> DEFINE p == request[r].target
  <2>1. p \in Purchases
    BY <1>6 DEF CommitClassify, TargetKnown
  <2>2. /\ purchase'[p].event = purchase[p].event
        /\ purchase'[p].supplier = purchase[p].supplier
        /\ purchase'[p].number = purchase[p].number
        /\ purchase'[p].status = purchase[p].status
        /\ \A q \in Purchases \ {p} : purchase'[q] = purchase[q]
    BY <1>6, <1>a, <2>1 DEF CommitClassify, Changed, TypeOK, Purchase
  <2>. QED
    BY <1>1, <2>1, <2>2 DEF Is
<1>7. ASSUME NEW r \in Requests, NEW scan \in Scans, ApplyOcr(r, scan)
      PROVE  CountedOnce'
  <2> DEFINE p == request[r].target
  <2>1. p \in Purchases
    BY <1>7 DEF ApplyOcr, TargetKnown
  <2>2. /\ purchase'[p].event = purchase[p].event
        /\ purchase'[p].number = purchase[p].number
        /\ ~Taken(p, purchase'[p].supplier, purchase'[p].number)
        /\ \A q \in Purchases \ {p} : purchase'[q] = purchase[q]
    BY <1>7, <1>a, <2>1 DEF ApplyOcr, Changed, TypeOK, Purchase
  <2>. QED
    BY <1>1, <2>1, <2>2
<1>8. ASSUME NEW r \in Requests, NEW u \in Users, NEW p \in Purchases,
             NEW form \in Forms, Import(r, u, p, form)
      PROVE  CountedOnce'
  <2>1. /\ ~Known(purchase'[p].event)
        /\ ~Taken(p, purchase'[p].supplier, purchase'[p].number)
        /\ \A q \in Purchases \ {p} : purchase'[q] = purchase[q]
    BY <1>8 DEF Import, Changed, TypeOK, Absent
  <2>. QED
    BY <1>1, <2>1
<1>9. CASE UNCHANGED purchase
  BY <1>9 DEF CountedOnce, Is
<1>. QED
  BY <1>2, <1>3, <1>4, <1>5, <1>6, <1>7, <1>8, <1>9
  DEF Next, vars, Configure, Begin, BeginApprove, BeginClassify, BeginOcr,
      BeginImport, Proceed, Classify, LookAgain, Abandon

(***************************************************************************)
(* Approval by another person.                                             *)
(***************************************************************************)

\* While the rule was never off, no approval under way has read it as off.
RuleKept ==
  ~relaxed => /\ settings.separate
              /\ \A r \in Requests : request[r].step = "approve" => request[r].separate

LEMMA RuleStep ==
  ASSUME TypeOK, RuleKept, [Next]_vars
  PROVE  RuleKept'
<1> USE DEF RuleKept
<1>1. CASE UNCHANGED <<settings, request, relaxed>>
  BY <1>1
<1>2. ASSUME NEW new \in Settings, Configure(new)
      PROVE  RuleKept'
  BY <1>2 DEF Configure, TypeOK
<1>3. ASSUME NEW r \in Requests, UNCHANGED <<settings, relaxed>>,
             \A s \in Requests \ {r} : request'[s] = request[s],
             request'[r].step # "approve" \/ request'[r].separate = settings.separate
      PROVE  RuleKept'
  BY <1>3
<1>4. ASSUME NEW r \in Requests, Moved(r, Idle), UNCHANGED <<settings, relaxed>>
      PROVE  RuleKept'
  BY <1>3, <1>4 DEF Moved, Idle, TypeOK
<1>5. ASSUME NEW r \in Requests, Begin(r)
      PROVE  RuleKept'
  <2>1. ASSUME NEW p \in Purchases, BeginApprove(r, p)
        PROVE  RuleKept'
    BY <1>3, <2>1 DEF BeginApprove, Moved, Idle, TypeOK
  <2>2. ASSUME NEW p \in Purchases, BeginClassify(r, p) \/ BeginOcr(r, p)
        PROVE  RuleKept'
    BY <1>3, <2>2 DEF BeginClassify, BeginOcr, Moved, Idle, TypeOK
  <2>3. ASSUME NEW event \in Events, BeginImport(r, event)
        PROVE  RuleKept'
    BY <1>3, <2>3 DEF BeginImport, Moved, Idle, TypeOK
  <2>. QED
    BY <1>5, <2>1, <2>2, <2>3 DEF Begin
<1>6. ASSUME NEW r \in Requests, Proceed(r) \/ Abandon(r)
      PROVE  RuleKept'
  <2>1. request[r] \in Request
    BY DEF TypeOK
  <2>2. ASSUME NEW proposal \in Proposals, Classify(r, proposal)
        PROVE  RuleKept'
    BY <1>3, <2>1, <2>2 DEF Classify, Moved, TypeOK, Request
  <2>3. ASSUME LookAgain(r)
        PROVE  RuleKept'
    BY <1>3, <2>1, <2>3 DEF LookAgain, Moved, TypeOK, Request
  <2>4. ASSUME NEW u \in Users, Approve(r, u)
        PROVE  RuleKept'
    BY <1>4, <2>4 DEF Approve
  <2>5. ASSUME NEW scan \in Scans, ApplyOcr(r, scan)
        PROVE  RuleKept'
    BY <1>4, <2>5 DEF ApplyOcr
  <2>6. ASSUME NEW u \in Users, NEW p \in Purchases, NEW form \in Forms, Import(r, u, p, form)
        PROVE  RuleKept'
    BY <1>4, <2>6 DEF Import
  <2>7. CASE CommitClassify(r) \/ Abandon(r)
    BY <1>4, <2>7 DEF CommitClassify, Abandon
  <2>. QED
    BY <1>6, <2>2, <2>3, <2>4, <2>5, <2>6, <2>7 DEF Proceed
<1>. QED
  BY <1>1, <1>2, <1>5, <1>6
  DEF Next, vars, Update, Create, Decide, Review, Reject, Cancel, Post, Correct

LEMMA FourEyesStep ==
  ASSUME TypeOK, TargetKnown, RuleKept, FourEyes, [Next]_vars
  PROVE  FourEyes'
<1>a. \A p \in Purchases : purchase[p] \in Purchase
  BY DEF TypeOK
<1>1. ASSUME NEW p \in Purchases, UNCHANGED relaxed,
             \A q \in Purchases \ {p} : purchase'[q] = purchase[q],
             \/ purchase'[p].status \notin Approved
             \/ ~relaxed => purchase'[p].approver # purchase'[p].creator
             \/ /\ Is(p, Approved)
                /\ purchase'[p].approver = purchase[p].approver
                /\ purchase'[p].creator = purchase[p].creator
      PROVE  FourEyes'
  BY <1>1 DEF FourEyes, Is
<1>2. ASSUME NEW p \in Purchases, NEW form \in Forms, Update(p, form)
      PROVE  FourEyes'
  <2>1. /\ purchase'[p].status = purchase[p].status /\ Is(p, Editable)
        /\ \A q \in Purchases \ {p} : purchase'[q] = purchase[q]
        /\ UNCHANGED relaxed
    BY <1>2, <1>a DEF Update, Changed, TypeOK, Purchase
  <2>. QED
    BY <1>1, <2>1 DEF Is, Editable, Approved
<1>3. ASSUME NEW p \in Purchases, NEW form \in Forms, NEW u \in Users, Create(p, u, form)
      PROVE  FourEyes'
  <2>1. /\ purchase'[p].status = "DRAFT"
        /\ \A q \in Purchases \ {p} : purchase'[q] = purchase[q]
        /\ UNCHANGED relaxed
    BY <1>3 DEF Create, Changed, TypeOK, Absent
  <2>. QED
    BY <1>1, <2>1 DEF Approved
<1>4. ASSUME NEW p \in Purchases, Decide(p)
      PROVE  FourEyes'
  <2>1. /\ purchase'[p].approver = purchase[p].approver
        /\ purchase'[p].creator = purchase[p].creator
        /\ \A q \in Purchases \ {p} : purchase'[q] = purchase[q]
        /\ UNCHANGED relaxed
    BY <1>4, DecisionKeeps
  <2>2. Review(p) \/ Reject(p) \/ Cancel(p) => purchase'[p].status \notin Approved
    <3>1. Review(p) => purchase'[p].status \notin Approved
      BY <1>a DEF Review, Changed, TypeOK, Purchase, Approved
    <3>2. Reject(p) => purchase'[p].status \notin Approved
      BY <1>a DEF Reject, Changed, TypeOK, Purchase, Approved
    <3>3. Cancel(p) => purchase'[p].status \notin Approved
      BY <1>a DEF Cancel, Changed, TypeOK, Purchase, Approved
    <3>. QED
      BY <3>1, <3>2, <3>3
  <2>3. Post(p) \/ Correct(p) => Is(p, Approved)
    BY DEF Post, Correct, Is, Approved
  <2>. QED
    BY <1>1, <1>4, <2>1, <2>2, <2>3 DEF Decide
<1>5. ASSUME NEW r \in Requests, NEW u \in Users, Approve(r, u)
      PROVE  FourEyes'
  <2> DEFINE p == request[r].target
  <2>1. p \in Purchases
    BY <1>5 DEF Approve, TargetKnown
  <2>2. /\ purchase'[p].approver = u
        /\ purchase'[p].creator = purchase[p].creator
        /\ \A q \in Purchases \ {p} : purchase'[q] = purchase[q]
        /\ UNCHANGED relaxed
    BY <1>5, <1>a, <2>1 DEF Approve, Changed, TypeOK, Purchase
  <2>3. ~relaxed => purchase[p].creator # u
    BY <1>5 DEF Approve, MayApprove, RuleKept
  <2>. QED
    BY <1>1, <2>1, <2>2, <2>3
<1>6. ASSUME NEW r \in Requests, CommitClassify(r)
      PROVE  FourEyes'
  <2> DEFINE p == request[r].target
  <2>1. p \in Purchases
    BY <1>6 DEF CommitClassify, TargetKnown
  <2>2. /\ purchase'[p].approver = purchase[p].approver
        /\ purchase'[p].creator = purchase[p].creator
        /\ purchase'[p].status = purchase[p].status
        /\ \A q \in Purchases \ {p} : purchase'[q] = purchase[q]
        /\ UNCHANGED relaxed
    BY <1>6, <1>a, <2>1 DEF CommitClassify, Changed, TypeOK, Purchase
  <2>. QED
    BY <1>1, <2>1, <2>2 DEF Is
<1>7. ASSUME NEW r \in Requests, NEW scan \in Scans, ApplyOcr(r, scan)
      PROVE  FourEyes'
  <2> DEFINE p == request[r].target
  <2>1. p \in Purchases
    BY <1>7 DEF ApplyOcr, TargetKnown
  <2>2. /\ purchase'[p].status = purchase[p].status /\ Is(p, Editable)
        /\ \A q \in Purchases \ {p} : purchase'[q] = purchase[q]
        /\ UNCHANGED relaxed
    BY <1>7, <1>a, <2>1 DEF ApplyOcr, Changed, TypeOK, Purchase
  <2>. QED
    BY <1>1, <2>1, <2>2 DEF Is, Editable, Approved
<1>8. ASSUME NEW r \in Requests, NEW u \in Users, NEW p \in Purchases,
             NEW form \in Forms, Import(r, u, p, form)
      PROVE  FourEyes'
  <2>1. /\ purchase'[p].status = "NEEDS_REVIEW"
        /\ \A q \in Purchases \ {p} : purchase'[q] = purchase[q]
        /\ UNCHANGED relaxed
    BY <1>8 DEF Import, Changed, TypeOK, Absent
  <2>. QED
    BY <1>1, <2>1 DEF Approved
<1>9. CASE UNCHANGED <<purchase, relaxed>>
  BY <1>9 DEF FourEyes, Is
<1>10. ASSUME NEW new \in Settings, Configure(new)
       PROVE  FourEyes'
  <2>1. relaxed => relaxed'
    BY <1>10 DEF Configure
  <2>. QED
    BY <1>10, <2>1 DEF Configure, FourEyes, Is
<1>. QED
  BY <1>2, <1>3, <1>4, <1>5, <1>6, <1>7, <1>8, <1>9, <1>10
  DEF Next, vars, Begin, BeginApprove, BeginClassify, BeginOcr,
      BeginImport, Proceed, Classify, LookAgain, Abandon

(***************************************************************************)
(* Immutability.                                                           *)
(***************************************************************************)

LEMMA FrozenStep ==
  ASSUME TypeOK, TargetKnown, HeldUnapproved, [Next]_vars,
         NEW p \in Purchases, Is(p, Approved \union {"READY_FOR_APPROVAL"})
  PROVE  StaysFrozen(p)
<1>a. purchase[p] \in Purchase
  BY DEF TypeOK
<1>0. purchase[p].status \in {"READY_FOR_APPROVAL", "APPROVED", "POSTED", "CORRECTED"}
  BY DEF Is, Approved
<1>1. CASE purchase'[p] = purchase[p]
  BY <1>1 DEF StaysFrozen, Is
<1>2. ASSUME NEW q \in Purchases, NEW form \in Forms,
             Update(q, form) \/ \E u \in Users : Create(q, u, form)
      PROVE  StaysFrozen(p)
  <2>1. q # p
    BY <1>0, <1>2 DEF Update, Create, Is, Editable
  <2>. QED
    BY <1>1, <1>2, <2>1 DEF Update, Create, Changed, TypeOK
<1>3. ASSUME \A field \in {"creator", "event", "named", "supplier", "number",
                           "payment", "method", "lines"} :
               purchase'[p][field] = purchase[p][field],
             Is(p, Approved) => /\ purchase'[p].approver = purchase[p].approver
                                /\ purchase'[p].status \in Approved
      PROVE  StaysFrozen(p)
  BY <1>3 DEF StaysFrozen
<1>4. ASSUME NEW q \in Purchases, Decide(q)
      PROVE  StaysFrozen(p)
  <2>1. CASE q # p
    BY <1>1, <1>4, <2>1
    DEF Decide, Review, Reject, Cancel, Post, Correct, Changed, TypeOK
  <2>2. CASE q = p
    <3>1. ~Review(p) /\ ~Cancel(p)
      BY <1>0 DEF Review, Cancel, Is, Editable
    <3>2. Reject(p) => ~Is(p, Approved)
      BY DEF Reject, Is, Approved
    <3>3. Reject(p) \/ Post(p) \/ Correct(p)
      BY <1>4, <2>2, <3>1 DEF Decide
    <3>. QED
      BY <1>3, <1>a, <3>2, <3>3 DEF Reject, Post, Correct, Changed, TypeOK, Purchase, Approved
  <2>. QED
    BY <2>1, <2>2
<1>5. ASSUME NEW r \in Requests, NEW u \in Users, Approve(r, u)
      PROVE  StaysFrozen(p)
  <2>1. CASE request[r].target # p
    BY <1>1, <1>5, <2>1 DEF Approve, Changed, TypeOK
  <2>2. CASE request[r].target = p
    <3>1. ~Is(p, Approved)
      BY <1>5, <2>2 DEF Approve, MayApprove, Is, Approved
    <3>. QED
      BY <1>3, <1>5, <1>a, <2>2, <3>1 DEF Approve, Changed, TypeOK, Purchase
  <2>. QED
    BY <2>1, <2>2
<1>6. ASSUME NEW r \in Requests, CommitClassify(r)
      PROVE  StaysFrozen(p)
  <2>1. CASE request[r].target # p
    BY <1>1, <1>6, <2>1 DEF CommitClassify, Changed, TypeOK
  <2>2. CASE request[r].target = p
    <3>1. Written(p)
      BY <1>6, <2>2 DEF Written, CommitClassify
    <3>2. /\ \A field \in {"creator", "event", "named", "supplier", "number",
                           "payment", "approver", "status"} :
               purchase'[p][field] = purchase[p][field]
          /\ request[r].proposal.method = None => purchase'[p].method = purchase[p].method
      BY <1>6, <1>a, <2>2 DEF CommitClassify, Changed, TypeOK, Purchase
    <3>3. request[r].proposal.method # None => Is(p, {"READY_FOR_APPROVAL"})
      BY <1>0, <1>6, <2>2 DEF CommitClassify, HeldUnapproved, Is, Editable
    <3>. QED
      BY <3>1, <3>2, <3>3 DEF StaysFrozen, Is
  <2>. QED
    BY <2>1, <2>2
<1>7. ASSUME NEW r \in Requests, NEW scan \in Scans, ApplyOcr(r, scan)
      PROVE  StaysFrozen(p)
  <2>1. request[r].target # p
    BY <1>0, <1>7 DEF ApplyOcr, Is, Editable
  <2>. QED
    BY <1>1, <1>7, <2>1 DEF ApplyOcr, Changed, TypeOK
<1>8. ASSUME NEW r \in Requests, NEW u \in Users, NEW q \in Purchases,
             NEW form \in Forms, Import(r, u, q, form)
      PROVE  StaysFrozen(p)
  <2>1. q # p
    BY <1>0, <1>8 DEF Import, Is
  <2>. QED
    BY <1>1, <1>8, <2>1 DEF Import, Changed, TypeOK
<1>9. CASE UNCHANGED purchase
  BY <1>1, <1>9
<1>. QED
  BY <1>2, <1>4, <1>5, <1>6, <1>7, <1>8, <1>9
  DEF Next, vars, Configure, Begin, BeginApprove, BeginClassify, BeginOcr,
      BeginImport, Proceed, Classify, LookAgain, Abandon

(***************************************************************************)
(* The theorems.  What is proved is one inductive invariant: that a        *)
(* correction finds an entry to mirror, that the books follow the method   *)
(* a classification may change, and that nothing frozen moves all rest on  *)
(* the row lock a classification holds (HeldUnapproved).                   *)
(***************************************************************************)

PurchasesInv ==
  /\ TypeOK /\ TargetKnown /\ HeldUnapproved
  /\ BooksFollowStatus /\ CountedOnce /\ RuleKept /\ FourEyes

\* The strengthening of the invariants below holds at every moment, whatever
\* requests are under way.
THEOREM PurchasesInvariant == Spec => []PurchasesInv
<1>1. Init => PurchasesInv
  <2> SUFFICES ASSUME Init PROVE PurchasesInv
    OBVIOUS
  <2>1. \A p \in Purchases : Is(p, {"ABSENT"}) /\ entries[p] = <<>>
    BY DEF Init, Is, Absent
  <2>2. BooksFollowStatus
    <3>1. ASSUME NEW p \in Purchases
          PROVE  ~Is(p, {"POSTED", "CORRECTED"}) /\ ~Is(p, {"CORRECTED"})
      BY <2>1 DEF Is
    <3>2. Len(<<>>) = 0
      OBVIOUS
    <3>. QED
      BY <2>1, <3>1, <3>2 DEF BooksFollowStatus
  <2>3. CountedOnce
    BY DEF Init, CountedOnce, Absent, Is, Uncounted
  <2>4. RuleKept
    BY DEF Init, RuleKept, Idle
  <2>5. FourEyes
    BY <2>1 DEF FourEyes, Is, Approved
  <2>. QED
    BY TypeInit, <2>2, <2>3, <2>4, <2>5 DEF PurchasesInv
<1>2. PurchasesInv /\ [Next]_vars => PurchasesInv'
  BY TypeStep, TargetStep, HeldStep, BooksStep, CountedStep, RuleStep, FourEyesStep
  DEF PurchasesInv
<1>. QED
  BY <1>1, <1>2, PTL DEF Spec

\* The tables and the requests under way always have their shape.
THEOREM PurchasesTypeCorrect == Spec => []TypeOK
<1>1. PurchasesInv => TypeOK
  BY DEF PurchasesInv
<1>. QED
  BY <1>1, PurchasesInvariant, PTL

\* A posted invoice has one entry and a corrected one its mirror as well, and
\* they credit the account the invoice stands for.
THEOREM PurchasesBooks == Spec => []BooksFollowStatus
<1>1. PurchasesInv => BooksFollowStatus
  BY DEF PurchasesInv
<1>. QED
  BY <1>1, PurchasesInvariant, PTL

\* No invoice that counts has the supplier and number of another, and no event
\* is imported twice.
THEOREM PurchasesCountedOnce == Spec => []CountedOnce
<1>1. PurchasesInv => CountedOnce
  BY DEF PurchasesInv
<1>. QED
  BY <1>1, PurchasesInvariant, PTL

\* As long as the rule was never off, nobody approved an invoice of his own.
THEOREM PurchasesFourEyes == Spec => []FourEyes
<1>1. PurchasesInv => FourEyes
  BY DEF PurchasesInv
<1>. QED
  BY <1>1, PurchasesInvariant, PTL

\* A reviewed invoice changes only by what a classification had written.
THEOREM PurchasesFrozen == Spec => ReviewedIsFrozen
<1> DEFINE Frozen == \A p \in Purchases : Is(p, Approved \union {"READY_FOR_APPROVAL"})
                                            => StaysFrozen(p)
<1>1. PurchasesInv /\ [Next]_vars => [Frozen]_vars
  BY FrozenStep DEF PurchasesInv
<1>2. [][Frozen]_vars <=> ReviewedIsFrozen
  BY DEF ReviewedIsFrozen
<1>. QED
  BY <1>1, <1>2, PurchasesInvariant, PTL DEF Spec

-----------------------------------------------------------------------------
(***************************************************************************)
(* Rounding.                                                               *)
(***************************************************************************)

\* Division with rest.
LEMMA Divided ==
  ASSUME NEW a \in Nat, NEW b \in Nat, b > 0
  PROVE  a \div b \in Nat /\ (a % b) \in 0 .. (b - 1) /\ a = b * (a \div b) + (a % b)
<1>1. a \div b \in Int /\ a \div b >= 0
  OBVIOUS
<1>2. (a % b) \in 0 .. (b - 1)
  OBVIOUS
<1>3. a = b * (a \div b) + (a % b)
  OBVIOUS
<1>. QED
  BY <1>1, <1>2, <1>3

\* Rounding keeps naturals.
LEMMA RoundedNat ==
  ASSUME NEW n \in Nat, NEW d \in Nat \ {0}
  PROVE  Rounded(n, d) \in Nat
  BY DEF Rounded

\* Rounding keeps integers.
LEMMA RoundedInt ==
  ASSUME NEW n \in Int, NEW d \in Nat \ {0}
  PROVE  Rounded(n, d) \in Int
  BY DEF Rounded

\* A percentage takes at most everything.
LEMMA PercentOf ==
  ASSUME NEW n \in Nat, NEW p \in 0 .. 100
  PROVE  Rounded(n * p, 100) \in 0 .. n
<1>1. n * p \in Nat /\ n * p <= 100 * n
  OBVIOUS
<1>2. \A m \in Nat : m <= 100 * n => (2 * m + 100) \div 200 \in 0 .. n
  OBVIOUS
<1>. QED
  BY <1>1, <1>2 DEF Rounded

\* A line's net is not negative: its discount is at most what it costs.
LEMMA LineNetNat ==
  ASSUME NEW line \in InputLine
  PROVE  LineNet(line) \in Nat
<1> DEFINE base == Rounded(line.quantity * line.price, 1000)
<1>1. line.quantity \in Nat /\ line.price \in Nat /\ line.percent \in 0 .. 100
  BY DEF InputLine
<1>2. base \in Nat
  BY <1>1, RoundedNat
<1>3. Rounded(base * line.percent, 100) \in 0 .. base
  <2>. HIDE DEF base
  <2>. QED  BY <1>1, <1>2, PercentOf
<1>. QED
  BY <1>2, <1>3 DEF LineNet

\* Where everything is before or behind everything else, n come first for every n.
LEMMA Ranked ==
  ASSUME NEW S, IsFiniteSet(S), NEW before, \A x \in S : before[x] \in SUBSET S,
         \A x \in S : x \notin before[x],
         \A x, y \in S : x \in before[y] => before[x] \subseteq before[y],
         \A x, y \in S : x # y => x \in before[y] \/ y \in before[x],
         NEW n \in Nat, n <= Cardinality(S)
  PROVE  Cardinality({x \in S : Cardinality(before[x]) < n}) = n
<1> DEFINE size == Cardinality(S)
           rank == [x \in S |-> Cardinality(before[x])]
           T == {x \in S : Cardinality(before[x]) < n}
<1>1. size \in Nat /\ \A U \in SUBSET S : IsFiniteSet(U) /\ Cardinality(U) \in Nat
  BY FS_CardinalityType, FS_Subset
<1>2. ASSUME NEW U \in SUBSET S, NEW V \in SUBSET S, U \subseteq V, U # V
      PROVE  Cardinality(U) < Cardinality(V)
  BY <1>1, <1>2, FS_Subset
<1>3. \A x \in S : rank[x] \in 0 .. (size - 1)
  <2> TAKE x \in S
  <2>1. before[x] # S
    OBVIOUS
  <2>2. Cardinality(before[x]) < Cardinality(S)
    BY <2>1, <1>2
  <2>. QED
    BY <1>1, <2>2
<1>4. \A x, y \in S : rank[x] = rank[y] => x = y
  <2>1. ASSUME NEW x \in S, NEW y \in S, x \in before[y]
        PROVE  rank[x] # rank[y]
    <3>1. Cardinality(before[x]) < Cardinality(before[y])
      BY <1>2, <2>1
    <3>2. Cardinality(before[x]) \in Nat /\ Cardinality(before[y]) \in Nat
      BY <1>1
    <3>. QED
      BY <3>1, <3>2
  <2>. HIDE DEF rank
  <2>. QED
    BY <2>1
<1>5. IsFiniteSet(0 .. (size - 1)) /\ Cardinality(0 .. (size - 1)) = size
  <2>. HIDE DEF size
  <2>1. size \in Nat
    BY <1>1
  <2>2. Cardinality(0 .. (size - 1)) = size
    BY <2>1, FS_Interval
  <2>3. IsFiniteSet(0 .. (size - 1))
    BY <2>1, FS_Interval
  <2>. QED
    BY <2>2, <2>3
<1>6. rank \in Surjection(S, 0 .. (size - 1))
  <2>1. rank \in Injection(S, 0 .. (size - 1))
    BY <1>3, <1>4 DEF Injection, IsInjective
  <2>. HIDE DEF rank
  <2>. QED  BY <2>1, <1>5, FS_Injection
<1>7. [x \in T |-> rank[x]] \in Bijection(T, 0 .. (n - 1))
  <2> DEFINE g == [x \in T |-> rank[x]]
  <2>1. g \in [T -> 0 .. (n - 1)]
    BY <1>1
  <2>2. \A x, y \in T : g[x] = g[y] => x = y
    BY <1>4
  <2>3. \A k \in 0 .. (n - 1) : \E x \in T : g[x] = k
    <3> TAKE k \in 0 .. (n - 1)
    <3>1. k \in 0 .. (size - 1)
      BY <1>1
    <3>2. PICK x \in S : rank[x] = k
      BY <3>1, <1>6 DEF Surjection
    <3>. QED
      BY <3>2
  <2>4. DOMAIN g = T
    OBVIOUS
  <2>. HIDE DEF g, T
  <2>5. g \in Injection(T, 0 .. (n - 1))
    BY <2>1, <2>2, <2>4 DEF Injection, IsInjective
  <2>6. g \in Surjection(T, 0 .. (n - 1))
    BY <2>1, <2>3 DEF Surjection
  <2>7. g \in Bijection(T, 0 .. (n - 1))
    BY <2>5, <2>6 DEF Bijection
  <2>. QED
    BY <2>7 DEF g
<1>8. IsFiniteSet(T) /\ Cardinality(0 .. (n - 1)) = Cardinality(T)
  <2>1. ExistsBijection(T, 0 .. (n - 1))
    BY <1>7 DEF ExistsBijection
  <2>2. IsFiniteSet(T)
    BY FS_Subset
  <2>. HIDE DEF T
  <2>. QED  BY <2>1, <2>2, FS_Bijection
<1>9. Cardinality(0 .. (n - 1)) = n
  BY FS_Interval
<1>. QED
  BY <1>8, <1>9

(***************************************************************************)
(* The largest remainder: what is left over is handed out, a cent each.    *)
(***************************************************************************)

\* What Shares computes with, for discounts of d on the given nets.
Whole(nets) == 10 * NetSum(nets)
Down(nets, d) == [i \in DOMAIN nets |-> (nets[i] * d) \div Whole(nets)]
Fraction(nets, d) == [i \in DOMAIN nets |-> (nets[i] * d) % Whole(nets)]
CentsLeft(nets, d) == (d - 10 * NetSum(Down(nets, d))) \div 10
Ahead(nets, d) ==
  [i \in DOMAIN nets |-> {j \in DOMAIN nets :
     \/ Fraction(nets, d)[j] > Fraction(nets, d)[i]
     \/ Fraction(nets, d)[j] = Fraction(nets, d)[i] /\ j < i}]

\* Lines and a discount that may be shared over them.
Shared(D, nets, d) ==
  /\ D \subseteq Nat /\ IsFiniteSet(D)
  /\ nets \in [D -> Nat] /\ d \in Nat /\ NetSum(nets) > 0

\* Shares, with what it is made of named.
LEMMA SharesIs ==
  ASSUME NEW nets, NEW d
  PROVE  Shares(nets, d) =
           [i \in DOMAIN nets |-> Down(nets, d)[i]
              + (IF Cardinality(Ahead(nets, d)[i]) < CentsLeft(nets, d) THEN 1 ELSE 0)]
  BY DEF Shares, Down, Fraction, CentsLeft, Ahead, Whole

\* Every share is exact but for a fraction.
LEMMA DownFacts ==
  ASSUME NEW D, NEW nets, NEW d, Shared(D, nets, d)
  PROVE  /\ NetSum(nets) \in Nat /\ NetSum(nets) > 0 /\ Whole(nets) \in Nat /\ Whole(nets) = 10 * NetSum(nets)
         /\ \A i \in D :
              /\ Down(nets, d)[i] \in Nat
              /\ Fraction(nets, d)[i] \in 0 .. (Whole(nets) - 1)
              /\ nets[i] * d = Whole(nets) * Down(nets, d)[i] + Fraction(nets, d)[i]
<1>1. IsFiniteSet(D) /\ DOMAIN nets = D /\ nets \in [D -> Nat] /\ d \in Nat /\ NetSum(nets) > 0
  BY DEF Shared
<1>2. NetSum(nets) \in Nat
  BY <1>1, SumNat DEF NetSum, SumFunction
<1>3. Whole(nets) \in Nat /\ Whole(nets) > 0 /\ Whole(nets) = 10 * NetSum(nets)
  BY <1>1, <1>2 DEF Whole
<1>4. ASSUME NEW i \in D
      PROVE  /\ Down(nets, d)[i] \in Nat
             /\ Fraction(nets, d)[i] \in 0 .. (Whole(nets) - 1)
             /\ nets[i] * d = Whole(nets) * Down(nets, d)[i] + Fraction(nets, d)[i]
  <2> DEFINE a == nets[i] * d
             w == Whole(nets)
  <2>1. a \in Nat /\ w \in Nat /\ w > 0
    BY <1>1, <1>3
  <2>2. a \div w \in Nat /\ (a % w) \in 0 .. (w - 1) /\ a = w * (a \div w) + (a % w)
    <3>. HIDE DEF a, w
    <3>. QED  BY <2>1, Divided
  <2>3. Down(nets, d)[i] = a \div w /\ Fraction(nets, d)[i] = a % w
    BY <1>1 DEF Down, Fraction
  <2>. HIDE DEF w
  <2>. QED
    BY <2>2, <2>3 DEF w
<1>. QED
  BY <1>1, <1>2, <1>3, <1>4

\* The whole cents that are left are no more than the lines with a fraction.
LEMMA LeftFacts ==
  ASSUME NEW D, NEW nets, NEW d, Shared(D, nets, d)
  PROVE  /\ NetSum(Down(nets, d)) \in Nat
         /\ CentsLeft(nets, d) \in Nat
         /\ CentsLeft(nets, d) + NetSum(Down(nets, d)) = d \div 10
         /\ CentsLeft(nets, d) <= Cardinality({i \in D : Fraction(nets, d)[i] > 0})
<1> DEFINE N == NetSum(nets)
           W == Whole(nets)
           down == Down(nets, d)
           f == Fraction(nets, d)
           S == NetSum(down)
           F == SumFunctionOnSet(f, D)
           L == CentsLeft(nets, d)
           P == {i \in D : f[i] > 0}
           part == [i \in D |-> nets[i] * d]
           wdown == [i \in D |-> W * down[i]]
           mark == [i \in D |-> IF i \in P THEN 1 ELSE 0]
           wmark == [i \in D |-> W * mark[i]]
<1>1. IsFiniteSet(D) /\ DOMAIN nets = D /\ DOMAIN down = D
      /\ nets \in [D -> Nat] /\ d \in Nat
  BY DEF Down, Shared
<1>2. /\ N \in Nat /\ W \in Nat /\ W = 10 * N /\ N > 0
      /\ \A i \in D : /\ down[i] \in Nat /\ f[i] \in 0 .. (W - 1)
                           /\ nets[i] * d = W * down[i] + f[i]
  <2>. HIDE DEF N, W, down, f
  <2>. QED  BY DownFacts DEF N, W, down, f
<1>3. N = SumFunctionOnSet(nets, D) /\ S = SumFunctionOnSet(down, D)
  BY <1>1 DEF NetSum, SumFunction
<1>4. S \in Nat /\ F \in Nat
  <2>1. \A i \in D : down[i] \in Nat /\ f[i] \in Nat
    BY <1>2
  <2>. HIDE DEF down, f, S
  <2>. QED  BY <1>1, <1>3, <2>1, SumNat
<1>5. N * d = W * S + F
  <2>1. d \in Int /\ \A i \in D : nets[i] \in Int /\ part[i] = d * nets[i]
    BY <1>1
  <2>2. SumFunctionOnSet(part, D) = d * SumFunctionOnSet(nets, D)
    <3>1. IsFiniteSet(D)
      BY <1>1
    <3>. HIDE DEF part
    <3>. QED  BY <2>1, <3>1, SumTimes
  <2>3. \A i \in D : /\ down[i] \in Int /\ f[i] \in Int /\ W * down[i] \in Int
                          /\ wdown[i] \in Int /\ wdown[i] = W * down[i]
                          /\ part[i] = wdown[i] + f[i]
    <3>. HIDE DEF W, down, f, N
    <3>1. \A a \in Nat : W * a \in Int
      BY <1>2
    <3>2. \A i \in D : part[i] = nets[i] * d /\ wdown[i] = W * down[i]
      OBVIOUS
    <3>3. \A i \in D : down[i] \in Int /\ f[i] \in Int /\ W * down[i] \in Int
      BY <1>2, <3>1
    <3>. HIDE DEF part, wdown
    <3>. QED  BY <1>2, <3>2, <3>3
  <2>4. SumFunctionOnSet(wdown, D) = W * SumFunctionOnSet(down, D)
    <3>1. IsFiniteSet(D) /\ W \in Int
          /\ \A i \in D : down[i] \in Int /\ wdown[i] = W * down[i]
      <4>. HIDE DEF wdown, down, W, N
      <4>. QED  BY <1>1, <1>2, <2>3
    <3>. HIDE DEF wdown, down, W, N
    <3>. QED  BY <3>1, SumTimes
  <2>5. SumFunctionOnSet(part, D) =
          SumFunctionOnSet(wdown, D) + SumFunctionOnSet(f, D)
    <3>. HIDE DEF wdown, part, f, down, W
    <3>1. IsFiniteSet(D)
      BY <1>1
    <3>. QED  BY <2>3, <3>1, SumPlus
  <2>6. N * d = d * N
    <3>. HIDE DEF N
    <3>. QED  BY <1>1, <1>2
  <2>. HIDE DEF W, down, f, N, S, part, wdown
  <2>. QED
    BY <1>3, <2>2, <2>4, <2>5, <2>6 DEF F
<1>6. L = (d - 10 * S) \div 10
  BY DEF CentsLeft
<1>7. N * (d - 10 * S) = F
  <2>. HIDE DEF W, N, S, F
  <2>1. W * S = 10 * (N * S)
    BY <1>2, <1>4
  <2>2. N * (d - 10 * S) = N * d - 10 * (N * S)
    BY <1>1, <1>2, <1>4
  <2>. QED
    BY <1>1, <1>2, <1>4, <1>5, <2>1, <2>2
<1>8. d - 10 * S \in Nat
  <2>. HIDE DEF W, N, S, F
  <2>1. ASSUME NEW r \in Int, N * r >= 0 PROVE r >= 0
    BY <1>2, <2>1
  <2>. QED
    BY <1>1, <1>4, <1>7, <2>1
<1>9. L \in Nat /\ 10 * L <= d - 10 * S /\ L + S = d \div 10
  <2>. HIDE DEF S, L
  <2>. QED  BY <1>1, <1>4, <1>6, <1>8
<1>10. F <= W * Cardinality(P)
  <2>1. P \in SUBSET (D)
    OBVIOUS
  <2>2. SumFunctionOnSet(mark, D) = Cardinality(P)
    <3>1. \A i \in D : mark[i] = IF i \in P THEN 1 ELSE 0
      OBVIOUS
    <3>. HIDE DEF mark, P
    <3>. QED  BY <1>1, <2>1, <3>1, SumMarked
  <2>3. \A i \in D : mark[i] \in Int /\ wmark[i] = W * mark[i]
    OBVIOUS
  <2>4. SumFunctionOnSet(wmark, D) = W * SumFunctionOnSet(mark, D)
    <3>1. W \in Int /\ IsFiniteSet(D)
      BY <1>1, <1>2
    <3>. HIDE DEF mark, wmark, W, N
    <3>. QED  BY <2>3, <3>1, SumTimes
  <2>5. \A i \in D : f[i] \in Int /\ wmark[i] \in Int /\ f[i] <= wmark[i]
    <3>. HIDE DEF W, f, N
    <3>. QED  BY <1>2
  <2>6. SumFunctionOnSet(f, D) <= SumFunctionOnSet(wmark, D)
    <3>. HIDE DEF wmark, f, W
    <3>. QED  BY <1>1, <2>5, SumLeq
  <2>. HIDE DEF wmark, mark, f, W, P
  <2>. QED
    BY <2>2, <2>4, <2>6 DEF F
<1>11. L <= Cardinality(P)
  <2> DEFINE p == Cardinality(P)
  <2>1. p \in Nat
    BY <1>1, FS_Subset, FS_CardinalityType
  <2>2. W * L <= F
    <3>. HIDE DEF W, N, S, F, L
    <3>1. W * L = N * (10 * L)
      BY <1>2, <1>9
    <3>2. N * (10 * L) <= N * (d - 10 * S)
      <4>1. ASSUME NEW a \in Int, NEW b \in Int, a <= b PROVE N * a <= N * b
        BY <1>2, <4>1
      <4>. QED
        BY <1>1, <1>4, <1>9, <4>1
    <3>. QED
      BY <1>7, <3>1, <3>2
  <2>3. W * L <= W * p
    <3>. HIDE DEF W, N, S, F, L, p
    <3>1. W * L \in Int /\ W * p \in Int
      BY <1>2, <1>9, <2>1
    <3>. QED
      BY <1>4, <1>10, <2>2, <3>1 DEF p
  <2>4. ASSUME NEW a \in Nat, NEW b \in Nat, W * a <= W * b PROVE a <= b
    <3>. HIDE DEF W, N
    <3>1. W > 0
      BY <1>2
    <3>2. a > b => W * a > W * b
      BY <1>2, <3>1
    <3>. QED
      BY <2>4, <3>2, <1>2
  <2>. HIDE DEF W, L, p
  <2>. QED
    BY <1>9, <2>1, <2>3, <2>4 DEF p
<1>. QED
  <2>. HIDE DEF N, W, down, f, S, F, L, P
  <2>. QED  BY <1>4, <1>9, <1>11 DEF down, f, S, L, P

\* The lines are in an order, by what they have behind the comma.
LEMMA AheadOrders ==
  ASSUME NEW D, NEW nets, NEW d, Shared(D, nets, d)
  PROVE  /\ \A x \in D : Ahead(nets, d)[x] \in SUBSET D /\ x \notin Ahead(nets, d)[x]
         /\ \A x, y \in D : x \in Ahead(nets, d)[y] => Ahead(nets, d)[x] \subseteq Ahead(nets, d)[y]
         /\ \A x, y \in D : x # y => x \in Ahead(nets, d)[y] \/ y \in Ahead(nets, d)[x]
<1> DEFINE f == Fraction(nets, d)
<1>1. DOMAIN nets = D /\ D \subseteq Nat
  BY DEF Shared
<1>2. \A x \in D : f[x] \in Nat
  <2> DEFINE W == Whole(nets)
  <2>1. W \in Nat /\ \A x \in D : f[x] \in 0 .. (W - 1)
    <3>. HIDE DEF f, W
    <3>. QED  BY DownFacts DEF f, W
  <2>. HIDE DEF f, W
  <2>. QED
    BY <2>1
<1>3. \A y \in D : Ahead(nets, d)[y] = {x \in D : f[x] > f[y] \/ (f[x] = f[y] /\ x < y)}
  BY <1>1 DEF Ahead
<1>. HIDE DEF f
<1>4. ASSUME NEW x \in D
      PROVE  Ahead(nets, d)[x] \in SUBSET D /\ x \notin Ahead(nets, d)[x]
  BY <1>1, <1>2, <1>3
<1>5. ASSUME NEW x \in D, NEW y \in D
      PROVE  /\ x \in Ahead(nets, d)[y] => Ahead(nets, d)[x] \subseteq Ahead(nets, d)[y]
             /\ x # y => x \in Ahead(nets, d)[y] \/ y \in Ahead(nets, d)[x]
  <2>1. /\ Ahead(nets, d)[x] = {z \in D : f[z] > f[x] \/ (f[z] = f[x] /\ z < x)}
        /\ Ahead(nets, d)[y] = {z \in D : f[z] > f[y] \/ (f[z] = f[y] /\ z < y)}
    BY <1>3
  <2>2. x \in Nat /\ y \in Nat /\ f[x] \in Nat /\ f[y] \in Nat
    BY <1>1, <1>2
  <2>3. x # y => x \in Ahead(nets, d)[y] \/ y \in Ahead(nets, d)[x]
    BY <2>1, <2>2
  <2>4. ASSUME x \in Ahead(nets, d)[y], NEW z \in Ahead(nets, d)[x]
        PROVE  z \in Ahead(nets, d)[y]
    <3>1. z \in D /\ z \in Nat /\ f[z] \in Nat
      BY <1>1, <1>2, <2>1
    <3>. QED
      BY <2>1, <2>2, <2>4, <3>1
  <2>. QED
    BY <2>3, <2>4
<1>. QED
  BY <1>4, <1>5

\* As many lines get a cent as there are cents, and all of them have a fraction.
LEMMA CentsGiven ==
  ASSUME NEW D, NEW nets, NEW d, Shared(D, nets, d)
  PROVE  LET given == {i \in D : Cardinality(Ahead(nets, d)[i]) < CentsLeft(nets, d)}
         IN  /\ Cardinality(given) = CentsLeft(nets, d)
             /\ \A i \in given : Fraction(nets, d)[i] > 0
<1> DEFINE f == Fraction(nets, d)
           L == CentsLeft(nets, d)
           ahead == Ahead(nets, d)
           P == {i \in D : f[i] > 0}
           given == {i \in D : Cardinality(ahead[i]) < L}
<1>1. DOMAIN nets = D /\ D \subseteq Nat /\ IsFiniteSet(D)
  BY DEF Shared
<1>2. L \in Nat /\ L <= Cardinality(P)
  BY LeftFacts
<1>3. Cardinality(P) \in Nat /\ Cardinality(D) \in Nat /\ Cardinality(P) <= Cardinality(D)
  <2>1. P \in SUBSET D
    OBVIOUS
  <2>. HIDE DEF P
  <2>. QED  BY <1>1, <2>1, FS_Subset, FS_CardinalityType
<1>4. Cardinality(given) = L
  <2>1. L <= Cardinality(D)
    <3>. HIDE DEF L, P
    <3>. QED  BY <1>2, <1>3
  <2>2. /\ \A x \in D : ahead[x] \in SUBSET D
        /\ \A x \in D : x \notin ahead[x]
        /\ \A x, y \in D : x \in ahead[y] => ahead[x] \subseteq ahead[y]
        /\ \A x, y \in D : x # y => x \in ahead[y] \/ y \in ahead[x]
    BY AheadOrders
  <2>. HIDE DEF L, ahead
  <2>3. Cardinality({x \in D : Cardinality(ahead[x]) < L}) = L
    BY <1>1, <1>2, <2>1, <2>2, Ranked
  <2>. QED
    BY <2>3
<1>5. ASSUME NEW i \in given
      PROVE  f[i] > 0
  <2>1. f[i] \in Nat
    <3> DEFINE W == Whole(nets)
    <3>1. W \in Nat /\ \A x \in D : f[x] \in 0 .. (W - 1)
      <4>. HIDE DEF f, W
      <4>. QED  BY DownFacts DEF f, W
    <3>. HIDE DEF f, W
    <3>. QED
      BY <3>1
  <2>2. SUFFICES ASSUME f[i] = 0 PROVE FALSE
    <3>. HIDE DEF f
    <3>. QED  BY <2>1
  <2>3. ahead[i] = {x \in D : f[x] > f[i] \/ (f[x] = f[i] /\ x < i)}
    BY <1>1 DEF Ahead
  <2>4. P \subseteq ahead[i] /\ ahead[i] \subseteq D
    <3>. HIDE DEF f, ahead
    <3>. QED  BY <2>2, <2>3
  <2>5. Cardinality(P) <= Cardinality(ahead[i]) /\ Cardinality(ahead[i]) \in Nat
    <3>. HIDE DEF P, ahead
    <3>1. IsFiniteSet(ahead[i])
      BY <1>1, <2>4, FS_Subset
    <3>. QED
      BY <2>4, <3>1, FS_Subset, FS_CardinalityType
  <2>6. Cardinality(ahead[i]) < L
    OBVIOUS
  <2>. HIDE DEF P, ahead, L
  <2>. QED
    BY <1>2, <1>3, <2>5, <2>6
<1>. QED
  BY <1>4, <1>5

\* allocateInvoiceDiscount for any lines and any discount that fits them.
LEMMA SharesFacts ==
  ASSUME NEW D, NEW nets, NEW d, Shared(D, nets, d), d <= Whole(nets)
  PROVE  /\ NetSum(Shares(nets, d)) = d \div 10
         /\ \A i \in D :
              /\ Shares(nets, d)[i] \in 0 .. nets[i]
              /\ nets[i] * d - Whole(nets) < Whole(nets) * Shares(nets, d)[i]
              /\ Whole(nets) * Shares(nets, d)[i] < nets[i] * d + Whole(nets)
         /\ \A i, j \in D : nets[i] > nets[j] => Shares(nets, d)[i] >= Shares(nets, d)[j]
<1> DEFINE W == Whole(nets)
           f == Fraction(nets, d)
           down == Down(nets, d)
           L == CentsLeft(nets, d)
           ahead == Ahead(nets, d)
           shares == Shares(nets, d)
           given == {i \in D : Cardinality(ahead[i]) < L}
           cent == [i \in D |-> IF i \in given THEN 1 ELSE 0]
<1>1. DOMAIN nets = D /\ D \subseteq Nat /\ IsFiniteSet(D) /\ nets \in [D -> Nat] /\ d \in Nat
  BY DEF Shared
<1>2. /\ W \in Nat /\ W > 0
      /\ \A i \in D : /\ down[i] \in Nat /\ f[i] \in 0 .. (W - 1)
                      /\ nets[i] * d = W * down[i] + f[i]
  <2>1. W = 10 * NetSum(nets) /\ NetSum(nets) \in Nat /\ NetSum(nets) > 0
    BY DownFacts
  <2>. HIDE DEF W, down, f
  <2>. QED  BY <2>1, DownFacts DEF W, down, f
<1>3. Cardinality(given) = L /\ \A i \in given : f[i] > 0
  BY CentsGiven
<1>4. shares = [i \in D |-> down[i] + cent[i]]
  <2>1. shares = [i \in D |-> down[i] + (IF Cardinality(ahead[i]) < L THEN 1 ELSE 0)]
    BY <1>1, SharesIs
  <2>. HIDE DEF shares, down, ahead, L
  <2>. QED
    BY <2>1
<1>5. \A i \in D : /\ cent[i] \in {0, 1} /\ shares[i] = down[i] + cent[i]
                   /\ cent[i] = 1 => f[i] > 0
  <2>. HIDE DEF shares, down, f, ahead, L
  <2>. QED  BY <1>3, <1>4
<1>6. NetSum(shares) = d \div 10
  <2>1. NetSum(shares) = SumFunctionOnSet(shares, D)
    <3>1. DOMAIN shares = D
      <4>. HIDE DEF shares
      <4>. QED  BY <1>4
    <3>. HIDE DEF shares
    <3>. QED  BY <3>1 DEF NetSum, SumFunction
  <2>2. NetSum(down) = SumFunctionOnSet(down, D)
    <3>1. DOMAIN down = D
      BY <1>1 DEF Down
    <3>. HIDE DEF down
    <3>. QED  BY <3>1 DEF NetSum, SumFunction
  <2>3. SumFunctionOnSet(shares, D) = SumFunctionOnSet(down, D) + SumFunctionOnSet(cent, D)
    <3>1. \A i \in D : down[i] \in Int /\ cent[i] \in Int /\ shares[i] = down[i] + cent[i]
      <4>. HIDE DEF shares, down, cent, W, f
      <4>. QED  BY <1>2, <1>5
    <3>. HIDE DEF shares, down, cent
    <3>. QED  BY <1>1, <3>1, SumPlus
  <2>4. SumFunctionOnSet(cent, D) = L
    <3>1. given \in SUBSET D /\ \A i \in D : cent[i] = IF i \in given THEN 1 ELSE 0
      OBVIOUS
    <3>. HIDE DEF given, cent, L
    <3>. QED  BY <1>1, <1>3, <3>1, SumMarked
  <2>5. L \in Nat /\ NetSum(down) \in Nat /\ L + NetSum(down) = d \div 10
    BY LeftFacts
  <2>. HIDE DEF shares, down, cent, L
  <2>. QED
    BY <2>1, <2>2, <2>3, <2>4, <2>5
<1>7. ASSUME NEW i \in D
      PROVE  /\ shares[i] \in 0 .. nets[i]
             /\ nets[i] * d - W < W * shares[i]
             /\ W * shares[i] < nets[i] * d + W
  <2> DEFINE q == down[i]
             r == f[i]
             n == nets[i]
             c == cent[i]
  <2>1. /\ q \in Nat /\ r \in Nat /\ r < W /\ n \in Nat /\ n * d = W * q + r
        /\ c \in {0, 1} /\ shares[i] = q + c /\ (c = 1 => r > 0)
    <3>. HIDE DEF shares, down, f, W, cent
    <3>. QED  BY <1>1, <1>2, <1>5
  <2>2. n * d <= W * n
    <3>. HIDE DEF W, n
    <3>1. \A a \in Nat : a * d <= W * a
      BY <1>1, <1>2 DEF W
    <3>. QED
      BY <2>1, <3>1
  <2>3. W * (q + c) = W * q + W * c
    <3>. HIDE DEF W, q, c
    <3>. QED  BY <1>2, <2>1
  <2>4. W * c = IF c = 1 THEN W ELSE 0
    <3>. HIDE DEF W, c
    <3>. QED  BY <1>2, <2>1
  <2>5. q + c <= n
    <3>. HIDE DEF W, q, c, n, r
    <3>1. n < q + c => W * n < W * (q + c)
      BY <1>2, <2>1
    <3>2. CASE c = 0
      <4>1. q > n => W * q > W * n
        BY <1>2, <2>1
      <4>2. W * q <= W * n
        <5>1. W * q \in Int /\ W * n \in Int
          BY <1>2, <2>1
        <5>. QED
          BY <2>1, <2>2, <5>1
      <4>3. W * q \in Int /\ W * n \in Int
        BY <1>2, <2>1
      <4>. QED
        BY <2>1, <3>2, <4>1, <4>2, <4>3
    <3>3. CASE c = 1
      <4>1. q >= n => W * q >= W * n
        BY <1>2, <2>1
      <4>2. W * q \in Int /\ W * n \in Int
        BY <1>2, <2>1
      <4>3. W * q < W * n
        BY <2>1, <2>2, <3>3, <4>2
      <4>. QED
        BY <2>1, <3>3, <4>1, <4>2, <4>3
    <3>. QED
      BY <2>1, <3>2, <3>3
  <2>6. n * d - W < W * (q + c) /\ W * (q + c) < n * d + W
    <3>1. W * q \in Int
      <4>. HIDE DEF W, q
      <4>. QED  BY <1>2, <2>1
    <3>. HIDE DEF W, q, c, n, r
    <3>. QED
      BY <1>2, <2>1, <2>3, <2>4, <3>1
  <2>. HIDE DEF shares, W, q, c, n, r
  <2>. QED
    BY <2>1, <2>5, <2>6 DEF n
<1>8. ASSUME NEW i \in D, NEW j \in D, nets[i] > nets[j]
      PROVE  shares[i] >= shares[j]
  <2>1. /\ down[i] \in Nat /\ down[j] \in Nat /\ f[i] \in 0 .. (W - 1) /\ f[j] \in 0 .. (W - 1)
        /\ nets[i] * d = W * down[i] + f[i] /\ nets[j] * d = W * down[j] + f[j]
        /\ cent[i] \in {0, 1} /\ cent[j] \in {0, 1}
        /\ shares[i] = down[i] + cent[i] /\ shares[j] = down[j] + cent[j]
    <3>. HIDE DEF shares, down, f, W, cent
    <3>. QED  BY <1>2, <1>5
  <2>2. CASE down[i] # down[j]
    <3>1. nets[i] * d >= nets[j] * d
      <4>1. \A a, b \in Nat : a > b => a * d >= b * d
        BY <1>1
      <4>. QED
        BY <1>1, <1>8, <4>1
    <3>2. down[i] > down[j]
      <4> DEFINE p == down[i]
                 q == down[j]
      <4>. HIDE DEF W, p, q, f
      <4>1. p < q => W * p + W <= W * q
        <5>1. p + 1 <= q => W * (p + 1) <= W * q
          BY <1>2, <2>1 DEF p, q
        <5>2. W * (p + 1) = W * p + W
          BY <1>2, <2>1 DEF p, q
        <5>. QED
          BY <2>1, <5>1, <5>2 DEF p, q
      <4>2. W * p \in Int /\ W * q \in Int
        BY <1>2, <2>1 DEF p, q
      <4>3. p \in Nat /\ q \in Nat /\ p # q
        BY <2>1, <2>2 DEF p, q
      <4>4. W * p + f[i] >= W * q + f[j]
        BY <2>1, <3>1 DEF p, q
      <4>5. p > q
        BY <1>2, <2>1, <4>1, <4>2, <4>3, <4>4
      <4>. QED
        BY <4>5 DEF p, q
    <3>. HIDE DEF shares, down, cent, f, W
    <3>. QED
      BY <2>1, <3>2
  <2>3. CASE down[i] = down[j]
    <3>1. d > 0 => nets[i] * d > nets[j] * d
      <4>1. \A a, b \in Nat : a > b /\ d > 0 => a * d > b * d
        BY <1>1
      <4>. QED
        BY <1>1, <1>8, <4>1
    <3>2. CASE d > 0
      <4>1. f[i] > f[j]
        <5> DEFINE p == W * down[i]
        <5>1. p \in Int
          <6>. HIDE DEF W, down
          <6>. QED  BY <1>2, <2>1
        <5>2. nets[i] * d = p + f[i] /\ nets[j] * d = p + f[j]
          BY <2>1, <2>3
        <5>. HIDE DEF p, f, W
        <5>. QED
          BY <2>1, <3>1, <3>2, <5>1, <5>2, <1>2
      <4>2. \A k \in {i, j} : ahead[k] = {x \in D : f[x] > f[k] \/ (f[x] = f[k] /\ x < k)}
        BY <1>1 DEF Ahead
      <4>3. ahead[i] \subseteq ahead[j]
        <5>1. \A x \in D : f[x] \in Int
          <6>. HIDE DEF f, W
          <6>. QED  BY <1>2
        <5>. HIDE DEF f, ahead
        <5>. QED  BY <4>1, <4>2, <5>1
      <4>4. ahead[j] \in SUBSET D
        BY <4>2
      <4>5. /\ Cardinality(ahead[i]) <= Cardinality(ahead[j])
            /\ Cardinality(ahead[i]) \in Nat /\ Cardinality(ahead[j]) \in Nat
        <5>. HIDE DEF ahead
        <5>1. IsFiniteSet(ahead[j])
          BY <1>1, <4>4, FS_Subset
        <5>2. IsFiniteSet(ahead[i]) /\ Cardinality(ahead[i]) <= Cardinality(ahead[j])
          BY <4>3, <5>1, FS_Subset
        <5>. QED
          BY <5>1, <5>2, FS_CardinalityType
      <4>6. L \in Nat
        BY LeftFacts
      <4>7. cent[i] >= cent[j]
        <5>. HIDE DEF ahead, L
        <5>. QED  BY <4>5, <4>6
      <4>. HIDE DEF shares, down, cent
      <4>. QED
        BY <2>1, <2>3, <4>7
    <3>3. CASE d = 0
      <4>1. f[j] = 0 /\ f[i] = 0
        <5>1. nets[i] * d = 0 /\ nets[j] * d = 0
          BY <1>1, <3>3
        <5>2. W * down[i] >= 0 /\ W * down[j] >= 0 /\ W * down[i] \in Int /\ W * down[j] \in Int
          <6>. HIDE DEF W, down
          <6>. QED  BY <1>2, <2>1
        <5>3. f[i] \in Int /\ f[j] \in Int /\ f[i] >= 0 /\ f[j] >= 0
          <6>. HIDE DEF W, f
          <6>. QED  BY <1>2, <2>1
        <5>4. W * down[i] + f[i] = 0 /\ W * down[j] + f[j] = 0
          <6>. HIDE DEF W, f, down
          <6>. QED  BY <2>1, <5>1
        <5>. HIDE DEF W, down, f
        <5>. QED
          BY <5>2, <5>3, <5>4
      <4>2. cent[j] = 0
        <5>. HIDE DEF cent, f, down, shares, W
        <5>. QED  BY <1>5, <4>1
      <4>. HIDE DEF shares, down, cent
      <4>. QED
        BY <2>1, <2>3, <4>2
    <3>. QED
      BY <1>1, <3>2, <3>3
  <2>. QED
    BY <2>2, <2>3
<1>. HIDE DEF W, shares
<1>. QED
  BY <1>6, <1>7, <1>8 DEF W, shares

(***************************************************************************)
(* Journal lines and what an entry says of a part of the legs and classes. *)
(***************************************************************************)

\* A set of naturals has a least element.
LEMMA SmallestNat ==
  ASSUME NEW S, S \subseteq Nat, S # {}
  PROVE  Min(S) \in S
<1>1. PICK n \in S : \A k \in S : ~ (<<k, n>> \in OpToRel(<, Nat))
  BY NatLessThanWellFounded, WFMin, Zenon
<1>2. \A k \in S : ~ (k < n)
  BY <1>1 DEF OpToRel
<1>3. \A k \in S : n <= k
  BY <1>2
<1>. QED
  BY <1>3 DEF Min

\* The texts of journal lines; the provers do not know literals as STRINGs.
Name == STRING \union Treatment \union Leg
  \union {"DOMESTIC_OUTPUT_VAT", "DOMESTIC_INPUT_VAT", "REVENUE", "EXPENSE", "NONE", "any",
          "Receivables", "Advances received", "VAT payable", "Input VAT",
          "Reverse charge input", "Reverse charge output", "Payables"}

\* The texts that journal lines are made of.
LEMMA NameFacts ==
  /\ STRING \subseteq Name /\ Treatment \subseteq Name /\ Leg \subseteq Name
  /\ {"DOMESTIC_OUTPUT_VAT", "DOMESTIC_INPUT_VAT", "REVENUE", "EXPENSE", "NONE", "any",
      "Receivables", "Advances received", "VAT payable", "Input VAT",
      "Reverse charge input", "Reverse charge output", "Payables"} \subseteq Name
  BY DEF Name

JLine == [account : Name, code : Name, leg : Name, class : Name, amount : Int]
JLines(E) == E \subseteq JLine /\ IsFiniteSet(E)

\* What the lines of E with a leg and class of Q add up to.
AmountOver(E) == SumFunction([x \in E |-> x.amount])
In(E, Q) == {x \in E : <<x.leg, x.class>> \in Q}
Measure(E, Q) == AmountOver(In(E, Q))
All == Name \X Name

\* What a set of journal lines amounts to, by any function that tells their amounts.
LEMMA AmountIs ==
  ASSUME NEW E, IsFiniteSet(E), NEW f, \A x \in E : f[x] = x.amount
  PROVE  AmountOver(E) = SumFunctionOnSet(f, E)
<1> DEFINE g == [x \in E |-> x.amount]
<1>1. AmountOver(E) = SumFunctionOnSet(g, E)
  BY DEF AmountOver, SumFunction
<1>2. \A x \in E : g[x] = f[x]
  OBVIOUS
<1>. HIDE DEF g
<1>. QED
  BY <1>1, <1>2, SumSame

\* The journal lines of a part.
LEMMA InLines ==
  ASSUME NEW E, JLines(E), NEW Q
  PROVE  /\ IsFiniteSet(In(E, Q)) /\ In(E, Q) \subseteq E
         /\ \A x \in In(E, Q) : x.amount \in Int
<1>1. In(E, Q) \in SUBSET E
  BY DEF In
<1>2. IsFiniteSet(In(E, Q))
  BY <1>1, FS_Subset DEF JLines
<1>. QED
  BY <1>1, <1>2 DEF JLines, JLine

\* What an entry says of a part is an integer.
LEMMA MeasureInt ==
  ASSUME NEW E, JLines(E), NEW Q
  PROVE  Measure(E, Q) \in Int
<1> DEFINE f == [x \in In(E, Q) |-> x.amount]
<1>1. IsFiniteSet(In(E, Q)) /\ \A x \in In(E, Q) : f[x] = x.amount /\ f[x] \in Int
  BY InLines
<1>. HIDE DEF f
<1>. QED
  BY <1>1, AmountIs, SumInt DEF Measure

\* Two sets of lines.
LEMMA MeasureUnion ==
  ASSUME NEW A, JLines(A), NEW B, JLines(B), A \cap B = {}, NEW Q
  PROVE  JLines(A \union B) /\ Measure(A \union B, Q) = Measure(A, Q) + Measure(B, Q)
<1> DEFINE S == In(A \union B, Q)
           T == In(A, Q)
           f == [x \in S |-> x.amount]
<1>1. JLines(A \union B)
  BY FS_Union DEF JLines
<1>2. IsFiniteSet(S) /\ \A x \in S : f[x] = x.amount /\ f[x] \in Int
  <2>. HIDE DEF f
  <2>1. IsFiniteSet(S) /\ \A x \in S : x.amount \in Int
    BY <1>1, InLines
  <2>. QED
    BY <2>1 DEF f
<1>3. T \in SUBSET S /\ S \ T = In(B, Q)
  BY DEF In
<1>4. SumFunctionOnSet(f, S) = SumFunctionOnSet(f, T) + SumFunctionOnSet(f, S \ T)
  <2>. HIDE DEF f, S, T
  <2>. QED  BY <1>2, <1>3, SumSplit
<1>5. Measure(A \union B, Q) = SumFunctionOnSet(f, S)
  <2>. HIDE DEF f
  <2>. QED  BY <1>2, AmountIs DEF Measure
<1>6. Measure(A, Q) = SumFunctionOnSet(f, T)
  <2>1. IsFiniteSet(T) /\ \A x \in T : f[x] = x.amount
    <3>. HIDE DEF f, S
    <3>. QED  BY <1>2, <1>3, InLines
  <2>. HIDE DEF f
  <2>. QED  BY <2>1, AmountIs DEF Measure
<1>7. Measure(B, Q) = SumFunctionOnSet(f, S \ T)
  <2>1. IsFiniteSet(S \ T) /\ \A x \in S \ T : f[x] = x.amount
    <3>. HIDE DEF f, S
    <3>. QED  BY <1>2, <1>3, InLines
  <2>. HIDE DEF f, S, T
  <2>. QED  BY <1>3, <2>1, AmountIs DEF Measure
<1>. QED
  BY <1>1, <1>4, <1>5, <1>6, <1>7

\* Lines of nothing make no difference.
LEMMA MeasureKept ==
  ASSUME NEW E, JLines(E), NEW Q
  PROVE  /\ JLines(NotNothing(E)) /\ NotNothing(E) \subseteq E
         /\ Measure(NotNothing(E), Q) = Measure(E, Q)
<1> DEFINE S == In(E, Q)
           T == In(NotNothing(E), Q)
           f == [x \in S |-> x.amount]
<1>1. NotNothing(E) \in SUBSET E
  BY DEF NotNothing
<1>2. JLines(NotNothing(E))
  BY <1>1, FS_Subset DEF JLines
<1>3. IsFiniteSet(S) /\ \A x \in S : f[x] = x.amount /\ f[x] \in Int
  BY InLines
<1>4. T \in SUBSET S /\ \A x \in S \ T : f[x] = 0
  BY DEF In, NotNothing
<1>5. IsFiniteSet(T) /\ \A x \in T : f[x] = x.amount
  <2>. HIDE DEF f, S
  <2>. QED  BY <1>2, <1>3, <1>4, InLines
<1>6. Measure(E, Q) = SumFunctionOnSet(f, S)
  <2>. HIDE DEF f
  <2>. QED  BY <1>3, AmountIs DEF Measure
<1>7. Measure(NotNothing(E), Q) = SumFunctionOnSet(f, T)
  <2>. HIDE DEF f
  <2>. QED  BY <1>5, AmountIs DEF Measure
<1>8. SumFunctionOnSet(f, S) = SumFunctionOnSet(f, T)
  <2>. HIDE DEF f, S, T
  <2>. QED  BY <1>3, <1>4, SumSupport
<1>. QED
  BY <1>1, <1>2, <1>6, <1>7, <1>8

\* An entry without a line in a part says nothing of it.
LEMMA MeasureNone ==
  ASSUME NEW E, NEW Q, In(E, Q) = {}
  PROVE  Measure(E, Q) = 0
<1>1. Measure(E, Q) = SumFunctionOnSet([x \in {} |-> x.amount], {})
  BY DEF Measure, AmountOver, SumFunction
<1>. QED
  BY <1>1, SumEmpty

\* What a single journal line says.
LEMMA MeasureOne ==
  ASSUME NEW x \in JLine, NEW Q
  PROVE  JLines({x}) /\ Measure({x}, Q) = IF <<x.leg, x.class>> \in Q THEN x.amount ELSE 0
<1>1. JLines({x})
  BY FS_Singleton DEF JLines
<1>2. CASE <<x.leg, x.class>> \in Q
  <2> DEFINE f == [y \in {x} |-> y.amount]
  <2>1. In({x}, Q) = {x} /\ IsFiniteSet({x})
    BY <1>2, FS_Singleton DEF In
  <2>2. f[x] = x.amount /\ x.amount \in Int
    BY DEF JLine
  <2>3. \A y \in {x} : f[y] = y.amount
    OBVIOUS
  <2>. HIDE DEF f
  <2>4. Measure({x}, Q) = SumFunctionOnSet(f, {x})
    BY <2>1, <2>3, AmountIs DEF Measure
  <2>. QED
    BY <1>1, <1>2, <2>2, <2>4, SumOne
<1>3. CASE ~ (<<x.leg, x.class>> \in Q)
  <2>1. In({x}, Q) = {}
    BY <1>3 DEF In
  <2>. QED
    BY <1>1, <1>3, <2>1, MeasureNone
<1>. QED
  BY <1>2, <1>3

\* A mirror takes everything back.
LEMMA MeasureReversed ==
  ASSUME NEW E, JLines(E), NEW Q
  PROVE  JLines(Reversed(E)) /\ Measure(Reversed(E), Q) = - Measure(E, Q)
<1> DEFINE mirror(x) == [x EXCEPT !.amount = -@]
           R == Reversed(E)
           S == In(E, Q)
           T == In(R, Q)
           m == [x \in S |-> mirror(x)]
           f == [x \in S |-> x.amount]
           g == [y \in T |-> y.amount]
           h == [x \in S |-> - x.amount]
<1>1. \A x \in E : /\ mirror(x) \in JLine /\ mirror(x).amount = - x.amount
                   /\ mirror(x).leg = x.leg /\ mirror(x).class = x.class
                   /\ mirror(mirror(x)) = x
  <2> TAKE x \in E
  <2>1. x \in JLine
    BY DEF JLines
  <2>2. x.amount \in Int /\ - x.amount \in Int /\ -(-x.amount) = x.amount
    BY <2>1 DEF JLine
  <2>3. mirror(x) \in JLine
    BY <2>1, <2>2 DEF JLine
  <2>4. /\ mirror(x).amount = - x.amount /\ mirror(x).leg = x.leg
        /\ mirror(x).class = x.class
    BY <2>1 DEF JLine
  <2>5. mirror(mirror(x)) = x
    BY <2>1, <2>2 DEF JLine
  <2>. QED
    BY <2>3, <2>4, <2>5
<1>2. R = {mirror(x) : x \in E}
  BY DEF Reversed
<1>3. IsFiniteSet(R)
  <2> DEFINE s == [x \in E |-> mirror(x)]
  <2>1. s \in Surjection(E, R)
    BY <1>2 DEF Surjection
  <2>. HIDE DEF s, R
  <2>. QED  BY <2>1, FS_Surjection DEF JLines
<1>4. JLines(R)
  <2>1. R \subseteq JLine
    <3>. HIDE DEF mirror, R
    <3>. QED  BY <1>1, <1>2
  <2>. QED
    BY <1>3, <2>1 DEF JLines
<1>5. T = {mirror(x) : x \in S}
  <2>1. ASSUME NEW x \in E
        PROVE  <<mirror(x).leg, mirror(x).class>> \in Q <=> <<x.leg, x.class>> \in Q
    <3>. HIDE DEF mirror
    <3>. QED  BY <1>1
  <2>2. T = {y \in R : <<y.leg, y.class>> \in Q} /\ S = {x \in E : <<x.leg, x.class>> \in Q}
    BY DEF In
  <2>. HIDE DEF mirror, R, S, T
  <2>. QED
    BY <1>2, <2>1, <2>2
<1>6. /\ IsFiniteSet(S) /\ IsFiniteSet(T) /\ S \subseteq E
      /\ \A x \in S : f[x] = x.amount /\ f[x] \in Int
      /\ \A y \in T : g[y] = y.amount /\ g[y] \in Int
  BY <1>4, InLines
<1>7. m \in [S -> T]
  BY <1>5
<1>8. \A y \in T : g[y] = SumFunctionOnSet(h, Group(S, m, y))
  <2> TAKE y \in T
  <2>1. PICK x \in S : y = mirror(x)
    BY <1>5
  <2>2. Group(S, m, y) = {x}
    BY <1>1, <1>6, <2>1 DEF Group
  <2>3. h[x] = - x.amount /\ h[x] \in Int
    BY <1>6
  <2>4. SumFunctionOnSet(h, {x}) = h[x]
    <3>. HIDE DEF h
    <3>. QED  BY <2>3, SumOne
  <2>5. g[y] = - x.amount
    BY <1>1, <1>6, <2>1
  <2>. QED
    BY <2>2, <2>3, <2>4, <2>5
<1>9. \A x \in S : h[x] \in Int /\ h[x] = (-1) * f[x] /\ f[x] \in Int
  BY <1>6
<1>10. SumFunctionOnSet(g, T) = SumFunctionOnSet(h, S)
  <2>. HIDE DEF g, h, m, S, T
  <2>. QED  BY <1>6, <1>7, <1>8, <1>9, SumByKey
<1>11. SumFunctionOnSet(h, S) = (-1) * SumFunctionOnSet(f, S)
  <2>1. -1 \in Int /\ IsFiniteSet(S)
    BY <1>6
  <2>. HIDE DEF h, f, S
  <2>. QED  BY <1>9, <2>1, SumTimes
<1>12. Measure(R, Q) = SumFunctionOnSet(g, T) /\ Measure(E, Q) = SumFunctionOnSet(f, S)
  <2>. HIDE DEF f, g
  <2>. QED  BY <1>6, AmountIs DEF Measure
<1>13. Measure(E, Q) \in Int
  BY MeasureInt
<1>. QED
  <2>. HIDE DEF f, g, h, S, T
  <2>. QED  BY <1>4, <1>10, <1>11, <1>12, <1>13

(***************************************************************************)
(* Grouping.                                                               *)
(***************************************************************************)

DocLine == [account : Name, code : Name, net : Int,
            vat : [tax : Int, expense : Int, class : Name, legs : [Leg -> Int]]]

\* The lines grouped with line i, and the first of them.
GroupOf(lines, account, key, i) ==
  {j \in DOMAIN lines : account[j] = account[i] /\ key[j] = key[i]}
FirstOf(lines, account, key, i) == lines[Min(GroupOf(lines, account, key, i))]
GroupLine(lines, account, key, leg, amount, i) ==
  JournalLine(account[i], FirstOf(lines, account, key, i).code, leg,
              FirstOf(lines, account, key, i).vat.class,
              SumFunctionOnSet(amount, GroupOf(lines, account, key, i)))

\* Columns to group lines by, which tell the journal lines of two groups apart.
Groups(lines, account, key, leg, amount) ==
  /\ lines \in Seq(DocLine) /\ leg \in Name
  /\ account \in [DOMAIN lines -> Name] /\ amount \in [DOMAIN lines -> Int]
  /\ DOMAIN key = DOMAIN lines
  /\ \A i, j \in DOMAIN lines :
       account[i] = account[j]
         /\ FirstOf(lines, account, key, i).code = FirstOf(lines, account, key, j).code
       => key[i] = key[j]

\* A group has a first line, and its lines.
LEMMA GroupFacts ==
  ASSUME NEW lines, NEW account, NEW key, NEW leg, NEW amount,
         Groups(lines, account, key, leg, amount), NEW i \in DOMAIN lines
  PROVE  /\ IsFiniteSet(GroupOf(lines, account, key, i))
         /\ GroupOf(lines, account, key, i) \subseteq DOMAIN lines
         /\ i \in GroupOf(lines, account, key, i)
         /\ Min(GroupOf(lines, account, key, i)) \in GroupOf(lines, account, key, i)
         /\ FirstOf(lines, account, key, i) \in DocLine
         /\ SumFunctionOnSet(amount, GroupOf(lines, account, key, i)) \in Int
<1> DEFINE G == GroupOf(lines, account, key, i)
<1>1. DOMAIN lines = 1 .. Len(lines) /\ Len(lines) \in Nat
  BY LenProperties DEF Groups
<1>2. G \in SUBSET (DOMAIN lines) /\ i \in G /\ IsFiniteSet(DOMAIN lines)
  <2>1. IsFiniteSet(1 .. Len(lines))
    BY <1>1, FS_Interval
  <2>. QED
    BY <1>1, <2>1 DEF GroupOf
<1>3. IsFiniteSet(G) /\ G \subseteq Nat /\ G # {}
  <2>. HIDE DEF G
  <2>. QED  BY <1>1, <1>2, FS_Subset
<1>4. Min(G) \in G
  <2>. HIDE DEF G
  <2>. QED  BY <1>3, SmallestNat
<1>5. lines[Min(G)] \in DocLine
  <2>. HIDE DEF G
  <2>. QED  BY <1>1, <1>2, <1>4, ElementOfSeq DEF Groups
<1>6. SumFunctionOnSet(amount, G) \in Int
  <2>1. \A j \in G : amount[j] \in Int
    <3>. HIDE DEF G
    <3>. QED  BY <1>2 DEF Groups
  <2>. HIDE DEF G
  <2>. QED  BY <1>3, <2>1, SumInt
<1>. QED
  BY <1>2, <1>3, <1>4, <1>5, <1>6 DEF FirstOf

\* Lines of a group get the same journal line, lines of two groups different ones.
LEMMA SameGroup ==
  ASSUME NEW lines, NEW account, NEW key, NEW leg, NEW amount,
         Groups(lines, account, key, leg, amount), NEW i \in DOMAIN lines, NEW j \in DOMAIN lines
  PROVE  GroupLine(lines, account, key, leg, amount, j) =
             GroupLine(lines, account, key, leg, amount, i)
           <=> j \in GroupOf(lines, account, key, i)
<1>1. ASSUME j \in GroupOf(lines, account, key, i)
      PROVE  GroupOf(lines, account, key, j) = GroupOf(lines, account, key, i)
             /\ account[j] = account[i]
  BY <1>1 DEF GroupOf
<1>2. ASSUME GroupLine(lines, account, key, leg, amount, j) =
               GroupLine(lines, account, key, leg, amount, i)
      PROVE  j \in GroupOf(lines, account, key, i)
  <2>1. account[i] = account[j]
        /\ FirstOf(lines, account, key, i).code = FirstOf(lines, account, key, j).code
    BY <1>2 DEF GroupLine, JournalLine
  <2>2. key[i] = key[j]
    BY <2>1 DEF Groups
  <2>. QED
    BY <2>1, <2>2 DEF GroupOf
<1>. QED
  BY <1>1, <1>2 DEF GroupLine, FirstOf

GroupClass(lines, account, key, i) == FirstOf(lines, account, key, i).vat.class

\* Grouping yields journal lines that say together what the lines said one by one.
LEMMA GroupedFacts ==
  ASSUME NEW lines, NEW account, NEW key, NEW leg, NEW amount,
         Groups(lines, account, key, leg, amount)
  PROVE  /\ JLines(Grouped(lines, account, key, leg, amount))
         /\ \A x \in Grouped(lines, account, key, leg, amount) : x.leg = leg
         /\ \A Q : Measure(Grouped(lines, account, key, leg, amount), Q) =
                     SumFunctionOnSet(amount, {i \in DOMAIN lines :
                       <<leg, GroupClass(lines, account, key, i)>> \in Q})
<1>0. ASSUME NEW i \in DOMAIN lines, NEW j \in DOMAIN lines
      PROVE  GroupLine(lines, account, key, leg, amount, j) =
                 GroupLine(lines, account, key, leg, amount, i)
               <=> j \in GroupOf(lines, account, key, i)
  BY SameGroup
<1> DEFINE D == DOMAIN lines
           line(i) == GroupLine(lines, account, key, leg, amount, i)
           G == Grouped(lines, account, key, leg, amount)
<1>1. IsFiniteSet(D)
  <2>1. DOMAIN lines = 1 .. Len(lines) /\ Len(lines) \in Nat
    BY LenProperties DEF Groups
  <2>. QED
    BY <2>1, FS_Interval
<1>2. G = {line(i) : i \in D}
  <2>1. \A i \in D :
          SumFunction([j \in GroupOf(lines, account, key, i) |-> amount[j]]) =
            SumFunctionOnSet(amount, GroupOf(lines, account, key, i))
    <3> TAKE i \in D
    <3> DEFINE A == GroupOf(lines, account, key, i)
               f == [j \in A |-> amount[j]]
    <3>1. IsFiniteSet(A)
      BY GroupFacts
    <3>2. \A j \in A : f[j] = amount[j]
      OBVIOUS
    <3>3. SumFunction(f) = SumFunctionOnSet(f, A)
      <4>1. DOMAIN f = A
        OBVIOUS
      <4>. HIDE DEF f
      <4>. QED  BY <4>1 DEF SumFunction
    <3>4. SumFunctionOnSet(f, A) = SumFunctionOnSet(amount, A)
      <4>. HIDE DEF f, A
      <4>. QED  BY <3>1, <3>2, SumSame
    <3>. QED
      BY <3>3, <3>4
  <2>2. G = {JournalLine(account[i], FirstOf(lines, account, key, i).code, leg,
                         FirstOf(lines, account, key, i).vat.class,
                         SumFunction([j \in GroupOf(lines, account, key, i) |-> amount[j]])) :
               i \in D}
    BY DEF Grouped, FirstOf, GroupOf
  <2>. QED
    BY <2>1, <2>2 DEF GroupLine
<1>3. \A i \in D : /\ line(i) \in JLine /\ line(i).leg = leg
                   /\ line(i).class = GroupClass(lines, account, key, i)
                   /\ line(i).amount = SumFunctionOnSet(amount, GroupOf(lines, account, key, i))
  <2> TAKE i \in D
  <2>1. FirstOf(lines, account, key, i) \in DocLine
        /\ SumFunctionOnSet(amount, GroupOf(lines, account, key, i)) \in Int
    BY GroupFacts
  <2>2. account[i] \in Name /\ leg \in Name
    BY DEF Groups
  <2>3. line(i) \in JLine
    BY <2>1, <2>2 DEF GroupLine, JournalLine, JLine, DocLine
  <2>. QED
    BY <2>3 DEF GroupLine, JournalLine, GroupClass
<1>4. JLines(G)
  <2>1. G \subseteq JLine
    <3>. HIDE DEF line, G
    <3>. QED  BY <1>2, <1>3
  <2> DEFINE s == [i \in D |-> line(i)]
  <2>2. s \in Surjection(D, G)
    <3>. HIDE DEF line, G
    <3>. QED  BY <1>2 DEF Surjection
  <2>3. IsFiniteSet(G)
    <3>. HIDE DEF s, D, G
    <3>. QED  BY <1>1, <2>2, FS_Surjection
  <2>. QED
    BY <2>1, <2>3 DEF JLines
<1>5. \A x \in G : x.leg = leg
  <2>. HIDE DEF line, G
  <2>. QED  BY <1>2, <1>3
<1>6. ASSUME NEW Q
      PROVE  Measure(G, Q) = SumFunctionOnSet(amount,
               {i \in D : <<leg, GroupClass(lines, account, key, i)>> \in Q})
  <2> DEFINE S == {i \in D : <<leg, GroupClass(lines, account, key, i)>> \in Q}
             T == In(G, Q)
             m == [i \in S |-> line(i)]
             g == [x \in T |-> x.amount]
  <2>1. S \in SUBSET D
    OBVIOUS
  <2>2. IsFiniteSet(S) /\ \A i \in S : amount[i] \in Int
    <3>1. \A i \in D : amount[i] \in Int
      BY DEF Groups
    <3>. HIDE DEF S, D
    <3>. QED  BY <1>1, <2>1, <3>1, FS_Subset
  <2>3. T = {line(i) : i \in S}
    <3>1. \A i \in D : <<line(i).leg, line(i).class>> \in Q <=> i \in S
      <4>. HIDE DEF line
      <4>. QED  BY <1>3
    <3>2. T = {x \in G : <<x.leg, x.class>> \in Q}
      BY DEF In
    <3>. HIDE DEF line, G, S, T, D
    <3>. QED
      BY <1>2, <2>1, <3>1, <3>2
  <2>4. IsFiniteSet(T) /\ \A x \in T : g[x] = x.amount
    <3>. HIDE DEF G
    <3>. QED  BY <1>4, InLines
  <2>5. m \in [S -> T]
    <3>. HIDE DEF S, T, line
    <3>. QED  BY <2>3
  <2>6. \A x \in T : g[x] = SumFunctionOnSet(amount, Group(S, m, x))
    <3> TAKE x \in T
    <3>1. PICK i \in S : x = line(i)
      <4>. HIDE DEF S, T, line
      <4>. QED  BY <2>3
    <3>2. \A j \in D : line(j) = line(i) <=> j \in GroupOf(lines, account, key, i)
      <4>1. i \in DOMAIN lines
        BY <2>1
      <4>. HIDE DEF S
      <4>. QED
        BY <1>0, <4>1
    <3>3. \A j \in GroupOf(lines, account, key, i) : j \in S
      <4> TAKE j \in GroupOf(lines, account, key, i)
      <4>1. j \in D /\ line(j) = line(i)
        BY <2>1, <3>2, GroupFacts
      <4>2. GroupClass(lines, account, key, j) = GroupClass(lines, account, key, i)
        <5>. HIDE DEF line, S
        <5>. QED  BY <1>3, <2>1, <4>1
      <4>. QED
        BY <4>1, <4>2
    <3>4. Group(S, m, x) = GroupOf(lines, account, key, i)
      <4>1. GroupOf(lines, account, key, i) \subseteq D
        BY <2>1, GroupFacts
      <4>2. \A j \in S : m[j] = line(j)
        OBVIOUS
      <4>. HIDE DEF line, S, m, D
      <4>. QED
        BY <2>1, <3>1, <3>2, <3>3, <4>1, <4>2 DEF Group
    <3>5. g[x] = SumFunctionOnSet(amount, GroupOf(lines, account, key, i))
      <4>. HIDE DEF line, S, T, g
      <4>. QED  BY <1>3, <2>1, <2>4, <3>1
    <3>. QED
      BY <3>4, <3>5
  <2>7. SumFunctionOnSet(g, T) = SumFunctionOnSet(amount, S)
    <3>. HIDE DEF g, T, S, m
    <3>. QED  BY <2>2, <2>4, <2>5, <2>6, SumByKey
  <2>8. Measure(G, Q) = SumFunctionOnSet(g, T)
    <3>. HIDE DEF g, G
    <3>. QED  BY <2>4, AmountIs DEF Measure
  <2>. QED
    BY <2>7, <2>8
<1>. QED
  BY <1>4, <1>5, <1>6

(***************************************************************************)
(* VAT, discounts and the lines that are stored.                           *)
(***************************************************************************)

\* Every treatment and direction has a classification.
LEMMA ClassType ==
  ASSUME NEW treatment \in Treatment, NEW direction \in Direction
  PROVE  Classification(treatment, direction) \in Name
<1>1. treatment \in Name
  BY NameFacts
<1>2. CASE treatment \notin Domestic
  <2>1. Classification(treatment, direction) = treatment
    BY <1>2 DEF Classification
  <2>. QED  BY <1>1, <2>1
<1>3. CASE treatment \in Domestic
  <2>1. Classification(treatment, direction) \in {"DOMESTIC_OUTPUT_VAT", "DOMESTIC_INPUT_VAT"}
    BY <1>3 DEF Classification
  <2>. QED  BY <2>1, NameFacts
<1>. QED  BY <1>2, <1>3

VatResult == [tax : Int, expense : Int, class : Name, legs : [Leg -> Int]]

VatGood(direction, code, net, vat) ==
  /\ vat \in VatResult
  /\ vat.class = Classification(code.treatment, direction)
  /\ direction = "SALES" => vat.legs["OUTPUT_VAT"] = vat.tax
  /\ direction = "PURCHASE" =>
       vat.expense + vat.legs["INPUT_VAT"] + vat.legs["RC_INPUT_VAT"]
         - vat.legs["RC_OUTPUT_VAT"] = net + vat.tax

\* What an entry needs of the VAT of a line, for any amount and any tax code.
LEMMA VatFacts ==
  ASSUME NEW direction \in Direction, NEW code \in TaxCode, NEW net \in Int,
         NEW deductible \in 0 .. 100
  PROVE  VatGood(direction, code, net, Vat(direction, code, net, deductible))
<1> DEFINE standard == Rounded(net * code.rate, 1000)
           self == direction = "PURCHASE" /\ code.treatment \in SelfAssessed
           untaxed == \/ code.treatment \in Untaxed
                      \/ direction = "SALES" /\ code.treatment \in ReverseCharged
           tax == IF untaxed \/ self THEN 0 ELSE standard
           reportable == IF self THEN standard ELSE tax
           share == IF code.treatment = "EXEMPT" THEN 0 ELSE deductible
           deducted == IF direction = "PURCHASE" THEN Rounded(reportable * share, 100) ELSE 0
           expense == net + reportable - deducted
           legs == [leg \in Leg |->
             CASE leg = "OUTPUT_VAT" /\ direction = "SALES" -> tax
               [] leg = "INPUT_VAT" /\ direction = "PURCHASE" /\ code.treatment \in Domestic -> deducted
               [] leg = "RC_OUTPUT_VAT" /\ self -> reportable
               [] leg = "RC_INPUT_VAT" /\ self -> deducted
               [] OTHER -> 0]
           vat == Vat(direction, code, net, deductible)
<1>1. vat = [tax |-> tax, expense |-> expense,
             class |-> Classification(code.treatment, direction), legs |-> legs]
  BY DEF Vat
<1>2. code.treatment \in Treatment /\ code.rate \in Nat
  BY DEF TaxCode
<1>3. standard \in Int
  <2>1. net * code.rate \in Int
    BY <1>2
  <2>. QED
    BY <2>1, RoundedInt
<1>4. tax \in Int /\ reportable \in Int
  BY <1>3
<1>5. share \in 0 .. 100
  OBVIOUS
<1>6. deducted \in Int /\ (reportable = 0 => deducted = 0)
  <2>1. reportable * share \in Int /\ (reportable = 0 => reportable * share = 0)
    <3>. HIDE DEF reportable, share
    <3>. QED  BY <1>4, <1>5
  <2>2. Rounded(0, 100) = 0
    BY DEF Rounded
  <2>. HIDE DEF reportable, share
  <2>. QED
    BY <2>1, <2>2, RoundedInt
<1>7. expense \in Int
  BY <1>4, <1>6
<1>8. legs \in [Leg -> Int]
  <2>. HIDE DEF tax, reportable, deducted
  <2>. QED  BY <1>4, <1>6
<1>9. /\ legs["OUTPUT_VAT"] = IF direction = "SALES" THEN tax ELSE 0
      /\ legs["INPUT_VAT"] = IF direction = "PURCHASE" /\ code.treatment \in Domestic
                             THEN deducted ELSE 0
      /\ legs["RC_OUTPUT_VAT"] = IF self THEN reportable ELSE 0
      /\ legs["RC_INPUT_VAT"] = IF self THEN deducted ELSE 0
  <2>1. {"OUTPUT_VAT", "INPUT_VAT", "RC_OUTPUT_VAT", "RC_INPUT_VAT"} \subseteq Leg
    BY DEF Leg
  <2>. HIDE DEF tax, reportable, deducted, self
  <2>. QED
    BY <2>1
<1>10. ASSUME direction = "PURCHASE"
       PROVE  expense + legs["INPUT_VAT"] + legs["RC_INPUT_VAT"] - legs["RC_OUTPUT_VAT"]
                = net + tax
  <2>1. CASE self
    <3>1. ~ (code.treatment \in Domestic)
      BY <2>1 DEF SelfAssessed, ReverseCharged, Domestic
    <3>2. tax = 0
      BY <2>1
    <3>. HIDE DEF tax, reportable, deducted, self, legs
    <3>. QED
      BY <1>4, <1>6, <1>9, <2>1, <3>1, <3>2
  <2>2. CASE ~ self /\ code.treatment \in Domestic
    <3>1. reportable = tax
      BY <2>2
    <3>. HIDE DEF tax, reportable, deducted, self, legs
    <3>. QED
      BY <1>4, <1>6, <1>9, <1>10, <2>2, <3>1
  <2>3. CASE ~ self /\ ~ (code.treatment \in Domestic)
    <3>1. code.treatment \in Untaxed
      BY <1>2, <1>10, <2>3 DEF SelfAssessed, ReverseCharged, Domestic, Untaxed, Treatment
    <3>2. reportable = tax /\ tax = 0
      BY <2>3, <3>1
    <3>. HIDE DEF tax, reportable, deducted, self, legs
    <3>. QED
      BY <1>4, <1>6, <1>9, <2>3, <3>2
  <2>. QED
    BY <2>1, <2>2, <2>3
<1>11. Classification(code.treatment, direction) \in Name
  BY <1>2, ClassType
<1>. HIDE DEF tax, expense, legs, vat
<1>12. /\ vat.tax = tax /\ vat.expense = expense /\ vat.legs = legs
       /\ vat.class = Classification(code.treatment, direction)
  BY <1>1
<1>13. vat \in VatResult
  BY <1>1, <1>4, <1>7, <1>8, <1>11 DEF VatResult
<1>14. VatGood(direction, code, net, vat)
  BY <1>4, <1>7, <1>9, <1>10, <1>12, <1>13 DEF VatGood
<1>. QED
  BY <1>14 DEF vat

TaxMap == UNION {[S -> TaxCode] : S \in SUBSET STRING}

\* What documents, and the drafts they come from, say of their lines.
Shape(kind, lines) ==
  /\ lines \in Seq(DocLine)
  /\ \A i, j \in DOMAIN lines :
       lines[i].code = lines[j].code => lines[i].vat.class = lines[j].vat.class
  /\ \A i \in DOMAIN lines :
       LET vat == lines[i].vat
       IN  IF kind = "PURCHASE_INVOICE"
           THEN vat.expense + vat.legs["INPUT_VAT"] + vat.legs["RC_INPUT_VAT"]
                  - vat.legs["RC_OUTPUT_VAT"] = lines[i].net + vat.tax
           ELSE vat.legs["OUTPUT_VAT"] = vat.tax

\* The nets of the lines are not negative.
LEMMA NetsNat ==
  ASSUME NEW lines \in Seq(InputLine)
  PROVE  /\ DOMAIN lines = 1 .. Len(lines) /\ Len(lines) \in Nat
         /\ IsFiniteSet(DOMAIN lines) /\ DOMAIN lines \subseteq Nat
         /\ Nets(lines) \in [DOMAIN lines -> Nat] /\ NetSum(Nets(lines)) \in Nat
<1>1. DOMAIN lines = 1 .. Len(lines) /\ Len(lines) \in Nat
  BY LenProperties
<1>2. IsFiniteSet(DOMAIN lines)
  BY <1>1, FS_Interval
<1>3. Nets(lines) \in [DOMAIN lines -> Nat]
  <2>1. \A i \in DOMAIN lines : lines[i] \in InputLine
    BY <1>1, ElementOfSeq
  <2>2. \A i \in DOMAIN lines : LineNet(lines[i]) \in Nat
    BY <2>1, LineNetNat
  <2>. QED
    BY <2>2 DEF Nets
<1>4. NetSum(Nets(lines)) \in Nat
  <2> DEFINE n == Nets(lines)
  <2>1. DOMAIN n = DOMAIN lines /\ \A i \in DOMAIN lines : n[i] \in Nat
    <3>. HIDE DEF n
    <3>. QED  BY <1>3 DEF n
  <2>. HIDE DEF n
  <2>2. NetSum(n) = SumFunctionOnSet(n, DOMAIN lines)
    BY <2>1 DEF NetSum, SumFunction
  <2>3. SumFunctionOnSet(n, DOMAIN lines) \in Nat
    BY <1>2, <2>1, SumNat
  <2>. QED
    BY <2>2, <2>3 DEF n
<1>. QED
  BY <1>1, <1>2, <1>3, <1>4

\* A draft or a note, with tax codes for all of its lines.
DraftOK(input) ==
  /\ input.lines \in Seq(InputLine) /\ input.percent \in 0 .. 100 /\ input.amount \in Nat

\* A discount is not negative.
LEMMA DiscountNat ==
  ASSUME NEW input, DraftOK(input)
  PROVE  Discount(input) \in Nat
<1> DEFINE n == NetSum(Nets(input.lines))
<1>1. n \in Nat /\ input.percent \in 0 .. 100 /\ input.amount \in Nat
  BY NetsNat DEF DraftOK
<1>2. n * input.percent \in Nat
  <2>. HIDE DEF n
  <2>. QED  BY <1>1
<1>3. Rounded(n * input.percent, 100) \in Nat
  BY <1>2, RoundedNat
<1>. HIDE DEF n
<1>. QED
  BY <1>1, <1>3 DEF Discount, n

\* What a line is given of a discount is an integer.
LEMMA SharesInt ==
  ASSUME NEW input, DraftOK(input), Discountable(input)
  PROVE  \A i \in DOMAIN input.lines : DiscountShares(input)[i] \in Int
<1> DEFINE nets == Nets(input.lines)
           d == Discount(input)
           D == DOMAIN input.lines
<1>1. /\ D \subseteq Nat /\ IsFiniteSet(D) /\ nets \in [D -> Nat] /\ NetSum(nets) \in Nat
      /\ d \in Nat /\ d <= 10 * NetSum(nets)
  BY NetsNat, DiscountNat DEF DraftOK, Discountable
<1>2. DiscountShares(input) = IF d = 0 THEN [i \in D |-> 0] ELSE Shares(nets, d)
  <2>1. DOMAIN nets = D
    BY DEF Nets
  <2>. QED
    BY <2>1 DEF DiscountShares
<1>3. CASE d = 0
  BY <1>2, <1>3
<1>4. CASE d # 0
  <2>1. Shared(D, nets, d) /\ d <= Whole(nets)
    <3>. HIDE DEF D, nets, d
    <3>. QED  BY <1>1, <1>4 DEF Shared, Whole
  <2>2. \A i \in D : Shares(nets, d)[i] \in 0 .. nets[i]
    <3>. HIDE DEF D, nets, d
    <3>. QED  BY <2>1, SharesFacts
  <2>. HIDE DEF D, nets, d
  <2>. QED
    BY <1>1, <1>2, <1>4, <2>2 DEF D
<1>. QED
  BY <1>3, <1>4

\* The lines computed of a draft have the shape of stored lines.
LEMMA ComputedShape ==
  ASSUME NEW input, DraftOK(input), Discountable(input), NEW taxes,
         \A i \in DOMAIN input.lines : taxes[input.lines[i].code] \in TaxCode
  PROVE  Shape(input.kind, Computed(input, taxes))
<1> DEFINE lines == Computed(input, taxes)
           D == DOMAIN input.lines
           line(i) == input.lines[i]
           net(i) == LineNet(line(i)) - DiscountShares(input)[i]
           vat(i) == Vat(Side(input.kind), taxes[line(i).code], net(i),
                         taxes[line(i).code].deductible)
<1>1. D = 1 .. Len(input.lines) /\ Len(input.lines) \in Nat
  BY NetsNat DEF DraftOK
<1>2. lines = [i \in D |-> [account |-> line(i).account, code |-> line(i).code,
                            net |-> net(i), vat |-> vat(i)]]
  BY DEF Computed
<1>3. Side(input.kind) \in Direction
  BY DEF Side, Direction
<1>4. ASSUME NEW i \in D
      PROVE  /\ line(i).account \in Name /\ line(i).code \in Name /\ net(i) \in Int
             /\ taxes[line(i).code] \in TaxCode /\ taxes[line(i).code].deductible \in 0 .. 100
  <2>1. line(i) \in InputLine
    BY <1>1, ElementOfSeq DEF DraftOK
  <2>2. LineNet(line(i)) \in Nat /\ DiscountShares(input)[i] \in Int
    BY <2>1, LineNetNat, SharesInt
  <2>4. STRING \subseteq Name
    BY NameFacts
  <2>3. taxes[line(i).code] \in TaxCode /\ taxes[line(i).code].deductible \in 0 .. 100
    BY DEF TaxCode
  <2>5. line(i).account \in Name /\ line(i).code \in Name
    <3>. HIDE DEF line
    <3>. QED  BY <2>1, <2>4 DEF InputLine
  <2>6. net(i) \in Int
    BY <2>2
  <2>. QED
    BY <2>3, <2>5, <2>6
<1>5. ASSUME NEW i \in D
      PROVE  VatGood(Side(input.kind), taxes[line(i).code], net(i), vat(i))
  <2>1. /\ taxes[line(i).code] \in TaxCode /\ taxes[line(i).code].deductible \in 0 .. 100
        /\ net(i) \in Int /\ Side(input.kind) \in Direction
    BY <1>3, <1>4
  <2>. HIDE DEF net
  <2>. QED
    BY <2>1, VatFacts
<1>. HIDE DEF line, net, vat
<1>6. \A i \in D : /\ lines[i] \in DocLine /\ lines[i].net = net(i) /\ lines[i].vat = vat(i)
                   /\ lines[i].code = line(i).code
  <2>. HIDE DEF lines, D
  <2>1. \A i \in D : lines[i] = [account |-> line(i).account, code |-> line(i).code,
                                 net |-> net(i), vat |-> vat(i)]
    BY <1>2
  <2>2. ASSUME NEW i \in D
        PROVE  /\ lines[i].net = net(i) /\ lines[i].vat = vat(i)
               /\ lines[i].code = line(i).code
    <3> DEFINE row == lines[i]
               v == vat(i)
               n == net(i)
    <3>1. row = [account |-> line(i).account, code |-> line(i).code, net |-> n, vat |-> v]
      BY <2>1
    <3>. HIDE DEF row, v, n
    <3>2. row.net = n /\ row.vat = v /\ row.code = line(i).code
      BY <3>1
    <3>. QED  BY <3>2 DEF row, v, n
  <2>3. ASSUME NEW i \in D
        PROVE  lines[i] \in DocLine
    <3>1. vat(i) \in VatResult /\ net(i) \in Int
      BY <1>4, <1>5 DEF VatGood
    <3>2. line(i).account \in Name /\ line(i).code \in Name
      BY <1>4
    <3> DEFINE row == lines[i]
               v == vat(i)
               n == net(i)
               a == line(i).account
               c == line(i).code
    <3>3. row = [account |-> a, code |-> c, net |-> n, vat |-> v]
      BY <2>1
    <3>4. v \in VatResult /\ n \in Int /\ a \in Name /\ c \in Name
      BY <3>1, <3>2
    <3>. HIDE DEF row, v, n, a, c
    <3>5. row \in DocLine
      BY <3>3, <3>4 DEF DocLine, VatResult
    <3>. QED  BY <3>5 DEF row
  <2>. QED  BY <2>2, <2>3
<1>7. DOMAIN lines = D /\ lines \in Seq(DocLine)
  <2>1. DOMAIN lines = D
    BY <1>2
  <2>2. lines \in [1 .. Len(input.lines) -> DocLine]
    <3>. HIDE DEF D
    <3>. QED  BY <1>1, <1>2, <1>6, <2>1
  <2>. HIDE DEF lines
  <2>. QED
    BY <1>1, <2>1, <2>2, SeqDef
<1>8. \A i, j \in D : lines[i].code = lines[j].code => lines[i].vat.class = lines[j].vat.class
  <2>. HIDE DEF lines, D
  <2>. QED  BY <1>5, <1>6 DEF VatGood
<1>9. ASSUME NEW i \in D
      PROVE  LET v == lines[i].vat
             IN  IF input.kind = "PURCHASE_INVOICE"
                 THEN v.expense + v.legs["INPUT_VAT"] + v.legs["RC_INPUT_VAT"]
                        - v.legs["RC_OUTPUT_VAT"] = lines[i].net + v.tax
                 ELSE v.legs["OUTPUT_VAT"] = v.tax
  <2>. HIDE DEF lines, D
  <2>. QED  BY <1>5, <1>6 DEF Side, VatGood
<1>. HIDE DEF lines
<1>. QED
  BY <1>7, <1>8, <1>9 DEF Shape, lines

(***************************************************************************)
(* What lines say, and the groups of the entries.                          *)
(***************************************************************************)

\* The lines that say something of the legs and classes of Q, and what they say.
Seen(lines, leg, Q) == {i \in DOMAIN lines : <<leg, lines[i].vat.class>> \in Q}
Figures(lines, leg) == [i \in DOMAIN lines |-> Figure(lines[i], leg)]
Told(lines, leg, Q) == SumFunctionOnSet(Figures(lines, leg), Seen(lines, leg, Q))

Lined(lines) ==
  /\ lines \in Seq(DocLine)
  /\ \A i, j \in DOMAIN lines :
       lines[i].code = lines[j].code => lines[i].vat.class = lines[j].vat.class

FigureLeg == Leg \union {"REVENUE", "EXPENSE"}

\* The fields of a stored line.
LEMMA LineFields ==
  ASSUME NEW line \in DocLine
  PROVE  /\ line.account \in Name /\ line.code \in Name /\ line.vat.class \in Name
         /\ line.net \in Int /\ line.vat.tax \in Int /\ line.vat.expense \in Int
         /\ \A leg \in Leg : line.vat.legs[leg] \in Int
         /\ \A leg \in FigureLeg : Figure(line, leg) \in Int
<1> DEFINE v == line.vat
<1>1. /\ line.account \in Name /\ line.code \in Name /\ line.net \in Int /\ v \in VatResult
  BY DEF DocLine, VatResult
<1>. HIDE DEF v
<1>2. v.class \in Name /\ v.tax \in Int /\ v.expense \in Int /\ v.legs \in [Leg -> Int]
  BY <1>1 DEF VatResult
<1>3. \A leg \in Leg : v.legs[leg] \in Int
  BY <1>2
<1>4. \A leg \in FigureLeg : Figure(line, leg) \in Int
  <2>1. \A leg \in FigureLeg :
          Figure(line, leg) = IF leg = "REVENUE" THEN line.net
                              ELSE IF leg = "EXPENSE" THEN v.expense ELSE v.legs[leg]
    BY DEF Figure, v
  <2>. QED
    BY <1>1, <1>2, <1>3, <2>1 DEF FigureLeg
<1>. QED
  BY <1>1, <1>2, <1>3, <1>4 DEF v

\* The positions of the lines.
LEMMA LineFacts ==
  ASSUME NEW lines, Lined(lines)
  PROVE  /\ DOMAIN lines \subseteq Nat /\ IsFiniteSet(DOMAIN lines)
         /\ \A i \in DOMAIN lines : lines[i] \in DocLine
<1>1. lines \in Seq(DocLine)
  BY DEF Lined
<1>2. DOMAIN lines = 1 .. Len(lines) /\ Len(lines) \in Nat
  BY <1>1, LenProperties
<1>3. IsFiniteSet(DOMAIN lines)
  BY <1>2, FS_Interval
<1>4. \A i \in DOMAIN lines : lines[i] \in DocLine
  BY <1>1, <1>2, ElementOfSeq
<1>. QED
  BY <1>2, <1>3, <1>4

\* The first line of a group is one of its lines.
LEMMA FirstIs ==
  ASSUME NEW lines, DOMAIN lines \subseteq Nat, NEW account, NEW key, NEW i \in DOMAIN lines
  PROVE  \E j \in DOMAIN lines :
           /\ FirstOf(lines, account, key, i) = lines[j]
           /\ account[j] = account[i] /\ key[j] = key[i]
<1> DEFINE G == GroupOf(lines, account, key, i)
<1>1. G \subseteq Nat /\ i \in G
  BY DEF GroupOf
<1>2. Min(G) \in G
  <2>. HIDE DEF G
  <2>. QED  BY <1>1, SmallestNat
<1>3. Min(G) \in DOMAIN lines /\ account[Min(G)] = account[i] /\ key[Min(G)] = key[i]
  BY <1>2 DEF GroupOf
<1>. QED
  BY <1>3 DEF FirstOf

\* Journal lines grouped by tax code say of a class what the lines say.
LEMMA GroupedByCode ==
  ASSUME NEW lines, Lined(lines), NEW account \in [DOMAIN lines -> Name], NEW leg \in Name,
         NEW amount \in [DOMAIN lines -> Int]
  PROVE  LET G == Grouped(lines, account, Codes(lines), leg, amount)
         IN  /\ JLines(G) /\ \A x \in G : x.leg = leg
             /\ \A Q : Measure(G, Q) = SumFunctionOnSet(amount, Seen(lines, leg, Q))
<1> DEFINE key == Codes(lines)
           D == DOMAIN lines
<1>1. D \subseteq Nat /\ \A i, j \in D : lines[i].code = lines[j].code
                                           => lines[i].vat.class = lines[j].vat.class
  BY LineFacts DEF Lined
<1>2. DOMAIN key = D /\ \A i \in D : key[i] = lines[i].code
  BY DEF Codes, Each
<1>. HIDE DEF key
<1>3. \A i \in D : /\ FirstOf(lines, account, key, i).code = key[i]
                   /\ FirstOf(lines, account, key, i).vat.class = lines[i].vat.class
  BY <1>1, <1>2, FirstIs
<1>4. Groups(lines, account, key, leg, amount)
  BY <1>2, <1>3 DEF Groups, Lined
<1>5. \A Q : {i \in D : <<leg, GroupClass(lines, account, key, i)>> \in Q} = Seen(lines, leg, Q)
  BY <1>3 DEF GroupClass, Seen
<1>. QED
  BY <1>4, <1>5, GroupedFacts DEF key

\* Journal lines grouped by account alone: where a question is about any class.
LEMMA GroupedByAccount ==
  ASSUME NEW lines, Lined(lines), NEW account \in [DOMAIN lines -> Name], NEW leg \in Name,
         NEW amount \in [DOMAIN lines -> Int], NEW key, DOMAIN key = DOMAIN lines,
         \A i, j \in DOMAIN lines : key[i] = key[j]
  PROVE  LET G == Grouped(lines, account, key, leg, amount)
         IN  /\ JLines(G) /\ \A x \in G : x.leg = leg
             /\ \A Q : (\A c, k \in Name : <<leg, c>> \in Q => <<leg, k>> \in Q) =>
                  Measure(G, Q) = SumFunctionOnSet(amount, Seen(lines, leg, Q))
<1> DEFINE D == DOMAIN lines
<1>1. D \subseteq Nat /\ \A i \in D : lines[i].vat.class \in Name
  BY LineFacts, LineFields
<1>2. \A i \in D : GroupClass(lines, account, key, i) \in Name
  BY <1>1, FirstIs DEF GroupClass
<1>3. Groups(lines, account, key, leg, amount)
  BY DEF Groups, Lined
<1>4. ASSUME NEW Q, \A c, k \in Name : <<leg, c>> \in Q => <<leg, k>> \in Q
      PROVE  {i \in D : <<leg, GroupClass(lines, account, key, i)>> \in Q} = Seen(lines, leg, Q)
  BY <1>1, <1>2, <1>4 DEF Seen
<1>. QED
  BY <1>3, <1>4, GroupedFacts

\* What lines say of a part is an integer.
LEMMA ToldInt ==
  ASSUME NEW lines, Lined(lines), NEW leg \in FigureLeg, NEW Q
  PROVE  /\ IsFiniteSet(Seen(lines, leg, Q)) /\ Seen(lines, leg, Q) \subseteq DOMAIN lines
         /\ \A i \in DOMAIN lines : Figures(lines, leg)[i] = Figure(lines[i], leg)
                                      /\ Figures(lines, leg)[i] \in Int
         /\ Told(lines, leg, Q) \in Int
<1>1. IsFiniteSet(DOMAIN lines) /\ \A i \in DOMAIN lines : lines[i] \in DocLine
  BY LineFacts
<1>2. Seen(lines, leg, Q) \subseteq DOMAIN lines
  BY DEF Seen
<1>3. IsFiniteSet(Seen(lines, leg, Q))
  BY <1>1, <1>2, FS_Subset
<1>4. \A i \in DOMAIN lines : Figures(lines, leg)[i] = Figure(lines[i], leg)
  BY DEF Figures
<1>5. \A i \in DOMAIN lines : Figure(lines[i], leg) \in Int
  BY <1>1, LineFields
<1>6. Told(lines, leg, Q) \in Int
  BY <1>2, <1>3, <1>4, <1>5, SumInt DEF Told
<1>. QED
  BY <1>2, <1>3, <1>4, <1>5, <1>6

\* What is told with a sign.
LEMMA ToldTimes ==
  ASSUME NEW lines, Lined(lines), NEW leg \in FigureLeg, NEW Q, NEW c \in Int,
         NEW amount, \A i \in DOMAIN lines : amount[i] = c * Figure(lines[i], leg)
  PROVE  SumFunctionOnSet(amount, Seen(lines, leg, Q)) = c * Told(lines, leg, Q)
<1> DEFINE f == Figures(lines, leg)
           S == Seen(lines, leg, Q)
<1>1. IsFiniteSet(S) /\ \A i \in S : f[i] \in Int /\ amount[i] = c * f[i]
  BY ToldInt
<1>. HIDE DEF f, S
<1>2. SumFunctionOnSet(amount, S) = c * SumFunctionOnSet(f, S)
  BY <1>1, SumTimes
<1>. QED
  BY <1>2 DEF Told, f, S

\* The revenue and VAT lines of an entry say what the lines of the invoice say.
LEMMA SalesLinesFacts ==
  ASSUME NEW lines, Lined(lines), NEW sign \in {1, -1},
         \A i \in DOMAIN lines : lines[i].vat.legs["OUTPUT_VAT"] = lines[i].vat.tax
  PROVE  /\ JLines(SalesLines(lines, sign))
         /\ \A x \in SalesLines(lines, sign) : x.leg \in {"REVENUE", "OUTPUT_VAT"}
         /\ \A Q : Measure(SalesLines(lines, sign), Q) =
                     - sign * (Told(lines, "REVENUE", Q) + Told(lines, "OUTPUT_VAT", Q))
<1> DEFINE D == DOMAIN lines
           nets == Each(lines, LAMBDA l : -sign * l.net)
           taxes == Each(lines, LAMBDA l : -sign * l.vat.tax)
           vatAccount == Each(lines, LAMBDA l : "VAT payable")
           A == Grouped(lines, Accounts(lines), Codes(lines), "REVENUE", nets)
           B == Grouped(lines, vatAccount, Codes(lines), "OUTPUT_VAT", taxes)
<1>1. \A i \in D : lines[i] \in DocLine
  BY LineFacts
<1>2. /\ nets = [i \in D |-> -sign * lines[i].net]
      /\ taxes = [i \in D |-> -sign * lines[i].vat.tax]
      /\ vatAccount = [i \in D |-> "VAT payable"]
      /\ Accounts(lines) = [i \in D |-> lines[i].account]
  BY DEF Each, Accounts
<1>3. /\ nets \in [D -> Int] /\ taxes \in [D -> Int]
      /\ vatAccount \in [D -> Name] /\ Accounts(lines) \in [D -> Name]
  <2>1. \A i \in D : /\ lines[i].account \in Name /\ lines[i].net \in Int
                     /\ lines[i].vat.tax \in Int
    BY <1>1, LineFields
  <2>2. "VAT payable" \in Name
    BY NameFacts
  <2>. HIDE DEF nets, taxes, vatAccount, D
  <2>3. \A i \in D : -sign * lines[i].net \in Int /\ -sign * lines[i].vat.tax \in Int
    BY <2>1
  <2>4. nets \in [D -> Int] /\ taxes \in [D -> Int]
    BY <1>2, <2>3
  <2>5. vatAccount \in [D -> Name]
    BY <1>2, <2>2
  <2>6. Accounts(lines) \in [D -> Name]
    BY <1>2, <2>1
  <2>. QED
    BY <2>4, <2>5, <2>6
<1>4. /\ \A i \in D : nets[i] = (-sign) * Figure(lines[i], "REVENUE")
      /\ \A i \in D : taxes[i] = (-sign) * Figure(lines[i], "OUTPUT_VAT")
  <2>1. \A i \in D : /\ Figure(lines[i], "REVENUE") = lines[i].net
                     /\ Figure(lines[i], "OUTPUT_VAT") = lines[i].vat.tax
    BY DEF Figure
  <2>. HIDE DEF nets, taxes, vatAccount, D
  <2>2. \A i \in D : nets[i] = -sign * lines[i].net /\ taxes[i] = -sign * lines[i].vat.tax
    BY <1>2
  <2>3. ASSUME NEW i \in D
        PROVE  /\ nets[i] = (-sign) * Figure(lines[i], "REVENUE")
               /\ taxes[i] = (-sign) * Figure(lines[i], "OUTPUT_VAT")
    <3> DEFINE n == lines[i].net
               t == lines[i].vat.tax
    <3>1. n \in Int /\ t \in Int
      BY <1>1, LineFields DEF D
    <3>2. /\ nets[i] = -sign * n /\ taxes[i] = -sign * t
          /\ Figure(lines[i], "REVENUE") = n /\ Figure(lines[i], "OUTPUT_VAT") = t
      BY <2>1, <2>2
    <3>. HIDE DEF n, t
    <3>3. -sign * n = (-sign) * n /\ -sign * t = (-sign) * t
      <4>1. CASE sign = 1
        BY <3>1, <4>1
      <4>2. CASE sign = -1
        BY <3>1, <4>2
      <4>. QED  BY <4>1, <4>2
    <3>. QED
      BY <3>2, <3>3
  <2>. QED
    BY <2>3 DEF D
<1>5. {"REVENUE", "OUTPUT_VAT"} \subseteq Name /\ {"REVENUE", "OUTPUT_VAT"} \subseteq FigureLeg
  BY NameFacts DEF FigureLeg, Leg
<1>. HIDE DEF nets, taxes, vatAccount
<1>6. /\ JLines(A) /\ \A x \in A : x.leg = "REVENUE"
      /\ \A Q : Measure(A, Q) = SumFunctionOnSet(nets, Seen(lines, "REVENUE", Q))
  BY <1>3, <1>5, GroupedByCode
<1>7. /\ JLines(B) /\ \A x \in B : x.leg = "OUTPUT_VAT"
      /\ \A Q : Measure(B, Q) = SumFunctionOnSet(taxes, Seen(lines, "OUTPUT_VAT", Q))
  BY <1>3, <1>5, GroupedByCode
<1>8. SalesLines(lines, sign) = NotNothing(A \union B)
  BY DEF SalesLines, nets, taxes, vatAccount
<1>. HIDE DEF A, B
<1>9. A \cap B = {}
  BY <1>6, <1>7
<1>10. JLines(A \union B) /\ \A Q : Measure(A \union B, Q) = Measure(A, Q) + Measure(B, Q)
  BY <1>6, <1>7, <1>9, MeasureUnion
<1>11. /\ JLines(SalesLines(lines, sign)) /\ SalesLines(lines, sign) \subseteq A \union B
       /\ \A Q : Measure(SalesLines(lines, sign), Q) = Measure(A, Q) + Measure(B, Q)
  <2> DEFINE U == A \union B
  <2>1. /\ JLines(NotNothing(U)) /\ NotNothing(U) \subseteq U
        /\ \A Q : Measure(NotNothing(U), Q) = Measure(U, Q)
    <3>. HIDE DEF U
    <3>. QED  BY <1>10, MeasureKept DEF U
  <2>. QED
    BY <1>8, <1>10, <2>1
<1>12. ASSUME NEW Q
       PROVE  /\ Measure(A, Q) = (-sign) * Told(lines, "REVENUE", Q)
              /\ Measure(B, Q) = (-sign) * Told(lines, "OUTPUT_VAT", Q)
              /\ Told(lines, "REVENUE", Q) \in Int /\ Told(lines, "OUTPUT_VAT", Q) \in Int
  <2>1. -sign \in Int
    OBVIOUS
  <2>2. SumFunctionOnSet(nets, Seen(lines, "REVENUE", Q)) = (-sign) * Told(lines, "REVENUE", Q)
    BY <1>4, <1>5, <2>1, ToldTimes
  <2>3. SumFunctionOnSet(taxes, Seen(lines, "OUTPUT_VAT", Q))
          = (-sign) * Told(lines, "OUTPUT_VAT", Q)
    BY <1>4, <1>5, <2>1, ToldTimes
  <2>4. Told(lines, "REVENUE", Q) \in Int /\ Told(lines, "OUTPUT_VAT", Q) \in Int
    BY <1>5, ToldInt
  <2>. QED
    BY <1>6, <1>7, <2>2, <2>3, <2>4
<1>13. ASSUME NEW Q
       PROVE  Measure(SalesLines(lines, sign), Q) =
                - sign * (Told(lines, "REVENUE", Q) + Told(lines, "OUTPUT_VAT", Q))
  <2> DEFINE r == Told(lines, "REVENUE", Q)
             o == Told(lines, "OUTPUT_VAT", Q)
  <2>1. r \in Int /\ o \in Int /\ Measure(SalesLines(lines, sign), Q) = (-sign) * r + (-sign) * o
    BY <1>11, <1>12
  <2>. HIDE DEF r, o
  <2>2. CASE sign = 1
    BY <2>1, <2>2 DEF r, o
  <2>3. CASE sign = -1
    BY <2>1, <2>3 DEF r, o
  <2>. QED
    BY <2>2, <2>3
<1>. QED
  BY <1>6, <1>7, <1>11, <1>13

(***************************************************************************)
(* The entries of sales.                                                   *)
(***************************************************************************)

Outputs(lines) ==
  \A i \in DOMAIN lines : lines[i].vat.legs["OUTPUT_VAT"] = lines[i].vat.tax

Whether(Q) == IF <<"NONE", "NONE">> \in Q THEN 1 ELSE 0

\* The total, the nets and the taxes are what the lines say of everything.
LEMMA TotalFacts ==
  ASSUME NEW lines, Lined(lines)
  PROVE  /\ TotalOf(lines) \in Int
         /\ NetTotal(lines) = Told(lines, "REVENUE", All)
         /\ Outputs(lines) => TaxTotal(lines) = Told(lines, "OUTPUT_VAT", All)
         /\ NetTotal(lines) \in Int /\ TaxTotal(lines) \in Int
         /\ \A leg \in FigureLeg : Seen(lines, leg, All) = DOMAIN lines
<1> DEFINE D == DOMAIN lines
           n == [i \in D |-> lines[i].net]
           t == [i \in D |-> lines[i].vat.tax]
<1>1. IsFiniteSet(D) /\ \A i \in D : lines[i] \in DocLine
  BY LineFacts
<1>2. \A i \in D : lines[i].vat.class \in Name /\ lines[i].net \in Int /\ lines[i].vat.tax \in Int
  BY <1>1, LineFields
<1>3. \A leg \in FigureLeg : leg \in Name
  BY NameFacts DEF FigureLeg
<1>4. \A leg \in FigureLeg : Seen(lines, leg, All) = D
  BY <1>2, <1>3 DEF Seen, All
<1>5. {"REVENUE", "OUTPUT_VAT"} \subseteq FigureLeg
  BY DEF FigureLeg, Leg
<1>6. /\ \A i \in D : n[i] = Figure(lines[i], "REVENUE") /\ n[i] \in Int /\ t[i] \in Int
      /\ \A i \in D : t[i] = lines[i].vat.tax
      /\ \A i \in D : Figure(lines[i], "OUTPUT_VAT") = lines[i].vat.legs["OUTPUT_VAT"]
  BY <1>2 DEF Figure
<1>7. NetTotal(lines) = SumFunctionOnSet(n, D) /\ TaxTotal(lines) = SumFunctionOnSet(t, D)
  BY DEF NetTotal, TaxTotal, SumFunction
<1>. HIDE DEF n, t
<1>8. NetTotal(lines) = Told(lines, "REVENUE", All)
  <2>1. SumFunctionOnSet(n, D) = SumFunctionOnSet(Figures(lines, "REVENUE"), D)
    <3>1. \A i \in D : n[i] = Figures(lines, "REVENUE")[i]
      BY <1>6 DEF Figures
    <3>. HIDE DEF D
    <3>. QED  BY <1>1, <3>1, SumSame
  <2>. QED
    BY <1>4, <1>5, <1>7, <2>1 DEF Told
<1>9. ASSUME Outputs(lines) PROVE TaxTotal(lines) = Told(lines, "OUTPUT_VAT", All)
  <2>1. SumFunctionOnSet(t, D) = SumFunctionOnSet(Figures(lines, "OUTPUT_VAT"), D)
    <3>1. \A i \in D : t[i] = Figures(lines, "OUTPUT_VAT")[i]
      BY <1>6, <1>9 DEF Figures, Outputs
    <3>. HIDE DEF D
    <3>. QED  BY <1>1, <3>1, SumSame
  <2>. QED
    BY <1>4, <1>5, <1>7, <2>1 DEF Told
<1>10. NetTotal(lines) \in Int /\ TaxTotal(lines) \in Int
  <2>. HIDE DEF D
  <2>. QED  BY <1>1, <1>6, <1>7, SumInt
<1>. QED
  BY <1>4, <1>8, <1>9, <1>10 DEF TotalOf

\* A journal line without a tax code.
LEMMA PlainFacts ==
  ASSUME NEW account \in Name, NEW amount \in Int
  PROVE  /\ Plain(account, amount) \in JLine
         /\ Plain(account, amount).leg = "NONE" /\ Plain(account, amount).account = account
         /\ JLines({Plain(account, amount)})
         /\ \A Q : Measure({Plain(account, amount)}, Q) = Whether(Q) * amount
<1> DEFINE p == Plain(account, amount)
<1>1. "NONE" \in Name
  BY NameFacts
<1>2. p = [account |-> account, code |-> "NONE", leg |-> "NONE", class |-> "NONE",
           amount |-> amount]
  BY DEF Plain, JournalLine
<1>. HIDE DEF p
<1>3. /\ p \in JLine /\ p.leg = "NONE" /\ p.class = "NONE" /\ p.account = account
      /\ p.amount = amount
  BY <1>1, <1>2 DEF JLine
<1>4. ASSUME NEW Q PROVE Measure({p}, Q) = Whether(Q) * amount
  <2>1. Measure({p}, Q) = IF <<"NONE", "NONE">> \in Q THEN amount ELSE 0
    BY <1>3, MeasureOne
  <2>. QED
    BY <2>1 DEF Whether
<1>5. JLines({p})
  BY <1>3, MeasureOne
<1>. QED
  BY <1>3, <1>4, <1>5 DEF p

\* Two journal lines on two accounts say their sum.
LEMMA PairFacts ==
  ASSUME NEW a \in Name, NEW b \in Name, a # b, NEW x \in Int, NEW y \in Int
  PROVE  LET E == {Plain(a, x), Plain(b, y)}
         IN  /\ JLines(E) /\ \A l \in E : l.leg = "NONE"
             /\ \A Q : Measure(E, Q) = Whether(Q) * (x + y)
<1> DEFINE p == Plain(a, x)
           q == Plain(b, y)
<1>1. /\ JLines({p}) /\ JLines({q}) /\ p # q /\ p.leg = "NONE" /\ q.leg = "NONE"
      /\ \A Q : Measure({p}, Q) = Whether(Q) * x
      /\ \A Q : Measure({q}, Q) = Whether(Q) * y
  <2>1. /\ p.leg = "NONE" /\ p.account = a /\ JLines({p})
        /\ \A Q : Measure({p}, Q) = Whether(Q) * x
    BY PlainFacts
  <2>2. /\ q.leg = "NONE" /\ q.account = b /\ JLines({q})
        /\ \A Q : Measure({q}, Q) = Whether(Q) * y
    BY PlainFacts
  <2>. HIDE DEF p, q
  <2>. QED
    BY <2>1, <2>2
<1>. HIDE DEF p, q
<1>2. {p, q} = {p} \union {q} /\ {p} \cap {q} = {}
  BY <1>1
<1>3. JLines({p, q}) /\ \A Q : Measure({p, q}, Q) = Measure({p}, Q) + Measure({q}, Q)
  <2> DEFINE A == {p}
             B == {q}
  <2>1. JLines(A) /\ JLines(B) /\ A \cap B = {}
    BY <1>1, <1>2
  <2>2. JLines(A \union B) /\ \A Q : Measure(A \union B, Q) = Measure(A, Q) + Measure(B, Q)
    <3>. HIDE DEF A, B
    <3>. QED  BY <2>1, MeasureUnion
  <2>. QED
    BY <1>2, <2>2
<1>4. ASSUME NEW Q PROVE Measure({p, q}, Q) = Whether(Q) * (x + y)
  <2>1. Measure({p, q}, Q) = Whether(Q) * x + Whether(Q) * y
    BY <1>1, <1>3
  <2>2. CASE Whether(Q) = 0
    BY <2>1, <2>2
  <2>3. CASE Whether(Q) = 1
    BY <2>1, <2>3
  <2>. QED
    BY <2>2, <2>3 DEF Whether
<1>5. \A l \in {p, q} : l.leg = "NONE"
  BY <1>1
<1>. QED
  BY <1>3, <1>4, <1>5 DEF p, q

\* The entry of an invoice takes revenue and VAT of receivables and advances.
LEMMA InvoiceEntryFacts ==
  ASSUME NEW lines, Lined(lines), Outputs(lines), NEW used \in Int
  PROVE  /\ JLines(InvoiceEntry(lines, used))
         /\ \A Q : Measure(InvoiceEntry(lines, used), Q) =
              Whether(Q) * TotalOf(lines)
                - (Told(lines, "REVENUE", Q) + Told(lines, "OUTPUT_VAT", Q))
<1> DEFINE T == TotalOf(lines)
           P == {Plain("Receivables", T - used), Plain("Advances received", used)}
           S == SalesLines(lines, 1)
<1>1. T \in Int
  BY TotalFacts
<1>2. /\ JLines(P) /\ \A l \in P : l.leg = "NONE"
      /\ \A Q : Measure(P, Q) = Whether(Q) * (T - used + used)
  <2>1. {"Receivables", "Advances received"} \subseteq Name
    BY NameFacts
  <2>2. T - used \in Int
    BY <1>1
  <2>. HIDE DEF T
  <2>. QED
    BY <2>1, <2>2, PairFacts
<1>3. T - used + used = T
  BY <1>1
<1>4. /\ JLines(S) /\ \A x \in S : x.leg \in {"REVENUE", "OUTPUT_VAT"}
      /\ \A Q : Measure(S, Q) = - 1 * (Told(lines, "REVENUE", Q) + Told(lines, "OUTPUT_VAT", Q))
  BY SalesLinesFacts DEF Outputs
<1>5. InvoiceEntry(lines, used) = NotNothing(P) \union S
  BY DEF InvoiceEntry
<1>. HIDE DEF T, P, S
<1>6. /\ JLines(NotNothing(P)) /\ NotNothing(P) \subseteq P
      /\ \A Q : Measure(NotNothing(P), Q) = Measure(P, Q)
  BY <1>2, MeasureKept
<1>7. NotNothing(P) \cap S = {}
  BY <1>2, <1>4, <1>6
<1>8. /\ JLines(NotNothing(P) \union S)
      /\ \A Q : Measure(NotNothing(P) \union S, Q) = Measure(NotNothing(P), Q) + Measure(S, Q)
  BY <1>4, <1>6, <1>7, MeasureUnion
<1>9. ASSUME NEW Q
      PROVE  Measure(InvoiceEntry(lines, used), Q) =
               Whether(Q) * T - (Told(lines, "REVENUE", Q) + Told(lines, "OUTPUT_VAT", Q))
  <2> DEFINE r == Told(lines, "REVENUE", Q)
             o == Told(lines, "OUTPUT_VAT", Q)
  <2>1. r \in Int /\ o \in Int
    BY ToldInt DEF FigureLeg, Leg
  <2>2. Measure(InvoiceEntry(lines, used), Q) = Whether(Q) * T + (- 1 * (r + o))
    BY <1>2, <1>3, <1>4, <1>5, <1>6, <1>8
  <2>3. Whether(Q) * T \in Int
    BY <1>1 DEF Whether
  <2>. HIDE DEF r, o
  <2>4. Whether(Q) * T + (- 1 * (r + o)) = Whether(Q) * T - (r + o)
    BY <2>1, <2>3
  <2>. QED
    BY <2>2, <2>4 DEF r, o
<1>. QED
  BY <1>5, <1>8, <1>9 DEF T

\* The entry of an advance invoice moves its total and says nothing else.
LEMMA AdvanceEntryFacts ==
  ASSUME NEW lines, Lined(lines)
  PROVE  JLines(AdvanceEntry(lines)) /\ \A Q : Measure(AdvanceEntry(lines), Q) = 0
<1> DEFINE T == TotalOf(lines)
<1>1. T \in Int /\ -T \in Int /\ T + (-T) = 0
  BY TotalFacts
<1>2. {"Receivables", "Advances received"} \subseteq Name
  BY NameFacts
<1>3. AdvanceEntry(lines) = {Plain("Receivables", T), Plain("Advances received", -T)}
  BY DEF AdvanceEntry
<1>. HIDE DEF T
<1>4. /\ JLines(AdvanceEntry(lines))
      /\ \A Q : Measure(AdvanceEntry(lines), Q) = Whether(Q) * (T + (-T))
  <2> DEFINE m == -T
             E == {Plain("Receivables", T), Plain("Advances received", m)}
  <2>1. m \in Int /\ "Receivables" # "Advances received"
    BY <1>1
  <2>2. JLines(E) /\ \A Q : Measure(E, Q) = Whether(Q) * (T + m)
    <3>. HIDE DEF m
    <3>. QED  BY <1>1, <1>2, <2>1, PairFacts
  <2>. QED
    BY <1>3, <2>2
<1>5. ASSUME NEW Q PROVE Whether(Q) * (T + (-T)) = 0
  <2>1. Whether(Q) \in Int
    BY DEF Whether
  <2>2. Whether(Q) * 0 = 0
    BY <2>1
  <2>. QED
    BY <1>1, <2>2
<1>. QED
  BY <1>4, <1>5

\* The entry of a credit note takes revenue and VAT back.
LEMMA NoteEntryFacts ==
  ASSUME NEW lines, Lined(lines), Outputs(lines)
  PROVE  /\ JLines(NoteEntry(lines))
         /\ \A Q : Measure(NoteEntry(lines), Q) =
              Told(lines, "REVENUE", Q) + Told(lines, "OUTPUT_VAT", Q)
                - Whether(Q) * TotalOf(lines)
<1> DEFINE T == TotalOf(lines)
           P == {Plain("Receivables", -T)}
           S == SalesLines(lines, -1)
<1>1. T \in Int /\ -T \in Int
  BY TotalFacts
<1>2. /\ JLines(P) /\ \A l \in P : l.leg = "NONE"
      /\ \A Q : Measure(P, Q) = Whether(Q) * (-T)
  <2>1. "Receivables" \in Name
    BY NameFacts
  <2>. HIDE DEF T
  <2>. QED
    BY <1>1, <2>1, PlainFacts
<1>4. /\ JLines(S) /\ \A x \in S : x.leg \in {"REVENUE", "OUTPUT_VAT"}
      /\ \A Q : Measure(S, Q) = - (-1) * (Told(lines, "REVENUE", Q) + Told(lines, "OUTPUT_VAT", Q))
  BY SalesLinesFacts DEF Outputs
<1>5. NoteEntry(lines) = P \union S
  BY DEF NoteEntry
<1>. HIDE DEF T, P, S
<1>7. P \cap S = {}
  BY <1>2, <1>4
<1>8. /\ JLines(P \union S)
      /\ \A Q : Measure(P \union S, Q) = Measure(P, Q) + Measure(S, Q)
  BY <1>2, <1>4, <1>7, MeasureUnion
<1>9. ASSUME NEW Q
      PROVE  Measure(NoteEntry(lines), Q) =
               Told(lines, "REVENUE", Q) + Told(lines, "OUTPUT_VAT", Q) - Whether(Q) * T
  <2> DEFINE r == Told(lines, "REVENUE", Q)
             o == Told(lines, "OUTPUT_VAT", Q)
  <2>1. r \in Int /\ o \in Int
    BY ToldInt DEF FigureLeg, Leg
  <2>2. Measure(NoteEntry(lines), Q) = Whether(Q) * (-T) + (- (-1) * (r + o))
    BY <1>2, <1>4, <1>5, <1>8
  <2>. HIDE DEF r, o
  <2>3. Whether(Q) * (-T) + (- (-1) * (r + o)) = r + o - Whether(Q) * T
    <3>1. Whether(Q) \in {0, 1}
      BY DEF Whether
    <3>. QED
      BY <1>1, <2>1, <3>1
  <2>. QED
    BY <2>2, <2>3 DEF r, o
<1>. QED
  BY <1>5, <1>8, <1>9 DEF T

(***************************************************************************)
(* The entries of purchases.                                               *)
(***************************************************************************)

LegLines(lines, leg, account, sign) ==
  NotNothing(Grouped(lines, Each(lines, LAMBDA l : account), Codes(lines), leg,
                     Each(lines, LAMBDA l : sign * l.vat.legs[leg])))

\* The journal lines of a VAT leg say what the lines say of that leg.
LEMMA LegLinesFacts ==
  ASSUME NEW lines, Lined(lines), NEW leg \in Leg, NEW account \in Name, NEW sign \in {1, -1}
  PROVE  /\ JLines(LegLines(lines, leg, account, sign))
         /\ \A x \in LegLines(lines, leg, account, sign) : x.leg = leg
         /\ \A Q : Measure(LegLines(lines, leg, account, sign), Q) = sign * Told(lines, leg, Q)
<1> DEFINE D == DOMAIN lines
           accounts == Each(lines, LAMBDA l : account)
           amounts == Each(lines, LAMBDA l : sign * l.vat.legs[leg])
           G == Grouped(lines, accounts, Codes(lines), leg, amounts)
<1>1. accounts = [i \in D |-> account] /\ amounts = [i \in D |-> sign * lines[i].vat.legs[leg]]
  BY DEF Each
<1>2. \A i \in D : lines[i].vat.legs[leg] \in Int
  BY LineFacts, LineFields
<1>3. leg \in FigureLeg /\ leg \in Name
  BY NameFacts DEF FigureLeg
<1>4. LegLines(lines, leg, account, sign) = NotNothing(G)
  BY DEF LegLines
<1>. HIDE DEF accounts, amounts
<1>5. accounts \in [D -> Name] /\ amounts \in [D -> Int]
  <2>1. accounts \in [D -> Name]
    BY <1>1
  <2>2. \A i \in D : sign * lines[i].vat.legs[leg] \in Int
    BY <1>2
  <2>. HIDE DEF D
  <2>3. amounts \in [D -> Int]
    BY <1>1, <2>2
  <2>. QED
    BY <2>1, <2>3
<1>6. \A i \in D : amounts[i] = sign * Figure(lines[i], leg)
  <2>1. leg # "REVENUE" /\ leg # "EXPENSE"
    BY DEF Leg
  <2>2. \A i \in D : Figure(lines[i], leg) = lines[i].vat.legs[leg]
    BY <2>1 DEF Figure
  <2>. QED
    BY <1>1, <2>2
<1>7. /\ JLines(G) /\ \A x \in G : x.leg = leg
      /\ \A Q : Measure(G, Q) = SumFunctionOnSet(amounts, Seen(lines, leg, Q))
  BY <1>3, <1>5, GroupedByCode
<1>. HIDE DEF G
<1>8. /\ JLines(NotNothing(G)) /\ NotNothing(G) \subseteq G
      /\ \A Q : Measure(NotNothing(G), Q) = Measure(G, Q)
  BY <1>7, MeasureKept
<1>9. \A Q : SumFunctionOnSet(amounts, Seen(lines, leg, Q)) = sign * Told(lines, leg, Q)
  <2>1. sign \in Int
    OBVIOUS
  <2>. QED
    BY <1>3, <1>6, <2>1, ToldTimes
<1>. QED
  BY <1>4, <1>7, <1>8, <1>9

ExpenseLines(lines) ==
  Grouped(lines, Accounts(lines), Each(lines, LAMBDA l : "any"), "EXPENSE",
          Each(lines, LAMBDA l : l.vat.expense))

\* A question about expenses of any class.
Blind(Q) == \A c, k \in Name : <<"EXPENSE", c>> \in Q => <<"EXPENSE", k>> \in Q

\* The expenses say what the lines say, but for the tax code, which they ignore.
LEMMA ExpenseLinesFacts ==
  ASSUME NEW lines, Lined(lines)
  PROVE  /\ JLines(ExpenseLines(lines))
         /\ \A x \in ExpenseLines(lines) : x.leg = "EXPENSE"
         /\ \A Q : Blind(Q) => Measure(ExpenseLines(lines), Q) = Told(lines, "EXPENSE", Q)
<1> DEFINE D == DOMAIN lines
           accounts == Accounts(lines)
           key == Each(lines, LAMBDA l : "any")
           amounts == Each(lines, LAMBDA l : l.vat.expense)
<1>1. /\ accounts = [i \in D |-> lines[i].account] /\ key = [i \in D |-> "any"]
      /\ amounts = [i \in D |-> lines[i].vat.expense]
  BY DEF Each, Accounts
<1>2. \A i \in D : lines[i].vat.expense \in Int /\ lines[i].account \in Name
  BY LineFacts, LineFields
<1>3. "EXPENSE" \in FigureLeg /\ "EXPENSE" \in Name
  BY NameFacts DEF FigureLeg
<1>4. ExpenseLines(lines) = Grouped(lines, accounts, key, "EXPENSE", amounts)
  BY DEF ExpenseLines
<1>. HIDE DEF accounts, amounts, key
<1>5. accounts \in [D -> Name] /\ amounts \in [D -> Int] /\ DOMAIN key = D
      /\ \A i, j \in D : key[i] = key[j]
  <2>1. DOMAIN key = D /\ \A i, j \in D : key[i] = key[j]
    BY <1>1
  <2>. HIDE DEF D
  <2>2. accounts \in [D -> Name]
    BY <1>1, <1>2
  <2>3. amounts \in [D -> Int]
    BY <1>1, <1>2
  <2>. QED
    BY <2>1, <2>2, <2>3
<1>6. \A i \in D : amounts[i] = Figures(lines, "EXPENSE")[i]
  <2>1. \A i \in D : Figure(lines[i], "EXPENSE") = lines[i].vat.expense
    BY DEF Figure
  <2>2. \A i \in D : Figures(lines, "EXPENSE")[i] = Figure(lines[i], "EXPENSE")
    BY DEF Figures
  <2>. QED
    BY <1>1, <2>1, <2>2
<1> DEFINE G == Grouped(lines, accounts, key, "EXPENSE", amounts)
<1>7. /\ JLines(G) /\ \A x \in G : x.leg = "EXPENSE"
      /\ \A Q : (\A c, k \in Name : <<"EXPENSE", c>> \in Q => <<"EXPENSE", k>> \in Q) =>
           Measure(G, Q) = SumFunctionOnSet(amounts, Seen(lines, "EXPENSE", Q))
  BY <1>3, <1>5, GroupedByAccount
<1>8. ASSUME NEW Q
      PROVE  SumFunctionOnSet(amounts, Seen(lines, "EXPENSE", Q)) = Told(lines, "EXPENSE", Q)
  <2> DEFINE S == Seen(lines, "EXPENSE", Q)
             f == Figures(lines, "EXPENSE")
  <2>1. IsFiniteSet(S) /\ \A i \in S : amounts[i] = f[i]
    BY <1>3, <1>6, ToldInt
  <2>. HIDE DEF S, f
  <2>2. SumFunctionOnSet(amounts, S) = SumFunctionOnSet(f, S)
    BY <2>1, SumSame
  <2>. QED
    BY <2>2 DEF Told, S, f
<1>. HIDE DEF G
<1>. QED
  BY <1>4, <1>7, <1>8 DEF Blind, G

\* A union of lines of different legs.
LEMMA MeasureApart ==
  ASSUME NEW A, JLines(A), NEW B, JLines(B), \A x \in A : \A y \in B : x.leg # y.leg
  PROVE  JLines(A \union B) /\ \A Q : Measure(A \union B, Q) = Measure(A, Q) + Measure(B, Q)
<1>1. A \cap B = {}
  OBVIOUS
<1>. QED
  BY <1>1, MeasureUnion

\* The entry of a purchase, of a part that does not tell expenses apart.
LEMMA PurchaseEntryFacts ==
  ASSUME NEW lines, Lined(lines)
  PROVE  /\ JLines(PurchaseEntry(lines))
         /\ \A Q : Blind(Q) => Measure(PurchaseEntry(lines), Q) =
              Told(lines, "EXPENSE", Q) + Told(lines, "INPUT_VAT", Q)
                + Told(lines, "RC_INPUT_VAT", Q) - Told(lines, "RC_OUTPUT_VAT", Q)
                - Whether(Q) * TotalOf(lines)
<1> DEFINE T == TotalOf(lines)
           m == -T
           A == ExpenseLines(lines)
           B == LegLines(lines, "INPUT_VAT", "Input VAT", 1)
           C == LegLines(lines, "RC_INPUT_VAT", "Reverse charge input", 1)
           D == LegLines(lines, "RC_OUTPUT_VAT", "Reverse charge output", -1)
           P == {Plain("Payables", m)}
<1>1. T \in Int /\ m \in Int
  BY TotalFacts
<1>2. PurchaseEntry(lines) = A \union B \union C \union D \union P
  BY DEF PurchaseEntry, ExpenseLines, LegLines
<1>3. /\ JLines(A) /\ \A x \in A : x.leg = "EXPENSE"
      /\ \A Q : Blind(Q) => Measure(A, Q) = Told(lines, "EXPENSE", Q)
  BY ExpenseLinesFacts
<1>4. {"INPUT_VAT", "RC_INPUT_VAT", "RC_OUTPUT_VAT"} \subseteq Leg
      /\ {"Input VAT", "Reverse charge input", "Reverse charge output", "Payables"} \subseteq Name
  BY NameFacts DEF Leg
<1>5. /\ JLines(B) /\ \A x \in B : x.leg = "INPUT_VAT"
      /\ \A Q : Measure(B, Q) = 1 * Told(lines, "INPUT_VAT", Q)
  BY <1>4, LegLinesFacts
<1>6. /\ JLines(C) /\ \A x \in C : x.leg = "RC_INPUT_VAT"
      /\ \A Q : Measure(C, Q) = 1 * Told(lines, "RC_INPUT_VAT", Q)
  <2>1. "RC_INPUT_VAT" \in Leg /\ "Reverse charge input" \in Name /\ 1 \in {1, -1}
    BY <1>4
  <2>. QED
    BY <2>1, LegLinesFacts
<1>7. /\ JLines(D) /\ \A x \in D : x.leg = "RC_OUTPUT_VAT"
      /\ \A Q : Measure(D, Q) = (-1) * Told(lines, "RC_OUTPUT_VAT", Q)
  <2> DEFINE s == -1
  <2>1. s \in {1, -1} /\ "RC_OUTPUT_VAT" \in Leg /\ "Reverse charge output" \in Name
    BY <1>4
  <2>2. /\ JLines(LegLines(lines, "RC_OUTPUT_VAT", "Reverse charge output", s))
        /\ \A x \in LegLines(lines, "RC_OUTPUT_VAT", "Reverse charge output", s) :
             x.leg = "RC_OUTPUT_VAT"
        /\ \A Q : Measure(LegLines(lines, "RC_OUTPUT_VAT", "Reverse charge output", s), Q)
                     = s * Told(lines, "RC_OUTPUT_VAT", Q)
    <3>. HIDE DEF s
    <3>. QED  BY <2>1, LegLinesFacts
  <2>. QED
    BY <2>2
<1>8. /\ JLines(P) /\ \A x \in P : x.leg = "NONE"
      /\ \A Q : Measure(P, Q) = Whether(Q) * m
  <2>1. "Payables" \in Name
    BY <1>4
  <2>. HIDE DEF m
  <2>2. /\ Plain("Payables", m).leg = "NONE" /\ JLines({Plain("Payables", m)})
        /\ \A Q : Measure({Plain("Payables", m)}, Q) = Whether(Q) * m
    BY <1>1, <2>1, PlainFacts
  <2>. QED
    BY <2>2
<1>9. \A Q : /\ Told(lines, "EXPENSE", Q) \in Int /\ Told(lines, "INPUT_VAT", Q) \in Int
             /\ Told(lines, "RC_INPUT_VAT", Q) \in Int /\ Told(lines, "RC_OUTPUT_VAT", Q) \in Int
  BY <1>4, ToldInt DEF FigureLeg
<1>. HIDE DEF A, B, C, D, P, T
<1>10. JLines(A \union B) /\ \A Q : Measure(A \union B, Q) = Measure(A, Q) + Measure(B, Q)
  BY <1>3, <1>5, MeasureApart
<1>11. /\ JLines(A \union B \union C)
       /\ \A Q : Measure(A \union B \union C, Q) = Measure(A \union B, Q) + Measure(C, Q)
  <2> DEFINE U == A \union B
  <2>1. JLines(U) /\ \A x \in U : \A y \in C : x.leg # y.leg
    BY <1>3, <1>5, <1>6, <1>10
  <2>. HIDE DEF U
  <2>2. JLines(U \union C) /\ \A Q : Measure(U \union C, Q) = Measure(U, Q) + Measure(C, Q)
    BY <1>6, <2>1, MeasureApart
  <2>. QED
    BY <2>2 DEF U
<1>12. /\ JLines(A \union B \union C \union D)
       /\ \A Q : Measure(A \union B \union C \union D, Q)
                   = Measure(A \union B \union C, Q) + Measure(D, Q)
  <2> DEFINE U == A \union B \union C
  <2>1. JLines(U) /\ \A x \in U : \A y \in D : x.leg # y.leg
    BY <1>3, <1>5, <1>6, <1>7, <1>11
  <2>. HIDE DEF U
  <2>2. JLines(U \union D) /\ \A Q : Measure(U \union D, Q) = Measure(U, Q) + Measure(D, Q)
    BY <1>7, <2>1, MeasureApart
  <2>. QED
    BY <2>2 DEF U
<1>13. /\ JLines(A \union B \union C \union D \union P)
       /\ \A Q : Measure(A \union B \union C \union D \union P, Q)
                   = Measure(A \union B \union C \union D, Q) + Measure(P, Q)
  <2> DEFINE U == A \union B \union C \union D
  <2>1. JLines(U) /\ \A x \in U : \A y \in P : x.leg # y.leg
    BY <1>3, <1>5, <1>6, <1>7, <1>8, <1>12
  <2>. HIDE DEF U
  <2>2. JLines(U \union P) /\ \A Q : Measure(U \union P, Q) = Measure(U, Q) + Measure(P, Q)
    BY <1>8, <2>1, MeasureApart
  <2>. QED
    BY <2>2 DEF U
<1>14. ASSUME NEW Q, Blind(Q)
       PROVE  Measure(PurchaseEntry(lines), Q) =
                Told(lines, "EXPENSE", Q) + Told(lines, "INPUT_VAT", Q)
                  + Told(lines, "RC_INPUT_VAT", Q) - Told(lines, "RC_OUTPUT_VAT", Q)
                  - Whether(Q) * T
  <2> DEFINE e == Told(lines, "EXPENSE", Q)
             i == Told(lines, "INPUT_VAT", Q)
             ri == Told(lines, "RC_INPUT_VAT", Q)
             ro == Told(lines, "RC_OUTPUT_VAT", Q)
  <2>1. Measure(PurchaseEntry(lines), Q) = e + 1 * i + 1 * ri + (-1) * ro + Whether(Q) * m
    <3> DEFINE whole == A \union B \union C \union D \union P
               four == A \union B \union C \union D
               three == A \union B \union C
               two == A \union B
    <3>1. /\ Measure(A, Q) = e /\ Measure(B, Q) = 1 * i /\ Measure(C, Q) = 1 * ri
          /\ Measure(D, Q) = (-1) * ro /\ Measure(P, Q) = Whether(Q) * m
      BY <1>3, <1>5, <1>6, <1>7, <1>8, <1>14
    <3>2. /\ Measure(whole, Q) = Measure(four, Q) + Measure(P, Q)
          /\ Measure(four, Q) = Measure(three, Q) + Measure(D, Q)
          /\ Measure(three, Q) = Measure(two, Q) + Measure(C, Q)
          /\ Measure(two, Q) = Measure(A, Q) + Measure(B, Q)
      BY <1>10, <1>11, <1>12, <1>13
    <3>3. PurchaseEntry(lines) = whole
      BY <1>2
    <3>. HIDE DEF whole, four, three, two, m, e, i, ri, ro
    <3>. QED
      BY <3>1, <3>2, <3>3
  <2>2. e \in Int /\ i \in Int /\ ri \in Int /\ ro \in Int
    BY <1>9
  <2>3. Whether(Q) \in {0, 1}
    BY DEF Whether
  <2>. HIDE DEF e, i, ri, ro
  <2>4. e + 1 * i + 1 * ri + (-1) * ro + Whether(Q) * m = e + i + ri - ro - Whether(Q) * T
    <3>1. CASE Whether(Q) = 0
      BY <1>1, <2>2, <3>1
    <3>2. CASE Whether(Q) = 1
      BY <1>1, <2>2, <3>2
    <3>. QED
      BY <2>3, <3>1, <3>2
  <2>. QED
    BY <2>1, <2>4 DEF e, i, ri, ro
<1>. QED
  BY <1>2, <1>13, <1>14 DEF T

\* An entry as a whole is what it says of everything.
LEMMA WholeEntry ==
  ASSUME NEW E, JLines(E)
  PROVE  AmountOver(E) = Measure(E, All)
<1>1. In(E, All) = E
  <2>1. \A x \in E : x.leg \in Name /\ x.class \in Name
    BY DEF JLines, JLine
  <2>. QED
    BY <2>1 DEF In, All
<1>. QED
  BY <1>1 DEF Measure

Paid(lines) ==
  \A i \in DOMAIN lines :
    LET vat == lines[i].vat
    IN  vat.expense + vat.legs["INPUT_VAT"] + vat.legs["RC_INPUT_VAT"]
          - vat.legs["RC_OUTPUT_VAT"] = lines[i].net + vat.tax

\* Expenses and VAT that is deducted or owed add up to what the supplier gets.
LEMMA PurchaseAddsUp ==
  ASSUME NEW lines, Lined(lines), Paid(lines)
  PROVE  Told(lines, "EXPENSE", All) + Told(lines, "INPUT_VAT", All)
           + Told(lines, "RC_INPUT_VAT", All) - Told(lines, "RC_OUTPUT_VAT", All)
           = TotalOf(lines)
<1> DEFINE D == DOMAIN lines
           e == Figures(lines, "EXPENSE")
           v == Figures(lines, "INPUT_VAT")
           w == Figures(lines, "RC_INPUT_VAT")
           o == Figures(lines, "RC_OUTPUT_VAT")
           n == [i \in D |-> lines[i].net]
           t == [i \in D |-> lines[i].vat.tax]
           ev == [i \in D |-> e[i] + v[i]]
           evw == [i \in D |-> ev[i] + w[i]]
           nt == [i \in D |-> n[i] + t[i]]
<1>1. IsFiniteSet(D) /\ \A i \in D : lines[i] \in DocLine
  BY LineFacts
<1>2. {"EXPENSE", "INPUT_VAT", "RC_INPUT_VAT", "RC_OUTPUT_VAT"} \subseteq FigureLeg
  BY DEF FigureLeg, Leg
<1>3. \A i \in D : /\ e[i] \in Int /\ v[i] \in Int /\ w[i] \in Int /\ o[i] \in Int
                   /\ n[i] \in Int /\ t[i] \in Int
  <2>1. \A i \in D : e[i] \in Int /\ v[i] \in Int /\ w[i] \in Int /\ o[i] \in Int
    BY <1>2, ToldInt
  <2>2. \A i \in D : n[i] \in Int /\ t[i] \in Int
    BY <1>1, LineFields
  <2>. QED
    BY <2>1, <2>2
<1>4. \A i \in D : e[i] + v[i] + w[i] - o[i] = n[i] + t[i]
  <2>1. \A i \in D : /\ e[i] = lines[i].vat.expense /\ v[i] = lines[i].vat.legs["INPUT_VAT"]
                     /\ w[i] = lines[i].vat.legs["RC_INPUT_VAT"]
                     /\ o[i] = lines[i].vat.legs["RC_OUTPUT_VAT"]
    BY DEF Figures, Figure
  <2>2. \A i \in D : n[i] = lines[i].net /\ t[i] = lines[i].vat.tax
    OBVIOUS
  <2>. HIDE DEF e, v, w, o, n, t
  <2>. QED
    BY <2>1, <2>2 DEF Paid
<1>5. /\ \A i \in D : ev[i] = e[i] + v[i] /\ evw[i] = ev[i] + w[i] /\ nt[i] = n[i] + t[i]
  OBVIOUS
<1>6. /\ NetTotal(lines) = SumFunctionOnSet(n, D) /\ TaxTotal(lines) = SumFunctionOnSet(t, D)
      /\ NetTotal(lines) \in Int /\ TaxTotal(lines) \in Int
  BY TotalFacts DEF NetTotal, TaxTotal, SumFunction
<1>7. /\ Told(lines, "EXPENSE", All) = SumFunctionOnSet(e, D)
      /\ Told(lines, "INPUT_VAT", All) = SumFunctionOnSet(v, D)
      /\ Told(lines, "RC_INPUT_VAT", All) = SumFunctionOnSet(w, D)
      /\ Told(lines, "RC_OUTPUT_VAT", All) = SumFunctionOnSet(o, D)
  BY <1>2, TotalFacts DEF Told
<1>. HIDE DEF D, e, v, w, o, n, t, ev, evw, nt
<1>8. \A i \in D : ev[i] \in Int /\ evw[i] \in Int /\ nt[i] \in Int
  BY <1>3, <1>5
<1>9. SumFunctionOnSet(ev, D) = SumFunctionOnSet(e, D) + SumFunctionOnSet(v, D)
  BY <1>1, <1>3, <1>5, SumPlus
<1>10. SumFunctionOnSet(evw, D) = SumFunctionOnSet(ev, D) + SumFunctionOnSet(w, D)
  BY <1>1, <1>3, <1>5, <1>8, SumPlus
<1>11. SumFunctionOnSet(nt, D) = SumFunctionOnSet(n, D) + SumFunctionOnSet(t, D)
  BY <1>1, <1>3, <1>5, SumPlus
<1>12. SumFunctionOnSet(nt, D) = SumFunctionOnSet(evw, D) - SumFunctionOnSet(o, D)
  <2>1. \A i \in D : evw[i] \in Int /\ o[i] \in Int /\ nt[i] = evw[i] - o[i]
    BY <1>3, <1>4, <1>5, <1>8
  <2>. QED
    BY <1>1, <2>1, SumMinus
<1>13. /\ SumFunctionOnSet(e, D) \in Int /\ SumFunctionOnSet(v, D) \in Int
       /\ SumFunctionOnSet(w, D) \in Int /\ SumFunctionOnSet(o, D) \in Int
  BY <1>1, <1>3, SumInt
<1>. QED
  BY <1>6, <1>7, <1>9, <1>10, <1>11, <1>12, <1>13 DEF TotalOf

Kind == {"SALES_INVOICE", "ADVANCE_INVOICE", "PURCHASE_INVOICE", "SALES_CREDIT_NOTE"}

\* The entry a document is posted with.
EntryOf(doc) ==
  IF doc.kind = "ADVANCE_INVOICE" THEN AdvanceEntry(doc.lines)
  ELSE IF doc.kind = "PURCHASE_INVOICE" THEN PurchaseEntry(doc.lines)
  ELSE IF doc.kind = "SALES_CREDIT_NOTE" THEN NoteEntry(doc.lines)
  ELSE InvoiceEntry(doc.lines, doc.used)

DocOK(doc) == doc.kind \in Kind /\ Shape(doc.kind, doc.lines) /\ doc.used \in Int

\* What documents know of their lines.
LEMMA DocFacts ==
  ASSUME NEW doc, DocOK(doc)
  PROVE  /\ Lined(doc.lines)
         /\ doc.kind = "PURCHASE_INVOICE" => Paid(doc.lines)
         /\ doc.kind # "PURCHASE_INVOICE" => Outputs(doc.lines)
  BY DEF DocOK, Shape, Lined, Paid, Outputs

\* The entry of every document balances, to the cent.
LEMMA EntryBalanced ==
  ASSUME NEW doc, DocOK(doc)
  PROVE  JLines(EntryOf(doc)) /\ Measure(EntryOf(doc), All) = 0
<1> DEFINE lines == doc.lines
           used == doc.used
           r == Told(lines, "REVENUE", All)
           o == Told(lines, "OUTPUT_VAT", All)
<1>1. /\ Lined(lines) /\ used \in Int /\ (doc.kind = "PURCHASE_INVOICE" => Paid(lines))
      /\ (doc.kind # "PURCHASE_INVOICE" => Outputs(lines))
  BY DocFacts DEF DocOK
<1>2. Whether(All) = 1
  BY NameFacts DEF Whether, All
<1>. HIDE DEF lines, used
<1>3. /\ TotalOf(lines) \in Int /\ NetTotal(lines) = r /\ r \in Int
      /\ TotalOf(lines) = r + TaxTotal(lines)
      /\ (Outputs(lines) => TaxTotal(lines) = o /\ o \in Int)
  BY <1>1, TotalFacts DEF TotalOf
<1>4. CASE doc.kind = "ADVANCE_INVOICE"
  BY <1>1, <1>4, AdvanceEntryFacts DEF EntryOf, lines
<1>5. CASE doc.kind = "PURCHASE_INVOICE"
  <2>1. Blind(All)
    BY DEF Blind, All
  <2>2. /\ JLines(PurchaseEntry(lines))
        /\ Measure(PurchaseEntry(lines), All) =
             Told(lines, "EXPENSE", All) + Told(lines, "INPUT_VAT", All)
               + Told(lines, "RC_INPUT_VAT", All) - Told(lines, "RC_OUTPUT_VAT", All)
               - Whether(All) * TotalOf(lines)
    BY <1>1, <2>1, PurchaseEntryFacts
  <2>3. Measure(PurchaseEntry(lines), All) = TotalOf(lines) - 1 * TotalOf(lines)
    <3> DEFINE e == Told(lines, "EXPENSE", All)
               i == Told(lines, "INPUT_VAT", All)
               ri == Told(lines, "RC_INPUT_VAT", All)
               ro == Told(lines, "RC_OUTPUT_VAT", All)
    <3>1. e + i + ri - ro = TotalOf(lines)
      BY <1>1, <1>5, PurchaseAddsUp
    <3>2. e \in Int /\ i \in Int /\ ri \in Int /\ ro \in Int
      BY <1>1, ToldInt DEF FigureLeg, Leg
    <3>3. Measure(PurchaseEntry(lines), All) = e + i + ri - ro - 1 * TotalOf(lines)
      BY <1>2, <2>2
    <3>. HIDE DEF e, i, ri, ro
    <3>. QED
      BY <1>3, <3>1, <3>2, <3>3
  <2>. QED
    BY <1>3, <1>5, <2>2, <2>3 DEF EntryOf, lines
<1>6. CASE doc.kind = "SALES_CREDIT_NOTE"
  <2>1. /\ JLines(NoteEntry(lines))
        /\ Measure(NoteEntry(lines), All) = r + o - Whether(All) * TotalOf(lines)
    BY <1>1, <1>6, NoteEntryFacts
  <2>2. Measure(NoteEntry(lines), All) = 0
    <3>. HIDE DEF r, o
    <3>. QED  BY <1>1, <1>2, <1>3, <1>6, <2>1
  <2>. QED
    BY <1>6, <2>1, <2>2 DEF EntryOf, lines
<1>7. CASE doc.kind \notin {"ADVANCE_INVOICE", "PURCHASE_INVOICE", "SALES_CREDIT_NOTE"}
  <2>1. /\ JLines(InvoiceEntry(lines, used))
        /\ Measure(InvoiceEntry(lines, used), All) = Whether(All) * TotalOf(lines) - (r + o)
    BY <1>1, <1>7, InvoiceEntryFacts
  <2>2. Measure(InvoiceEntry(lines, used), All) = 0
    <3>. HIDE DEF r, o
    <3>. QED  BY <1>1, <1>2, <1>3, <1>7, <2>1
  <2>. QED
    BY <1>7, <2>1, <2>2 DEF EntryOf, lines, used
<1>. QED
  BY <1>4, <1>5, <1>6, <1>7

(***************************************************************************)
(* Entries and documents, classification by classification.                *)
(***************************************************************************)

\* What lines say of a classification is OverLines.
LEMMA ToldClass ==
  ASSUME NEW lines, Lined(lines), NEW leg \in FigureLeg, NEW class
  PROVE  /\ OverLines(lines, class, leg) \in Int
         /\ \A legs : leg \in legs => Told(lines, leg, legs \X {class}) = OverLines(lines, class, leg)
<1> DEFINE S == {j \in DOMAIN lines : lines[j].vat.class = class}
           f == [i \in S |-> Figure(lines[i], leg)]
           g == Figures(lines, leg)
<1>1. OverLines(lines, class, leg) = SumFunctionOnSet(f, S)
  BY DEF OverLines, SumFunction
<1>2. \A legs : leg \in legs => Seen(lines, leg, legs \X {class}) = S
  BY DEF Seen
<1>3. \A i \in S : f[i] = g[i] /\ g[i] \in Int /\ f[i] \in Int
  BY ToldInt
<1>4. S \subseteq DOMAIN lines
  OBVIOUS
<1>5. IsFiniteSet(S)
  BY <1>4, LineFacts, FS_Subset
<1>. HIDE DEF S, f, g
<1>6. SumFunctionOnSet(f, S) = SumFunctionOnSet(g, S) /\ SumFunctionOnSet(f, S) \in Int
  BY <1>3, <1>5, SumSame, SumInt
<1>. QED
  BY <1>1, <1>2, <1>6 DEF Told, g

\* Lines say nothing of what they do not have.
LEMMA ToldNothing ==
  ASSUME NEW lines, Lined(lines), NEW leg, NEW Q, \A c : <<leg, c>> \notin Q
  PROVE  Told(lines, leg, Q) = 0
<1>1. Seen(lines, leg, Q) = {}
  BY DEF Seen
<1>. QED
  BY <1>1, SumEmpty DEF Told

\* What the entry of a document says of some legs and one class.
LEMMA EntryTells ==
  ASSUME NEW doc, DocOK(doc), NEW Q, \A c : <<"NONE", c>> \notin Q, Blind(Q)
  PROVE  LET V(leg) == Told(doc.lines, leg, Q)
             M == Measure(EntryOf(doc), Q)
         IN  /\ doc.kind = "ADVANCE_INVOICE" => M = 0
             /\ doc.kind = "SALES_CREDIT_NOTE" => M = V("REVENUE") + V("OUTPUT_VAT")
             /\ doc.kind = "SALES_INVOICE" => M = - (V("REVENUE") + V("OUTPUT_VAT"))
             /\ doc.kind = "PURCHASE_INVOICE" =>
                  M = V("EXPENSE") + V("INPUT_VAT") + V("RC_INPUT_VAT") - V("RC_OUTPUT_VAT")
             /\ \A leg \in FigureLeg : V(leg) \in Int
<1> DEFINE lines == doc.lines
           used == doc.used
           V(leg) == Told(lines, leg, Q)
           M == Measure(EntryOf(doc), Q)
           T == TotalOf(lines)
<1>1. /\ Lined(lines) /\ used \in Int /\ (doc.kind = "PURCHASE_INVOICE" => Paid(lines))
      /\ (doc.kind # "PURCHASE_INVOICE" => Outputs(lines))
  BY DocFacts DEF DocOK
<1>2. Whether(Q) = 0
  BY DEF Whether
<1>. HIDE DEF lines, used
<1>3. T \in Int /\ Whether(Q) * T = 0
  <2>1. T \in Int
    BY <1>1, TotalFacts
  <2>. HIDE DEF T
  <2>. QED
    BY <1>2, <2>1
<1>4. \A leg \in FigureLeg : V(leg) \in Int
  BY <1>1, ToldInt
<1>5. {"REVENUE", "EXPENSE", "INPUT_VAT", "OUTPUT_VAT", "RC_INPUT_VAT", "RC_OUTPUT_VAT"}
        \subseteq FigureLeg
  BY DEF FigureLeg, Leg
<1> DEFINE r == V("REVENUE")
           o == V("OUTPUT_VAT")
           e == V("EXPENSE")
           i == V("INPUT_VAT")
           ri == V("RC_INPUT_VAT")
           ro == V("RC_OUTPUT_VAT")
<1>6. r \in Int /\ o \in Int /\ e \in Int /\ i \in Int /\ ri \in Int /\ ro \in Int
  BY <1>4, <1>5
<1>7. ASSUME doc.kind = "ADVANCE_INVOICE" PROVE M = 0
  BY <1>1, <1>7, AdvanceEntryFacts DEF EntryOf, lines
<1>8. ASSUME doc.kind = "SALES_CREDIT_NOTE" PROVE M = r + o
  <2>1. Measure(NoteEntry(lines), Q) = r + o - Whether(Q) * T
    BY <1>1, <1>8, NoteEntryFacts
  <2>2. M = Measure(NoteEntry(lines), Q)
    BY <1>8 DEF EntryOf, lines
  <2>. HIDE DEF r, o, T, M
  <2>3. r + o - Whether(Q) * T = r + o
    BY <1>3, <1>6
  <2>. QED
    BY <2>1, <2>2, <2>3
<1>9. ASSUME doc.kind = "SALES_INVOICE" PROVE M = - (r + o)
  <2>1. Measure(InvoiceEntry(lines, used), Q) = Whether(Q) * T - (r + o)
    BY <1>1, <1>9, InvoiceEntryFacts
  <2>2. M = Measure(InvoiceEntry(lines, used), Q)
    BY <1>9 DEF EntryOf, lines, used
  <2>. HIDE DEF r, o, T, M
  <2>3. Whether(Q) * T - (r + o) = - (r + o)
    BY <1>3, <1>6
  <2>. QED
    BY <2>1, <2>2, <2>3
<1>10. ASSUME doc.kind = "PURCHASE_INVOICE" PROVE M = e + i + ri - ro
  <2>1. Measure(PurchaseEntry(lines), Q) = e + i + ri - ro - Whether(Q) * T
    BY <1>1, PurchaseEntryFacts
  <2>2. M = Measure(PurchaseEntry(lines), Q)
    BY <1>10 DEF EntryOf, lines
  <2>. HIDE DEF e, i, ri, ro, T, M
  <2>3. e + i + ri - ro - Whether(Q) * T = e + i + ri - ro
    BY <1>3, <1>6
  <2>. QED
    BY <2>1, <2>2, <2>3
<1>. QED
  BY <1>4, <1>7, <1>8, <1>9, <1>10 DEF lines

Sold(class) == {"REVENUE"} \X {class}
Charged(class) == {"OUTPUT_VAT", "RC_OUTPUT_VAT"} \X {class}
Deducted(class) == {"INPUT_VAT", "RC_INPUT_VAT"} \X {class}
Spent == {"EXPENSE"} \X Name

\* What the entry of a document says of each box of the VAT summary.
LEMMA EntryClasses ==
  ASSUME NEW doc, DocOK(doc), NEW class
  PROVE  LET V(leg) == OverLines(doc.lines, class, leg)
             sales == Measure(EntryOf(doc), Sold(class))
             out == Measure(EntryOf(doc), Charged(class))
             in == Measure(EntryOf(doc), Deducted(class))
             cost == Measure(EntryOf(doc), Spent)
         IN  /\ doc.kind = "ADVANCE_INVOICE" => sales = 0 /\ out = 0 /\ in = 0 /\ cost = 0
             /\ doc.kind = "SALES_CREDIT_NOTE" =>
                  sales = V("REVENUE") /\ out = V("OUTPUT_VAT") /\ in = 0 /\ cost = 0
             /\ doc.kind = "SALES_INVOICE" =>
                  sales = - V("REVENUE") /\ out = - V("OUTPUT_VAT") /\ in = 0 /\ cost = 0
             /\ doc.kind = "PURCHASE_INVOICE" =>
                  /\ sales = 0 /\ out = - V("RC_OUTPUT_VAT")
                  /\ in = V("INPUT_VAT") + V("RC_INPUT_VAT")
                  /\ cost = Told(doc.lines, "EXPENSE", Spent)
             /\ \A leg \in FigureLeg : V(leg) \in Int
<1> DEFINE lines == doc.lines
           R == Sold(class)
           O == Charged(class)
           I == Deducted(class)
           X == Spent
<1>1. Lined(lines)
  BY DocFacts
<1>2. /\ \A c : <<"NONE", c>> \notin R /\ <<"NONE", c>> \notin O
      /\ \A c : <<"NONE", c>> \notin I /\ <<"NONE", c>> \notin X
      /\ Blind(R) /\ Blind(O) /\ Blind(I) /\ Blind(X)
  BY DEF Blind, Sold, Charged, Deducted, Spent
<1>3. {"REVENUE", "EXPENSE", "INPUT_VAT", "OUTPUT_VAT", "RC_INPUT_VAT", "RC_OUTPUT_VAT"}
        \subseteq FigureLeg
  BY DEF FigureLeg, Leg
<1>4. \A leg \in FigureLeg : OverLines(lines, class, leg) \in Int
  BY <1>1, ToldClass
<1>5. /\ Told(lines, "REVENUE", R) = OverLines(lines, class, "REVENUE")
      /\ Told(lines, "OUTPUT_VAT", O) = OverLines(lines, class, "OUTPUT_VAT")
      /\ Told(lines, "RC_OUTPUT_VAT", O) = OverLines(lines, class, "RC_OUTPUT_VAT")
      /\ Told(lines, "INPUT_VAT", I) = OverLines(lines, class, "INPUT_VAT")
      /\ Told(lines, "RC_INPUT_VAT", I) = OverLines(lines, class, "RC_INPUT_VAT")
  BY <1>1, <1>3, ToldClass DEF Sold, Charged, Deducted
<1>6. /\ Told(lines, "OUTPUT_VAT", R) = 0 /\ Told(lines, "EXPENSE", R) = 0
      /\ Told(lines, "INPUT_VAT", R) = 0 /\ Told(lines, "RC_INPUT_VAT", R) = 0
      /\ Told(lines, "RC_OUTPUT_VAT", R) = 0
  BY <1>1, ToldNothing DEF Sold
<1>7. /\ Told(lines, "REVENUE", O) = 0 /\ Told(lines, "EXPENSE", O) = 0
      /\ Told(lines, "INPUT_VAT", O) = 0 /\ Told(lines, "RC_INPUT_VAT", O) = 0
  BY <1>1, ToldNothing DEF Charged
<1>8. /\ Told(lines, "REVENUE", I) = 0 /\ Told(lines, "EXPENSE", I) = 0
      /\ Told(lines, "OUTPUT_VAT", I) = 0 /\ Told(lines, "RC_OUTPUT_VAT", I) = 0
  BY <1>1, ToldNothing DEF Deducted
<1>9. /\ Told(lines, "REVENUE", X) = 0 /\ Told(lines, "OUTPUT_VAT", X) = 0
      /\ Told(lines, "INPUT_VAT", X) = 0 /\ Told(lines, "RC_INPUT_VAT", X) = 0
      /\ Told(lines, "RC_OUTPUT_VAT", X) = 0
  BY <1>1, ToldNothing DEF Spent
<1>. HIDE DEF R, O, I, X, lines
<1> DEFINE Says(Q) ==
      LET V(leg) == Told(lines, leg, Q)
          M == Measure(EntryOf(doc), Q)
      IN  /\ doc.kind = "ADVANCE_INVOICE" => M = 0
          /\ doc.kind = "SALES_CREDIT_NOTE" => M = V("REVENUE") + V("OUTPUT_VAT")
          /\ doc.kind = "SALES_INVOICE" => M = - (V("REVENUE") + V("OUTPUT_VAT"))
          /\ doc.kind = "PURCHASE_INVOICE" =>
               M = V("EXPENSE") + V("INPUT_VAT") + V("RC_INPUT_VAT") - V("RC_OUTPUT_VAT")
          /\ \A leg \in FigureLeg : V(leg) \in Int
<1>10. Says(R) /\ Says(O) /\ Says(I) /\ Says(X)
  BY <1>2, EntryTells DEF lines
<1> DEFINE r == OverLines(lines, class, "REVENUE")
           o == OverLines(lines, class, "OUTPUT_VAT")
           i == OverLines(lines, class, "INPUT_VAT")
           ri == OverLines(lines, class, "RC_INPUT_VAT")
           ro == OverLines(lines, class, "RC_OUTPUT_VAT")
           x == Told(lines, "EXPENSE", X)
<1>11. r \in Int /\ o \in Int /\ i \in Int /\ ri \in Int /\ ro \in Int /\ x \in Int
  <2>1. x \in Int
    BY <1>1, <1>3, ToldInt
  <2>. QED
    BY <1>3, <1>4, <2>1
<1>. HIDE DEF r, o, i, ri, ro, x
<1> DEFINE M(Q) == Measure(EntryOf(doc), Q)
<1>12. doc.kind = "ADVANCE_INVOICE" => M(R) = 0 /\ M(O) = 0 /\ M(I) = 0 /\ M(X) = 0
  BY <1>10
<1>13. doc.kind = "SALES_CREDIT_NOTE" => M(R) = r /\ M(O) = o /\ M(I) = 0 /\ M(X) = 0
  <2>1. doc.kind = "SALES_CREDIT_NOTE" =>
          M(R) = r + 0 /\ M(O) = 0 + o /\ M(I) = 0 + 0 /\ M(X) = 0 + 0
    BY <1>5, <1>6, <1>7, <1>8, <1>9, <1>10 DEF r, o
  <2>. QED
    BY <1>11, <2>1
<1>14. doc.kind = "SALES_INVOICE" => M(R) = - r /\ M(O) = - o /\ M(I) = 0 /\ M(X) = 0
  <2>1. doc.kind = "SALES_INVOICE" =>
          M(R) = - (r + 0) /\ M(O) = - (0 + o) /\ M(I) = - (0 + 0) /\ M(X) = - (0 + 0)
    BY <1>5, <1>6, <1>7, <1>8, <1>9, <1>10 DEF r, o
  <2>2. - (r + 0) = - r /\ - (0 + o) = - o
    <3>1. r + 0 = r /\ 0 + o = o
      BY <1>11
    <3>. QED  BY <3>1
  <2>3. - (0 + 0) = 0
    <3> DEFINE z == 0 + 0
    <3>1. z \in Int /\ z + z = z
      OBVIOUS
    <3>4. z = 0
      OBVIOUS
    <3>. HIDE DEF z
    <3>2. - z = z
      BY <3>1
    <3>3. - z = 0
      BY <3>2, <3>4
    <3>. QED  BY <3>3 DEF z
  <2>. HIDE DEF M, Says
  <2>. QED
    BY <2>1, <2>2, <2>3
<1>15. doc.kind = "PURCHASE_INVOICE" => M(R) = 0 /\ M(O) = - ro /\ M(I) = i + ri /\ M(X) = x
  <2>1. doc.kind = "PURCHASE_INVOICE" =>
          /\ M(R) = 0 + 0 + 0 - 0 /\ M(O) = 0 + 0 + 0 - ro
          /\ M(I) = 0 + i + ri - 0 /\ M(X) = x + 0 + 0 - 0
    <3>1. doc.kind = "PURCHASE_INVOICE" => M(R) = 0 + 0 + 0 - 0
      <4>1. doc.kind = "PURCHASE_INVOICE" =>
              M(R) = Told(lines, "EXPENSE", R) + Told(lines, "INPUT_VAT", R)
                       + Told(lines, "RC_INPUT_VAT", R) - Told(lines, "RC_OUTPUT_VAT", R)
        BY <1>10
      <4>. QED  BY <1>6, <4>1
    <3>2. doc.kind = "PURCHASE_INVOICE" => M(O) = 0 + 0 + 0 - ro
      <4>1. doc.kind = "PURCHASE_INVOICE" =>
              M(O) = Told(lines, "EXPENSE", O) + Told(lines, "INPUT_VAT", O)
                       + Told(lines, "RC_INPUT_VAT", O) - Told(lines, "RC_OUTPUT_VAT", O)
        BY <1>10
      <4>. QED  BY <1>5, <1>7, <4>1 DEF ro
    <3>3. doc.kind = "PURCHASE_INVOICE" => M(I) = 0 + i + ri - 0
      <4>1. doc.kind = "PURCHASE_INVOICE" =>
              M(I) = Told(lines, "EXPENSE", I) + Told(lines, "INPUT_VAT", I)
                       + Told(lines, "RC_INPUT_VAT", I) - Told(lines, "RC_OUTPUT_VAT", I)
        BY <1>10
      <4>. QED  BY <1>5, <1>8, <4>1 DEF i, ri
    <3>4. doc.kind = "PURCHASE_INVOICE" => M(X) = x + 0 + 0 - 0
      <4>1. doc.kind = "PURCHASE_INVOICE" =>
              M(X) = Told(lines, "EXPENSE", X) + Told(lines, "INPUT_VAT", X)
                       + Told(lines, "RC_INPUT_VAT", X) - Told(lines, "RC_OUTPUT_VAT", X)
        BY <1>10
      <4>. QED  BY <1>9, <4>1 DEF x
    <3>. QED
      BY <3>1, <3>2, <3>3, <3>4
  <2>. QED
    BY <1>11, <2>1
<1>. QED
  BY <1>4, <1>12, <1>13, <1>14, <1>15 DEF R, O, I, X, lines, r, o, i, ri, ro, x

(***************************************************************************)
(* Books and documents.                                                    *)
(***************************************************************************)

\* The entries, the documents with their entries.
EntriesOK ==
  /\ DOMAIN books = 1 .. Len(books) /\ Len(books) \in Nat
  /\ \A e \in DOMAIN books :
       JLines(books[e].lines) /\ Measure(books[e].lines, All) = 0

DocsOK ==
  /\ DOMAIN docs = 1 .. Len(docs) /\ Len(docs) \in Nat
  /\ \A d \in DOMAIN docs :
       /\ DocOK(docs[d])
       /\ docs[d].status = "CORRECTED" => docs[d].kind = "PURCHASE_INVOICE"

\* What a posted entry and what a document says of a part Q of legs and classes.
Counted(row, Q) == IF row.status = "POSTED" THEN Measure(row.lines, Q) ELSE 0
Booked(bs, Q) == SumFunctionOnSet([e \in DOMAIN bs |-> Counted(bs[e], Q)], DOMAIN bs)

Weight(doc) == IF doc.status = "CORRECTED" THEN -1 ELSE 1
Saying(doc, Q) == Weight(doc) * Measure(EntryOf(doc), Q)
Documented(ds, Q) == SumFunctionOnSet([d \in DOMAIN ds |-> Saying(ds[d], Q)], DOMAIN ds)

\* The books and the documents say the same, whatever they are asked for.
Mirrored(ds, bs) == \A Q : Booked(bs, Q) = Documented(ds, Q)

\* There are finitely many entries.
LEMMA BooksFinite ==
  ASSUME EntriesOK
  PROVE  /\ IsFiniteSet(DOMAIN books)
         /\ \A e \in DOMAIN books : \A Q : Counted(books[e], Q) \in Int
<1>1. IsFiniteSet(DOMAIN books)
  BY FS_Interval DEF EntriesOK
<1>2. ASSUME NEW e \in DOMAIN books, NEW Q PROVE Counted(books[e], Q) \in Int
  BY MeasureInt DEF EntriesOK, Counted
<1>. QED
  BY <1>1, <1>2

\* There are finitely many documents.
LEMMA DocsFinite ==
  ASSUME DocsOK
  PROVE  /\ IsFiniteSet(DOMAIN docs)
         /\ \A d \in DOMAIN docs : \A Q : Saying(docs[d], Q) \in Int
<1>1. IsFiniteSet(DOMAIN docs)
  BY FS_Interval DEF DocsOK
<1>2. ASSUME NEW d \in DOMAIN docs, NEW Q PROVE Saying(docs[d], Q) \in Int
  <2> DEFINE m == Measure(EntryOf(docs[d]), Q)
  <2>1. m \in Int
    BY EntryBalanced, MeasureInt DEF DocsOK
  <2>2. Weight(docs[d]) \in {1, -1}
    BY DEF Weight
  <2>. HIDE DEF m
  <2>3. Weight(docs[d]) * m \in Int
    BY <2>1, <2>2
  <2>. QED
    BY <2>3 DEF Saying, m
<1>. QED
  BY <1>1, <1>2

\* Said, as a measure of the entry.
LEMMA SaidMeasure ==
  ASSUME NEW e, NEW class, NEW legs
  PROVE  Said(e, class, legs) = Measure(books[e].lines, legs \X {class})
<1>1. In(books[e].lines, legs \X {class})
        = {y \in books[e].lines : y.leg \in legs /\ y.class = class}
  BY DEF In
<1>. QED
  BY <1>1 DEF Said, Measure, AmountOver

\* Debited, as what the posted entries say.
LEMMA DebitedBooked ==
  ASSUME EntriesOK, NEW class, NEW legs
  PROVE  Debited(class, legs) = Booked(books, legs \X {class}) /\ Debited(class, legs) \in Int
<1> DEFINE Q == legs \X {class}
           S == {k \in DOMAIN books : books[k].status = "POSTED"}
           f == [e \in S |-> Said(e, class, legs)]
           g == [e \in DOMAIN books |-> Counted(books[e], Q)]
<1>1. Debited(class, legs) = SumFunctionOnSet(f, S)
  BY DEF Debited, SumFunction
<1>2. S \in SUBSET DOMAIN books /\ IsFiniteSet(DOMAIN books)
  BY BooksFinite
<1>3. IsFiniteSet(S)
  BY <1>2, FS_Subset
<1>4. \A e \in S : f[e] = g[e]
  BY SaidMeasure DEF Counted
<1>5. \A e \in DOMAIN books : g[e] \in Int
  BY BooksFinite
<1>6. \A e \in DOMAIN books \ S : g[e] = 0
  BY DEF Counted
<1>7. Booked(books, Q) = SumFunctionOnSet(g, DOMAIN books)
  BY DEF Booked
<1>. HIDE DEF S, f, g, Q
<1>8. SumFunctionOnSet(f, S) = SumFunctionOnSet(g, S)
  BY <1>3, <1>4, SumSame
<1>9. SumFunctionOnSet(g, DOMAIN books) = SumFunctionOnSet(g, S)
  BY <1>2, <1>5, <1>6, SumSupport
<1>10. SumFunctionOnSet(g, DOMAIN books) \in Int
  BY <1>2, <1>5, SumInt
<1>. QED
  BY <1>1, <1>7, <1>8, <1>9, <1>10 DEF Q

\* The documents of some kinds, as a sum over all documents.
PerDocument(kinds, class, leg) ==
  [d \in DOMAIN docs |-> IF docs[d].kind \in kinds
                         THEN Sign(d) * OverLines(docs[d].lines, class, leg) ELSE 0]

\* OverDocuments, as a sum over every document.
LEMMA OverAll ==
  ASSUME DocsOK, NEW kinds, NEW class, NEW leg \in FigureLeg
  PROVE  /\ OverDocuments(kinds, class, leg)
              = SumFunctionOnSet(PerDocument(kinds, class, leg), DOMAIN docs)
         /\ \A d \in DOMAIN docs : PerDocument(kinds, class, leg)[d] \in Int
         /\ OverDocuments(kinds, class, leg) \in Int
<1> DEFINE D == DOMAIN docs
           S == {k \in D : docs[k].kind \in kinds}
           f == [d \in S |-> Sign(d) * OverLines(docs[d].lines, class, leg)]
           g == PerDocument(kinds, class, leg)
<1>1. OverDocuments(kinds, class, leg) = SumFunctionOnSet(f, S)
  BY DEF OverDocuments, SumFunction
<1>2. S \in SUBSET D /\ IsFiniteSet(D)
  BY DocsFinite
<1>3. IsFiniteSet(S)
  BY <1>2, FS_Subset
<1>4. \A d \in S : f[d] = g[d]
  BY DEF PerDocument
<1>5. ASSUME NEW d \in D PROVE g[d] \in Int
  <2> DEFINE n == OverLines(docs[d].lines, class, leg)
  <2>1. n \in Int
    BY DocFacts, ToldClass DEF DocsOK
  <2>2. Sign(d) \in {1, -1}
    BY DEF Sign
  <2>. HIDE DEF n
  <2>3. Sign(d) * n \in Int
    BY <2>1, <2>2
  <2>. QED
    BY <2>3 DEF PerDocument, n
<1>6. \A d \in D \ S : g[d] = 0
  BY DEF PerDocument
<1>. HIDE DEF S, f, g, D
<1>8. SumFunctionOnSet(f, S) = SumFunctionOnSet(g, S)
  BY <1>3, <1>4, SumSame
<1>9. SumFunctionOnSet(g, D) = SumFunctionOnSet(g, S)
  BY <1>2, <1>5, <1>6, SumSupport
<1>10. SumFunctionOnSet(g, D) \in Int
  BY <1>2, <1>5, SumInt
<1>. QED
  BY <1>1, <1>5, <1>8, <1>9, <1>10 DEF D, g

\* A sign, spelt out.
LEMMA Signed ==
  ASSUME NEW w \in {1, -1}, NEW n \in Int
  PROVE  /\ w * n \in Int /\ (w = 1 => w * n = n) /\ (w = -1 => w * n = - n)
         /\ w * n + w * (- n) = 0
<1>1. CASE w = 1
  BY <1>1
<1>2. CASE w = -1
  BY <1>2
<1>. QED
  BY <1>1, <1>2

\* What a document's entry says of a classification, and what its lines do.
LEMMA DocColumns ==
  ASSUME DocsOK, NEW class, NEW d \in DOMAIN docs
  PROVE  /\ Saying(docs[d], Sold(class)) + PerDocument(SalesKinds, class, "REVENUE")[d] = 0
         /\ Saying(docs[d], Charged(class)) + (PerDocument(SalesKinds, class, "OUTPUT_VAT")[d]
              + PerDocument(PurchaseKinds, class, "RC_OUTPUT_VAT")[d]) = 0
         /\ Saying(docs[d], Deducted(class)) = PerDocument(PurchaseKinds, class, "INPUT_VAT")[d]
              + PerDocument(PurchaseKinds, class, "RC_INPUT_VAT")[d]
         /\ Saying(docs[d], Spent) = IF docs[d].kind = "PURCHASE_INVOICE"
                               THEN Sign(d) * Told(docs[d].lines, "EXPENSE", Spent) ELSE 0
<1> DEFINE doc == docs[d]
           w == Weight(doc)
           s == Sign(d)
           r == OverLines(doc.lines, class, "REVENUE")
           o == OverLines(doc.lines, class, "OUTPUT_VAT")
           i == OverLines(doc.lines, class, "INPUT_VAT")
           ri == OverLines(doc.lines, class, "RC_INPUT_VAT")
           ro == OverLines(doc.lines, class, "RC_OUTPUT_VAT")
           x == Told(doc.lines, "EXPENSE", Spent)
           M(Q) == Measure(EntryOf(doc), Q)
<1>1. DocOK(doc) /\ (doc.status = "CORRECTED" => doc.kind = "PURCHASE_INVOICE")
  BY DEF DocsOK
<1>2. {"REVENUE", "EXPENSE", "INPUT_VAT", "OUTPUT_VAT", "RC_INPUT_VAT", "RC_OUTPUT_VAT"}
        \subseteq FigureLeg
  BY DEF FigureLeg, Leg
<1>3. r \in Int /\ o \in Int /\ i \in Int /\ ri \in Int /\ ro \in Int /\ x \in Int
  <2>1. Lined(doc.lines)
    BY <1>1, DocFacts
  <2>2. x \in Int
    BY <1>2, <2>1, ToldInt
  <2>3. r \in Int /\ o \in Int /\ i \in Int /\ ri \in Int /\ ro \in Int
    BY <1>2, <2>1, ToldClass
  <2>. QED  BY <2>2, <2>3
<1>4. /\ doc.kind = "ADVANCE_INVOICE" => M(Sold(class)) = 0 /\ M(Charged(class)) = 0
                                         /\ M(Deducted(class)) = 0 /\ M(Spent) = 0
      /\ doc.kind = "SALES_CREDIT_NOTE" => M(Sold(class)) = r /\ M(Charged(class)) = o
                                         /\ M(Deducted(class)) = 0 /\ M(Spent) = 0
      /\ doc.kind = "SALES_INVOICE" => M(Sold(class)) = - r /\ M(Charged(class)) = - o
                                         /\ M(Deducted(class)) = 0 /\ M(Spent) = 0
      /\ doc.kind = "PURCHASE_INVOICE" => M(Sold(class)) = 0 /\ M(Charged(class)) = - ro
                                         /\ M(Deducted(class)) = i + ri /\ M(Spent) = x
  BY <1>1, EntryClasses
<1>5. \A Q : Saying(docs[d], Q) = w * M(Q)
  BY DEF Saying
<1>6. /\ w = IF doc.status = "CORRECTED" THEN -1 ELSE 1
      /\ s = IF doc.kind = "SALES_CREDIT_NOTE" \/ doc.status = "CORRECTED" THEN -1 ELSE 1
  BY DEF Weight, Sign
<1>7. /\ PerDocument(SalesKinds, class, "REVENUE")[d] = IF doc.kind \in SalesKinds THEN s * r ELSE 0
      /\ PerDocument(SalesKinds, class, "OUTPUT_VAT")[d] = IF doc.kind \in SalesKinds THEN s * o ELSE 0
      /\ PerDocument(PurchaseKinds, class, "RC_OUTPUT_VAT")[d] = IF doc.kind \in PurchaseKinds THEN s * ro ELSE 0
      /\ PerDocument(PurchaseKinds, class, "INPUT_VAT")[d] = IF doc.kind \in PurchaseKinds THEN s * i ELSE 0
      /\ PerDocument(PurchaseKinds, class, "RC_INPUT_VAT")[d] = IF doc.kind \in PurchaseKinds THEN s * ri ELSE 0
  BY DEF PerDocument
<1>8. doc.kind \in Kind
  BY <1>1 DEF DocOK
<1> DEFINE a == PerDocument(SalesKinds, class, "REVENUE")[d]
           b == PerDocument(SalesKinds, class, "OUTPUT_VAT")[d]
           c == PerDocument(PurchaseKinds, class, "RC_OUTPUT_VAT")[d]
           e == PerDocument(PurchaseKinds, class, "INPUT_VAT")[d]
           f == PerDocument(PurchaseKinds, class, "RC_INPUT_VAT")[d]
           k == doc.kind
           mr == M(Sold(class))
           mo == M(Charged(class))
           mi == M(Deducted(class))
           mx == M(Spent)
<1> HIDE DEF doc, w, s, r, o, i, ri, ro, x, M, a, b, c, e, f, k, mr, mo, mi, mx
<1>9. /\ w * mr + a = 0 /\ w * mo + (b + c) = 0 /\ w * mi = e + f
      /\ w * mx = IF k = "PURCHASE_INVOICE" THEN s * x ELSE 0
  <2>1. CASE k = "ADVANCE_INVOICE"
    <3>1. mr = 0 /\ mo = 0 /\ mi = 0 /\ mx = 0
      BY <1>4, <2>1 DEF mr, mo, mi, mx, k
    <3>2. a = 0 /\ b = 0 /\ c = 0 /\ e = 0 /\ f = 0
      BY <1>7, <2>1 DEF a, b, c, e, f, k, SalesKinds, PurchaseKinds
    <3>3. w * 0 = 0
      BY <1>6
    <3>. QED
      BY <2>1, <3>1, <3>2, <3>3
  <2>2. CASE k = "SALES_CREDIT_NOTE"
    <3>1. mr = r /\ mo = o /\ mi = 0 /\ mx = 0
      BY <1>4, <2>2 DEF mr, mo, mi, mx, k
    <3>2. w = 1 /\ s = -1
      BY <1>1, <1>6, <2>2 DEF k
    <3>3. a = s * r /\ b = s * o /\ c = 0 /\ e = 0 /\ f = 0
      BY <1>7, <2>2 DEF a, b, c, e, f, k, SalesKinds, PurchaseKinds
    <3>. QED
      BY <1>3, <2>2, <3>1, <3>2, <3>3
  <2>3. CASE k = "SALES_INVOICE"
    <3>1. mr = - r /\ mo = - o /\ mi = 0 /\ mx = 0
      BY <1>4, <2>3 DEF mr, mo, mi, mx, k
    <3>2. w = 1 /\ s = 1
      BY <1>1, <1>6, <2>3 DEF k
    <3>3. a = s * r /\ b = s * o /\ c = 0 /\ e = 0 /\ f = 0
      BY <1>7, <2>3 DEF a, b, c, e, f, k, SalesKinds, PurchaseKinds
    <3>. QED
      BY <1>3, <2>3, <3>1, <3>2, <3>3
  <2>4. CASE k = "PURCHASE_INVOICE"
    <3>1. mr = 0 /\ mo = - ro /\ mi = i + ri /\ mx = x
      BY <1>4, <2>4 DEF mr, mo, mi, mx, k
    <3>2. a = 0 /\ b = 0 /\ c = s * ro /\ e = s * i /\ f = s * ri
      BY <1>7, <2>4 DEF a, b, c, e, f, k, SalesKinds, PurchaseKinds
    <3>3. w = s /\ w \in {1, -1}
      BY <1>6, <2>4 DEF k
    <3>4. CASE w = 1
      BY <1>3, <2>4, <3>1, <3>2, <3>3, <3>4
    <3>5. CASE w = -1
      BY <1>3, <2>4, <3>1, <3>2, <3>3, <3>5
    <3>. QED
      BY <3>3, <3>4, <3>5
  <2>. QED
    BY <1>8, <2>1, <2>2, <2>3, <2>4 DEF Kind, k
<1>. QED
  BY <1>5, <1>9 DEF a, b, c, e, f, k, mr, mo, mi, mx, x, s, w, doc, M

\* The same, of all documents.
LEMMA DocumentedSums ==
  ASSUME DocsOK, NEW class
  PROVE  /\ Documented(docs, Sold(class)) + OverDocuments(SalesKinds, class, "REVENUE") = 0
         /\ Documented(docs, Charged(class)) + (OverDocuments(SalesKinds, class, "OUTPUT_VAT")
              + OverDocuments(PurchaseKinds, class, "RC_OUTPUT_VAT")) = 0
         /\ Documented(docs, Deducted(class)) = OverDocuments(PurchaseKinds, class, "INPUT_VAT")
              + OverDocuments(PurchaseKinds, class, "RC_INPUT_VAT")
<1> DEFINE D == DOMAIN docs
           fs == [d \in D |-> Saying(docs[d], Sold(class))]
           fc == [d \in D |-> Saying(docs[d], Charged(class))]
           fd == [d \in D |-> Saying(docs[d], Deducted(class))]
           r == PerDocument(SalesKinds, class, "REVENUE")
           o == PerDocument(SalesKinds, class, "OUTPUT_VAT")
           ro == PerDocument(PurchaseKinds, class, "RC_OUTPUT_VAT")
           i == PerDocument(PurchaseKinds, class, "INPUT_VAT")
           ri == PerDocument(PurchaseKinds, class, "RC_INPUT_VAT")
           z == [d \in D |-> 0]
           oro == [d \in D |-> o[d] + ro[d]]
<1>1. IsFiniteSet(D)
  BY DocsFinite
<1>2. {"REVENUE", "INPUT_VAT", "OUTPUT_VAT", "RC_INPUT_VAT", "RC_OUTPUT_VAT"} \subseteq FigureLeg
  BY DEF FigureLeg, Leg
<1>3. /\ OverDocuments(SalesKinds, class, "REVENUE") = SumFunctionOnSet(r, D)
      /\ OverDocuments(SalesKinds, class, "OUTPUT_VAT") = SumFunctionOnSet(o, D)
      /\ OverDocuments(PurchaseKinds, class, "RC_OUTPUT_VAT") = SumFunctionOnSet(ro, D)
      /\ OverDocuments(PurchaseKinds, class, "INPUT_VAT") = SumFunctionOnSet(i, D)
      /\ OverDocuments(PurchaseKinds, class, "RC_INPUT_VAT") = SumFunctionOnSet(ri, D)
      /\ \A d \in D : r[d] \in Int /\ o[d] \in Int /\ ro[d] \in Int /\ i[d] \in Int /\ ri[d] \in Int
  BY <1>2, OverAll
<1>4. \A d \in D : fs[d] \in Int /\ fc[d] \in Int /\ fd[d] \in Int
  BY DocsFinite
<1>5. \A d \in D : /\ fs[d] + r[d] = 0 /\ fc[d] + (o[d] + ro[d]) = 0 /\ fd[d] = i[d] + ri[d]
  BY DocColumns
<1>6. \A d \in D : z[d] = 0 /\ oro[d] = o[d] + ro[d]
  OBVIOUS
<1>7. /\ Documented(docs, Sold(class)) = SumFunctionOnSet(fs, D)
      /\ Documented(docs, Charged(class)) = SumFunctionOnSet(fc, D)
      /\ Documented(docs, Deducted(class)) = SumFunctionOnSet(fd, D)
  BY DEF Documented
<1>. HIDE DEF D, fs, fc, fd, r, o, ro, i, ri, z, oro
<1>8. SumFunctionOnSet(z, D) = 0
  BY <1>1, <1>6, SumZero
<1>9. SumFunctionOnSet(z, D) = SumFunctionOnSet(fs, D) + SumFunctionOnSet(r, D)
  <2>1. \A d \in D : fs[d] \in Int /\ r[d] \in Int /\ z[d] = fs[d] + r[d]
    BY <1>3, <1>4, <1>5, <1>6
  <2>. QED  BY <1>1, <2>1, SumPlus
<1>10. SumFunctionOnSet(z, D) = SumFunctionOnSet(fc, D) + SumFunctionOnSet(oro, D)
  <2>1. \A d \in D : fc[d] \in Int /\ oro[d] \in Int /\ z[d] = fc[d] + oro[d]
    BY <1>3, <1>4, <1>5, <1>6
  <2>. QED  BY <1>1, <2>1, SumPlus
<1>11. SumFunctionOnSet(oro, D) = SumFunctionOnSet(o, D) + SumFunctionOnSet(ro, D)
  BY <1>1, <1>3, <1>6, SumPlus
<1>12. SumFunctionOnSet(fd, D) = SumFunctionOnSet(i, D) + SumFunctionOnSet(ri, D)
  BY <1>1, <1>3, <1>5, SumPlus
<1>. QED
  BY <1>3, <1>7, <1>8, <1>9, <1>10, <1>11, <1>12

\* The values of a function with a finite domain are finitely many.
LEMMA ImageFinite ==
  ASSUME NEW S, IsFiniteSet(S), NEW f, DOMAIN f = S
  PROVE  IsFiniteSet({f[x] : x \in S})
<1> DEFINE T == {f[x] : x \in S}
<1>1. [x \in S |-> f[x]] \in Surjection(S, T)
  BY DEF Surjection
<1>. QED
  BY <1>1, FS_Surjection

\* Finitely many classifications occur.
LEMMA ClassesFinite ==
  ASSUME EntriesOK, DocsOK
  PROVE  IsFiniteSet(Classes)
<1> DEFINE B == [e \in DOMAIN books |-> books[e].lines]
           L == {B[e] : e \in DOMAIN books}
           U == UNION L
           c == [x \in U |-> x.class]
           K == [d \in DOMAIN docs |-> {docs[d].lines[i].vat.class : i \in DOMAIN docs[d].lines}]
           V == UNION {K[d] : d \in DOMAIN docs}
<1>1. IsFiniteSet(L)
  <2>1. IsFiniteSet(DOMAIN books) /\ DOMAIN B = DOMAIN books
    BY BooksFinite
  <2>. HIDE DEF B
  <2>. QED  BY <2>1, ImageFinite
<1>2. \A T \in L : IsFiniteSet(T)
  BY DEF EntriesOK, JLines
<1>3. IsFiniteSet(U)
  <2>. HIDE DEF L
  <2>. QED  BY <1>1, <1>2, FS_UNION
<1>4. IsFiniteSet({c[x] : x \in U})
  <2>1. DOMAIN c = U
    OBVIOUS
  <2>. HIDE DEF c, U
  <2>. QED  BY <1>3, <2>1, ImageFinite
<1>5. {c[x] : x \in U} = {x.class : x \in UNION {books[e].lines : e \in DOMAIN books}}
  <2>1. U = UNION {books[e].lines : e \in DOMAIN books}
    OBVIOUS
  <2>. QED
    BY <2>1
<1>6. ASSUME NEW d \in DOMAIN docs PROVE IsFiniteSet(K[d])
  <2> DEFINE k == [i \in DOMAIN docs[d].lines |-> docs[d].lines[i].vat.class]
  <2>1. IsFiniteSet(DOMAIN docs[d].lines)
    BY DocFacts, LineFacts DEF DocsOK
  <2>2. DOMAIN k = DOMAIN docs[d].lines
    OBVIOUS
  <2>3. {k[i] : i \in DOMAIN docs[d].lines} = K[d]
    OBVIOUS
  <2>. HIDE DEF k, K
  <2>. QED
    BY <2>1, <2>2, <2>3, ImageFinite
<1>7. IsFiniteSet({K[d] : d \in DOMAIN docs})
  <2>1. IsFiniteSet(DOMAIN docs) /\ DOMAIN K = DOMAIN docs
    BY DocsFinite
  <2>. HIDE DEF K
  <2>. QED  BY <2>1, ImageFinite
<1>8. IsFiniteSet(V)
  <2>1. \A T \in {K[d] : d \in DOMAIN docs} : IsFiniteSet(T)
    BY <1>6
  <2>. HIDE DEF K
  <2>. QED  BY <1>7, <2>1, FS_UNION
<1>9. V = UNION {{docs[d].lines[i].vat.class : i \in DOMAIN docs[d].lines} : d \in DOMAIN docs}
  OBVIOUS
<1>. HIDE DEF c, U, V
<1>10. Classes = {c[x] : x \in U} \union V
  BY <1>5, <1>9 DEF Classes
<1>. QED
  BY <1>4, <1>8, <1>10, FS_Union

Cost(class) == {"EXPENSE"} \X {class}

\* Classifications that occur are names.
LEMMA ClassIsName ==
  /\ EntriesOK => \A e \in DOMAIN books : \A x \in books[e].lines :
                    x.class \in Classes /\ x.class \in Name
  /\ DocsOK => \A d \in DOMAIN docs : \A i \in DOMAIN docs[d].lines :
                    /\ docs[d].lines[i].vat.class \in Classes
                    /\ docs[d].lines[i].vat.class \in Name
<1>1. ASSUME EntriesOK, NEW e \in DOMAIN books, NEW x \in books[e].lines
      PROVE  x.class \in Classes /\ x.class \in Name
  <2>1. x \in JLine
    BY <1>1 DEF EntriesOK, JLines
  <2>2. x.class \in Name
    BY <2>1 DEF JLine
  <2>3. x \in UNION {books[k].lines : k \in DOMAIN books}
    OBVIOUS
  <2>. QED
    BY <2>2, <2>3 DEF Classes
<1>2. ASSUME DocsOK, NEW d \in DOMAIN docs, NEW i \in DOMAIN docs[d].lines
      PROVE  /\ docs[d].lines[i].vat.class \in Classes
             /\ docs[d].lines[i].vat.class \in Name
  <2>1. docs[d].lines[i] \in DocLine
    BY <1>2, DocFacts, LineFacts DEF DocsOK
  <2>2. docs[d].lines[i].vat.class \in {docs[d].lines[k].vat.class : k \in DOMAIN docs[d].lines}
    OBVIOUS
  <2>3. docs[d].lines[i].vat.class \in Classes
    BY <2>2 DEF Classes
  <2>. QED
    BY <2>1, <2>3, LineFields
<1>. QED
  BY <1>1, <1>2

\* The expenses of an entry, class by class.
LEMMA EntryByClass ==
  ASSUME EntriesOK, DocsOK, NEW e \in DOMAIN books, NEW g,
         \A class \in Classes : g[class] = Counted(books[e], Cost(class))
  PROVE  SumFunctionOnSet(g, Classes) = Counted(books[e], Spent)
<1> DEFINE E == books[e].lines
           S == In(E, Spent)
           f == [x \in S |-> x.amount]
           key == [x \in S |-> x.class]
<1>1. IsFiniteSet(Classes) /\ JLines(E)
  BY ClassesFinite DEF EntriesOK
<1>2. IsFiniteSet(S) /\ \A x \in S : f[x] \in Int
  BY <1>1, InLines
<1>3. key \in [S -> Classes]
  BY ClassIsName DEF In
<1>4. CASE books[e].status = "POSTED"
  <2>1. ASSUME NEW class \in Classes
        PROVE  g[class] = SumFunctionOnSet(f, Group(S, key, class))
    <3> DEFINE T == In(E, Cost(class))
    <3>1. T = Group(S, key, class)
      BY ClassIsName DEF In, Spent, Cost, Group
    <3>2. T \subseteq S
      BY <3>1 DEF Group
    <3>3. IsFiniteSet(T)
      BY <1>2, <3>2, FS_Subset
    <3>4. \A x \in T : f[x] = x.amount
      BY <3>2
    <3>5. AmountOver(T) = SumFunctionOnSet(f, T)
      <4>. HIDE DEF T, f
      <4>. QED  BY <3>3, <3>4, AmountIs
    <3>6. g[class] = AmountOver(T)
      BY <1>4 DEF Counted, Measure
    <3>. QED
      BY <3>1, <3>5, <3>6
  <2>2. Counted(books[e], Spent) = SumFunctionOnSet(f, S)
    <3>1. Counted(books[e], Spent) = AmountOver(S)
      BY <1>4 DEF Counted, Measure
    <3>2. \A x \in S : f[x] = x.amount
      OBVIOUS
    <3>. HIDE DEF S, f
    <3>. QED
      BY <1>2, <3>1, <3>2, AmountIs
  <2>. HIDE DEF S, f, key
  <2>. QED
    BY <1>1, <1>2, <1>3, <2>1, <2>2, SumByKey
<1>5. CASE books[e].status # "POSTED"
  <2>1. \A class \in Classes : g[class] = 0
    BY <1>5 DEF Counted
  <2>2. Counted(books[e], Spent) = 0
    BY <1>5 DEF Counted
  <2>. QED
    BY <1>1, <2>1, <2>2, SumZero
<1>. QED
  BY <1>4, <1>5

\* The expenses of a document, class by class.
LEMMA DocumentByClass ==
  ASSUME EntriesOK, DocsOK, NEW d \in DOMAIN docs, NEW g,
         \A class \in Classes : g[class] = PerDocument(PurchaseKinds, class, "EXPENSE")[d]
  PROVE  SumFunctionOnSet(g, Classes) = Saying(docs[d], Spent)
<1> DEFINE lines == docs[d].lines
           S == DOMAIN lines
           f == Figures(lines, "EXPENSE")
           key == [i \in S |-> lines[i].vat.class]
           h == [class \in Classes |-> OverLines(lines, class, "EXPENSE")]
           s == Sign(d)
<1>1. IsFiniteSet(Classes) /\ Lined(lines) /\ "EXPENSE" \in FigureLeg
  BY ClassesFinite, DocFacts DEF DocsOK, FigureLeg
<1>2. IsFiniteSet(S) /\ (\A i \in S : f[i] \in Int) /\ \A i \in S : f[i] = Figure(lines[i], "EXPENSE")
  BY <1>1, LineFacts, ToldInt
<1>3. key \in [S -> Classes] /\ \A i \in S : lines[i].vat.class \in Name
  BY ClassIsName
<1>4. Saying(docs[d], Spent) = IF docs[d].kind = "PURCHASE_INVOICE"
                         THEN s * Told(lines, "EXPENSE", Spent) ELSE 0
  BY DocColumns
<1>5. CASE docs[d].kind = "PURCHASE_INVOICE"
  <2>1. ASSUME NEW class \in Classes
        PROVE  h[class] = SumFunctionOnSet(f, Group(S, key, class))
    <3> DEFINE T == {j \in DOMAIN lines : lines[j].vat.class = class}
               k == [i \in T |-> Figure(lines[i], "EXPENSE")]
    <3>1. T = Group(S, key, class)
      BY DEF Group
    <3>2. IsFiniteSet(T) /\ \A i \in T : k[i] = f[i]
      <4>1. T \subseteq S
        OBVIOUS
      <4>2. IsFiniteSet(T)
        BY <1>2, <4>1, FS_Subset
      <4>. QED  BY <1>2, <4>2
    <3>3. h[class] = SumFunctionOnSet(k, T)
      BY DEF OverLines, SumFunction
    <3>4. SumFunctionOnSet(k, T) = SumFunctionOnSet(f, T)
      <4>. HIDE DEF k, T, f
      <4>. QED  BY <3>2, SumSame
    <3>. QED
      BY <3>1, <3>3, <3>4
  <2>2. Told(lines, "EXPENSE", Spent) = SumFunctionOnSet(f, S)
    <3>1. Seen(lines, "EXPENSE", Spent) = S
      BY <1>3 DEF Seen, Spent
    <3>. QED
      BY <3>1 DEF Told
  <2>3. SumFunctionOnSet(h, Classes) = SumFunctionOnSet(f, S)
    <3>. HIDE DEF S, f, key, h
    <3>. QED  BY <1>1, <1>2, <1>3, <2>1, SumByKey
  <2>4. \A class \in Classes : h[class] \in Int /\ g[class] = s * h[class]
    <3>1. \A class \in Classes : h[class] = OverLines(lines, class, "EXPENSE")
      OBVIOUS
    <3>2. \A class \in Classes : OverLines(lines, class, "EXPENSE") \in Int
      BY <1>1, ToldClass
    <3>3. \A class \in Classes : g[class] = s * OverLines(lines, class, "EXPENSE")
      BY <1>5 DEF PerDocument, PurchaseKinds
    <3>. QED
      BY <3>1, <3>2, <3>3
  <2>5. s \in Int
    BY DEF Sign
  <2>6. SumFunctionOnSet(g, Classes) = s * SumFunctionOnSet(h, Classes)
    <3>. HIDE DEF h, s
    <3>. QED  BY <1>1, <2>4, <2>5, SumTimes
  <2>. QED
    BY <1>4, <1>5, <2>2, <2>3, <2>6
<1>6. CASE docs[d].kind # "PURCHASE_INVOICE"
  <2>1. \A class \in Classes : g[class] = 0
    BY <1>6 DEF PerDocument, PurchaseKinds
  <2>. QED
    BY <1>1, <1>4, <1>6, <2>1, SumZero
<1>. QED
  BY <1>5, <1>6

\* Expenses agree in total, classification by classification they need not.
LEMMA ExpensesMeet ==
  ASSUME EntriesOK, DocsOK, Mirrored(docs, books)
  PROVE  SumFunction([class \in Classes |-> PurchaseAmount(class)]) =
           SumFunction([class \in Classes |-> OverDocuments(PurchaseKinds, class, "EXPENSE")])
<1> DEFINE B == DOMAIN books
           D == DOMAIN docs
           p == [class \in Classes |-> PurchaseAmount(class)]
           o == [class \in Classes |-> OverDocuments(PurchaseKinds, class, "EXPENSE")]
           fb == [class \in Classes |-> [e \in B |-> Counted(books[e], Cost(class))]]
           fd == [class \in Classes |-> PerDocument(PurchaseKinds, class, "EXPENSE")]
           hb == [e \in B |-> Counted(books[e], Spent)]
           hd == [d \in D |-> Saying(docs[d], Spent)]
<1>1. IsFiniteSet(B) /\ IsFiniteSet(D) /\ IsFiniteSet(Classes)
  BY BooksFinite, DocsFinite, ClassesFinite
<1>2. /\ \A c \in Classes : \A e \in B : fb[c][e] \in Int /\ fb[c][e] = Counted(books[e], Cost(c))
      /\ \A c \in Classes : \A d \in D :
           fd[c][d] \in Int /\ fd[c][d] = PerDocument(PurchaseKinds, c, "EXPENSE")[d]
  BY BooksFinite, OverAll DEF FigureLeg
<1>3. \A c \in Classes : p[c] = SumFunctionOnSet(fb[c], B)
  <2>1. \A c \in Classes : p[c] = Booked(books, Cost(c))
    BY DebitedBooked DEF PurchaseAmount, Cost
  <2>2. \A c \in Classes : fb[c] = [e \in B |-> Counted(books[e], Cost(c))]
    OBVIOUS
  <2>. HIDE DEF fb, p
  <2>. QED
    BY <2>1, <2>2 DEF Booked
<1>4. \A c \in Classes : o[c] = SumFunctionOnSet(fd[c], D)
  <2>1. "EXPENSE" \in FigureLeg
    BY DEF FigureLeg
  <2>2. \A c \in Classes : OverDocuments(PurchaseKinds, c, "EXPENSE")
                             = SumFunctionOnSet(PerDocument(PurchaseKinds, c, "EXPENSE"), D)
    BY <2>1, OverAll
  <2>3. \A c \in Classes : /\ o[c] = OverDocuments(PurchaseKinds, c, "EXPENSE")
                           /\ fd[c] = PerDocument(PurchaseKinds, c, "EXPENSE")
    OBVIOUS
  <2>. HIDE DEF o, fd, D
  <2>. QED
    BY <2>2, <2>3
<1>5. \A e \in B : hb[e] = SumFunctionOnSet(Column(fb, Classes, e), Classes)
  <2>1. \A e \in B : \A c \in Classes : Column(fb, Classes, e)[c] = Counted(books[e], Cost(c))
    BY DEF Column
  <2>2. \A e \in B : SumFunctionOnSet(Column(fb, Classes, e), Classes) = Counted(books[e], Spent)
    <3>. HIDE DEF fb
    <3>. QED  BY <2>1, EntryByClass
  <2>. QED
    BY <2>2
<1>6. \A d \in D : hd[d] = SumFunctionOnSet(Column(fd, Classes, d), Classes)
  <2>1. \A d \in D : \A c \in Classes :
          Column(fd, Classes, d)[c] = PerDocument(PurchaseKinds, c, "EXPENSE")[d]
    BY DEF Column
  <2>2. \A d \in D : SumFunctionOnSet(Column(fd, Classes, d), Classes) = Saying(docs[d], Spent)
    <3>. HIDE DEF fd
    <3>. QED  BY <2>1, DocumentByClass
  <2>. QED
    BY <2>2
<1>7. SumFunction(p) = SumFunctionOnSet(p, Classes) /\ SumFunction(o) = SumFunctionOnSet(o, Classes)
  BY DEF SumFunction
<1>8. SumFunctionOnSet(hb, B) = SumFunctionOnSet(hd, D)
  BY DEF Mirrored, Booked, Documented
<1>. HIDE DEF B, D, p, o, fb, fd, hb, hd
<1>9. SumFunctionOnSet(p, Classes) = SumFunctionOnSet(hb, B)
  <2>1. \A c \in Classes : \A e \in B : fb[c][e] \in Int
    BY <1>2
  <2>. QED
    BY <1>1, <1>3, <1>5, <2>1, SumSwap
<1>10. SumFunctionOnSet(o, Classes) = SumFunctionOnSet(hd, D)
  <2>1. \A c \in Classes : \A d \in D : fd[c][d] \in Int
    BY <1>2
  <2>. QED
    <3>1. IsFiniteSet(Classes) /\ IsFiniteSet(D)
      BY <1>1
    <3>2. \A c \in Classes : o[c] = SumFunctionOnSet(fd[c], D)
      BY <1>4
    <3>3. \A d \in D : hd[d] = SumFunctionOnSet(Column(fd, Classes, d), Classes)
      BY <1>6
    <3>. QED
      BY <2>1, <3>1, <3>2, <3>3, SumSwap
<1>. QED
  BY <1>7, <1>8, <1>9, <1>10 DEF p, o

\* Sales and VAT agree per classification.
LEMMA ClassesMeet ==
  ASSUME EntriesOK, DocsOK, Mirrored(docs, books), NEW class
  PROVE  /\ SalesAmount(class) = OverDocuments(SalesKinds, class, "REVENUE")
         /\ OutputVat(class) = OverDocuments(SalesKinds, class, "OUTPUT_VAT")
                                 + OverDocuments(PurchaseKinds, class, "RC_OUTPUT_VAT")
         /\ InputVat(class) = OverDocuments(PurchaseKinds, class, "INPUT_VAT")
                                + OverDocuments(PurchaseKinds, class, "RC_INPUT_VAT")
<1> DEFINE s == Debited(class, {"REVENUE"})
           c == Debited(class, {"OUTPUT_VAT", "RC_OUTPUT_VAT"})
           i == Debited(class, {"INPUT_VAT", "RC_INPUT_VAT"})
           r == OverDocuments(SalesKinds, class, "REVENUE")
           o == OverDocuments(SalesKinds, class, "OUTPUT_VAT")
           ro == OverDocuments(PurchaseKinds, class, "RC_OUTPUT_VAT")
<1>1. /\ s = Documented(docs, Sold(class)) /\ c = Documented(docs, Charged(class))
      /\ i = Documented(docs, Deducted(class)) /\ s \in Int /\ c \in Int
  BY DebitedBooked DEF Mirrored, Sold, Charged, Deducted
<1>2. r \in Int /\ o \in Int /\ ro \in Int
  BY OverAll DEF FigureLeg, Leg
<1>3. s + r = 0 /\ c + (o + ro) = 0
  BY <1>1, DocumentedSums
<1>4. - s = r /\ - c = o + ro
  <2>1. \A n \in Int, m \in Int : n + m = 0 => - n = m
    OBVIOUS
  <2>2. o + ro \in Int
    BY <1>2
  <2>. HIDE DEF s, c, r, o, ro
  <2>. QED  BY <1>1, <1>2, <1>3, <2>1, <2>2
<1>. QED
  BY <1>1, <1>4, DocumentedSums DEF SalesAmount, OutputVat, InputVat

\* Where entries balance and say what documents say, the VAT summary does too.
LEMMA BooksMeetFromInv == EntriesOK /\ DocsOK /\ Mirrored(docs, books) => BooksMeetDocuments
<1>. SUFFICES ASSUME EntriesOK, DocsOK, Mirrored(docs, books) PROVE BooksMeetDocuments
  OBVIOUS
<1>1. \A e \in DOMAIN books : SumFunction([x \in books[e].lines |-> x.amount]) = 0
  <2>1. \A e \in DOMAIN books : AmountOver(books[e].lines) = 0
    BY WholeEntry DEF EntriesOK
  <2>. QED
    BY <2>1 DEF AmountOver
<1>. QED
  BY <1>1, ClassesMeet, ExpensesMeet DEF BooksMeetDocuments

(***************************************************************************)
(* The inductive invariant.                                                *)
(***************************************************************************)

Prepared == [kind : Kind, lines : Seq(InputLine), percent : 0 .. 100, amount : Nat, taxes : TaxMap]

DocStatus == {"ISSUED", "CREDITED", "CORRECTED"}

DocRow == [kind : Kind, lines : Seq(DocLine), input : Prepared, total : Int, used : Int,
           applied : Int, credited : Int, status : DocStatus, entry : Nat]

BookRow == [status : {"POSTED", "REVERSED"}, lines : SUBSET JLine]

RowOK(row) == row \in BookRow /\ JLines(row.lines) /\ Measure(row.lines, All) = 0
BooksOK(bs) == bs \in Seq(BookRow) /\ \A e \in DOMAIN bs : RowOK(bs[e])

DocRowOK(doc) ==
  doc \in DocRow /\ DocOK(doc) /\ (doc.status = "CORRECTED" => doc.kind = "PURCHASE_INVOICE")
DocsRight(ds) == ds \in Seq(DocRow) /\ \A d \in DOMAIN ds : DocRowOK(ds[d])

\* Every document has an entry of its own, counted as long as it stands.
Entered(doc, bs) ==
  /\ doc.entry \in DOMAIN bs /\ bs[doc.entry].lines = EntryOf(doc)
  /\ doc.status # "CORRECTED" => bs[doc.entry].status = "POSTED"

Linked(ds, bs) ==
  /\ \A d \in DOMAIN ds : Entered(ds[d], bs)
  /\ \A c, d \in DOMAIN ds : ds[c].entry = ds[d].entry => c = d

Joint(ds, bs) == BooksOK(bs) /\ DocsRight(ds) /\ Linked(ds, bs) /\ Mirrored(ds, bs)

\* A sequence with one element more.
LEMMA AppendFacts ==
  ASSUME NEW S, NEW s \in Seq(S), NEW x \in S
  PROVE  /\ Append(s, x) \in Seq(S) /\ Len(s) \in Nat
         /\ Len(Append(s, x)) = Len(s) + 1
         /\ DOMAIN s = 1 .. Len(s) /\ DOMAIN Append(s, x) = 1 .. (Len(s) + 1)
         /\ \A i \in DOMAIN s : Append(s, x)[i] = s[i]
         /\ Append(s, x)[Len(s) + 1] = x
         /\ \A i \in DOMAIN Append(s, x) : i \in DOMAIN s \/ i = Len(s) + 1
  BY AppendProperties, LenProperties

\* What a journal entry says is an integer.
LEMMA RowInt ==
  ASSUME NEW row, RowOK(row), NEW Q
  PROVE  Counted(row, Q) \in Int
  BY MeasureInt DEF RowOK, Counted

\* What a document says is an integer.
LEMMA DocInt ==
  ASSUME NEW doc, DocRowOK(doc), NEW Q
  PROVE  Saying(doc, Q) \in Int
<1> DEFINE m == Measure(EntryOf(doc), Q)
<1>1. m \in Int
  BY EntryBalanced, MeasureInt DEF DocRowOK
<1>2. Weight(doc) \in {1, -1}
  BY DEF Weight
<1>. HIDE DEF m
<1>3. Weight(doc) * m \in Int
  BY <1>1, <1>2, Signed
<1>. QED
  BY <1>3 DEF Saying, m

\* An entry that is posted adds what it says.
LEMMA BookAppend ==
  ASSUME NEW bs, BooksOK(bs), NEW row, RowOK(row)
  PROVE  /\ BooksOK(Append(bs, row))
         /\ \A Q : Booked(Append(bs, row), Q) = Booked(bs, Q) + Counted(row, Q)
         /\ \A Q : Booked(bs, Q) \in Int
<1> DEFINE cs == Append(bs, row)
           n == Len(bs)
<1>1. bs \in Seq(BookRow) /\ row \in BookRow
  BY DEF BooksOK, RowOK
<1>2. /\ cs \in Seq(BookRow) /\ n \in Nat /\ DOMAIN bs = 1 .. n /\ DOMAIN cs = 1 .. (n + 1)
      /\ \A i \in DOMAIN bs : cs[i] = bs[i]
      /\ cs[n + 1] = row /\ \A i \in DOMAIN cs : i \in DOMAIN bs \/ i = n + 1
  BY <1>1, AppendFacts
<1>. HIDE DEF cs, n
<1>3. BooksOK(cs)
  BY <1>2 DEF BooksOK
<1>4. ASSUME NEW Q
      PROVE  /\ Booked(cs, Q) = Booked(bs, Q) + Counted(row, Q)
             /\ Booked(bs, Q) \in Int
  <2> DEFINE f == [e \in DOMAIN bs |-> Counted(bs[e], Q)]
             g == [e \in DOMAIN cs |-> Counted(cs[e], Q)]
  <2>1. \A i \in DOMAIN bs : f[i] = Counted(bs[i], Q) /\ f[i] \in Int
    BY RowInt DEF BooksOK
  <2>2. \A i \in DOMAIN bs : i \in DOMAIN cs
    BY <1>2
  <2>3. \A i \in DOMAIN bs : g[i] = f[i]
    BY <1>2, <2>1, <2>2
  <2>4. n + 1 \in DOMAIN cs
    BY <1>2
  <2>5. g[n + 1] = Counted(row, Q) /\ g[n + 1] \in Int
    BY <1>2, <2>4, RowInt
  <2>6. Booked(bs, Q) = SumFunctionOnSet(f, 1 .. n)
        /\ Booked(cs, Q) = SumFunctionOnSet(g, 1 .. (n + 1))
    BY <1>2 DEF Booked
  <2>. HIDE DEF f, g
  <2>7. SumFunctionOnSet(g, 1 .. (n + 1)) = SumFunctionOnSet(f, 1 .. n) + g[n + 1]
    BY <1>2, <2>1, <2>3, <2>5, SumAppend
  <2>8. SumFunctionOnSet(f, DOMAIN bs) \in Int
    <3>1. IsFiniteSet(1 .. n)
      BY <1>2, FS_Interval
    <3>. QED
      BY <1>2, <2>1, <3>1, SumInt
  <2>. QED
    BY <1>2, <2>5, <2>6, <2>7, <2>8
<1>. QED
  BY <1>3, <1>4 DEF cs

\* A document that is issued adds what it says.
LEMMA DocAppend ==
  ASSUME NEW ds, DocsRight(ds), NEW doc, DocRowOK(doc)
  PROVE  /\ DocsRight(Append(ds, doc))
         /\ \A Q : Documented(Append(ds, doc), Q) = Documented(ds, Q) + Saying(doc, Q)
<1> DEFINE cs == Append(ds, doc)
           n == Len(ds)
<1>1. ds \in Seq(DocRow) /\ doc \in DocRow
  BY DEF DocsRight, DocRowOK
<1>2. /\ cs \in Seq(DocRow) /\ n \in Nat /\ DOMAIN ds = 1 .. n /\ DOMAIN cs = 1 .. (n + 1)
      /\ \A i \in DOMAIN ds : cs[i] = ds[i]
      /\ cs[n + 1] = doc /\ \A i \in DOMAIN cs : i \in DOMAIN ds \/ i = n + 1
  BY <1>1, AppendFacts
<1>. HIDE DEF cs, n
<1>3. DocsRight(cs)
  BY <1>2 DEF DocsRight
<1>4. ASSUME NEW Q
      PROVE  Documented(cs, Q) = Documented(ds, Q) + Saying(doc, Q)
  <2> DEFINE f == [e \in DOMAIN ds |-> Saying(ds[e], Q)]
             g == [e \in DOMAIN cs |-> Saying(cs[e], Q)]
  <2>1. \A i \in DOMAIN ds : f[i] = Saying(ds[i], Q) /\ f[i] \in Int
    BY DocInt DEF DocsRight
  <2>2. \A i \in DOMAIN ds : i \in DOMAIN cs
    BY <1>2
  <2>3. \A i \in DOMAIN ds : g[i] = f[i]
    BY <1>2, <2>1, <2>2
  <2>4. n + 1 \in DOMAIN cs
    BY <1>2
  <2>5. g[n + 1] = Saying(doc, Q) /\ g[n + 1] \in Int
    BY <1>2, <2>4, DocInt
  <2>6. Documented(ds, Q) = SumFunctionOnSet(f, 1 .. n)
        /\ Documented(cs, Q) = SumFunctionOnSet(g, 1 .. (n + 1))
    BY <1>2 DEF Documented
  <2>. HIDE DEF f, g
  <2>7. SumFunctionOnSet(g, 1 .. (n + 1)) = SumFunctionOnSet(f, 1 .. n) + g[n + 1]
    BY <1>2, <2>1, <2>3, <2>5, SumAppend
  <2>. QED
    BY <2>5, <2>6, <2>7
<1>. QED
  BY <1>3, <1>4 DEF cs

\* Documents that differ in what is applied to them and credited of them only.
Same(a, b) ==
  /\ a.kind = b.kind /\ a.lines = b.lines /\ a.used = b.used /\ a.entry = b.entry
  /\ a.status = "CORRECTED" <=> b.status = "CORRECTED"

\* What is applied to a document or credited of it changes nothing it says.
LEMMA SameDoc ==
  ASSUME NEW a, NEW b, Same(a, b)
  PROVE  /\ EntryOf(a) = EntryOf(b) /\ Weight(a) = Weight(b)
         /\ \A Q : Saying(a, Q) = Saying(b, Q)
         /\ \A bs : Entered(b, bs) => Entered(a, bs)
         /\ a \in DocRow /\ DocRowOK(b) => DocRowOK(a)
<1>1. EntryOf(a) = EntryOf(b)
  BY DEF Same, EntryOf
<1>2. Weight(a) = Weight(b)
  BY DEF Same, Weight
<1>3. \A Q : Saying(a, Q) = Saying(b, Q)
  BY <1>1, <1>2 DEF Saying
<1>4. \A bs : Entered(b, bs) => Entered(a, bs)
  BY <1>1 DEF Same, Entered
<1>5. DocOK(b) => DocOK(a)
  BY DEF Same, DocOK
<1>6. a \in DocRow /\ DocRowOK(b) => DocRowOK(a)
  BY <1>5 DEF Same, DocRowOK
<1>. QED
  BY <1>1, <1>2, <1>3, <1>4, <1>6

\* The same, of all documents.
LEMMA TwinKeeps ==
  ASSUME NEW ds, NEW bs, DocsRight(ds), Linked(ds, bs), NEW es \in Seq(DocRow),
         DOMAIN es = DOMAIN ds, \A d \in DOMAIN ds : Same(es[d], ds[d])
  PROVE  DocsRight(es) /\ Linked(es, bs) /\ \A Q : Documented(es, Q) = Documented(ds, Q)
<1>1. DocsRight(es)
  <2>1. ASSUME NEW d \in DOMAIN es PROVE DocRowOK(es[d])
    <3>1. es[d] \in DocRow
      BY LenProperties, ElementOfSeq
    <3>2. DocRowOK(ds[d])
      BY DEF DocsRight
    <3>. QED
      BY <3>1, <3>2, SameDoc
  <2>. QED
    BY <2>1 DEF DocsRight
<1>2. Linked(es, bs)
  <2>1. \A d \in DOMAIN es : Entered(es[d], bs)
    BY SameDoc DEF Linked
  <2>2. \A c, d \in DOMAIN es : es[c].entry = es[d].entry => c = d
    BY DEF Linked, Same
  <2>. QED
    BY <2>1, <2>2 DEF Linked
<1>3. ASSUME NEW Q PROVE Documented(es, Q) = Documented(ds, Q)
  <2>1. \A d \in DOMAIN ds : Saying(es[d], Q) = Saying(ds[d], Q)
    BY SameDoc
  <2> DEFINE f == [d \in DOMAIN ds |-> Saying(ds[d], Q)]
             g == [d \in DOMAIN es |-> Saying(es[d], Q)]
  <2>2. f = g
    BY <2>1
  <2>. QED
    BY <2>2 DEF Documented
<1>. QED
  BY <1>1, <1>2, <1>3

\* A document posted with its entry.
LEMMA JointAppend ==
  ASSUME NEW ds, NEW bs, Joint(ds, bs), NEW es \in Seq(DocRow), DOMAIN es = DOMAIN ds,
         \A d \in DOMAIN ds : Same(es[d], ds[d]),
         NEW doc, DocRowOK(doc), doc.status = "ISSUED", doc.entry = Len(bs) + 1,
         NEW entry, entry = EntryOf(doc)
  PROVE  Joint(Append(es, doc), Append(bs, [status |-> "POSTED", lines |-> entry]))
<1> DEFINE row == [status |-> "POSTED", lines |-> entry]
           cs == Append(bs, row)
           fs == Append(es, doc)
           n == Len(bs)
           m == Len(es)
<1>1. /\ DocsRight(es) /\ Linked(es, bs)
      /\ \A Q : Documented(es, Q) = Documented(ds, Q)
  BY TwinKeeps DEF Joint
<1>2. RowOK(row) /\ row.status = "POSTED" /\ row.lines = entry
  <2>1. JLines(entry) /\ Measure(entry, All) = 0
    BY EntryBalanced DEF DocRowOK
  <2>2. row \in BookRow
    BY <2>1 DEF BookRow, JLines
  <2>. QED
    BY <2>1, <2>2 DEF RowOK
<1>3. /\ cs \in Seq(BookRow) /\ n \in Nat /\ DOMAIN bs = 1 .. n /\ DOMAIN cs = 1 .. (n + 1)
      /\ \A i \in DOMAIN bs : cs[i] = bs[i]
      /\ cs[n + 1] = row
  <2>1. bs \in Seq(BookRow) /\ row \in BookRow
    BY <1>2 DEF Joint, BooksOK, RowOK
  <2>. HIDE DEF row
  <2>. QED
    BY <2>1, AppendFacts
<1>4. /\ fs \in Seq(DocRow) /\ m \in Nat /\ DOMAIN es = 1 .. m /\ DOMAIN fs = 1 .. (m + 1)
      /\ \A i \in DOMAIN es : fs[i] = es[i]
      /\ fs[m + 1] = doc /\ \A i \in DOMAIN fs : i \in DOMAIN es \/ i = m + 1
  BY AppendFacts DEF DocRowOK
<1>5. BooksOK(cs) /\ \A Q : Booked(cs, Q) = Booked(bs, Q) + Counted(row, Q)
  <2>. HIDE DEF row
  <2>. QED  BY <1>2, BookAppend DEF Joint
<1>6. DocsRight(fs) /\ \A Q : Documented(fs, Q) = Documented(es, Q) + Saying(doc, Q)
  BY <1>1, DocAppend
<1>. HIDE DEF row, cs, fs, n, m
<1>7. \A Q : Saying(doc, Q) = Counted(row, Q)
  <2>1. \A Q : Measure(entry, Q) \in Int
    BY <1>2, MeasureInt DEF RowOK
  <2>2. Weight(doc) = 1
    BY DEF Weight
  <2>. QED
    BY <1>2, <2>1, <2>2 DEF Saying, Counted
<1>8. Mirrored(fs, cs)
  BY <1>1, <1>5, <1>6, <1>7 DEF Joint, Mirrored
<1>9. Linked(fs, cs)
  <2>1. ASSUME NEW d \in DOMAIN es
        PROVE  Entered(fs[d], cs) /\ fs[d].entry \in DOMAIN bs /\ fs[d].entry = es[d].entry
    <3>1. Entered(es[d], bs) /\ fs[d] = es[d]
      BY <1>1, <1>4 DEF Linked
    <3>2. es[d].entry \in DOMAIN bs /\ es[d].entry \in DOMAIN cs
      BY <1>3, <3>1 DEF Entered
    <3>3. cs[es[d].entry] = bs[es[d].entry]
      BY <1>3, <3>2
    <3>. QED
      BY <3>1, <3>2, <3>3 DEF Entered
  <2>2. Entered(fs[m + 1], cs) /\ fs[m + 1].entry = n + 1
    BY <1>2, <1>3, <1>4 DEF Entered, n
  <2>3. n + 1 \notin DOMAIN bs
    BY <1>3
  <2>4. \A d \in DOMAIN fs : Entered(fs[d], cs)
    BY <1>4, <2>1, <2>2
  <2>5. ASSUME NEW c \in DOMAIN fs, NEW d \in DOMAIN fs, fs[c].entry = fs[d].entry
        PROVE  c = d
    <3>1. CASE c \in DOMAIN es /\ d \in DOMAIN es
      BY <1>1, <2>1, <2>5, <3>1 DEF Linked
    <3>2. CASE c = m + 1 /\ d \in DOMAIN es
      BY <2>1, <2>2, <2>3, <2>5, <3>2
    <3>3. CASE c \in DOMAIN es /\ d = m + 1
      BY <2>1, <2>2, <2>3, <2>5, <3>3
    <3>. QED
      BY <1>4, <3>1, <3>2, <3>3
  <2>. QED
    BY <2>4, <2>5 DEF Linked
<1>. QED
  BY <1>5, <1>6, <1>8, <1>9 DEF Joint, cs, fs, row

\* An entry that is reversed no longer says anything.
LEMMA BookReversed ==
  ASSUME NEW bs, BooksOK(bs), NEW e \in DOMAIN bs
  PROVE  LET cs == [bs EXCEPT ![e].status = "REVERSED"]
         IN  /\ BooksOK(cs) /\ DOMAIN cs = DOMAIN bs
             /\ \A i \in DOMAIN bs : cs[i].lines = bs[i].lines
             /\ \A i \in DOMAIN bs : i # e => cs[i].status = bs[i].status
             /\ \A Q : Booked(cs, Q) = Booked(bs, Q) - Counted(bs[e], Q)
<1> DEFINE cs == [bs EXCEPT ![e].status = "REVERSED"]
           row == [bs[e] EXCEPT !.status = "REVERSED"]
<1>1. /\ bs \in Seq(BookRow) /\ DOMAIN bs = 1 .. Len(bs) /\ Len(bs) \in Nat
      /\ \A i \in DOMAIN bs : RowOK(bs[i])
  BY LenProperties DEF BooksOK
<1>2. RowOK(row) /\ row.status = "REVERSED" /\ row.lines = bs[e].lines /\ row \in BookRow
  BY <1>1 DEF RowOK, BookRow
<1>3. cs = [bs EXCEPT ![e] = row]
  OBVIOUS
<1>. HIDE DEF row, cs
<1>4. cs \in Seq(BookRow) /\ DOMAIN cs = DOMAIN bs
  <2>1. e \in 1 .. Len(bs)
    BY <1>1
  <2>2. [bs EXCEPT ![e] = row] \in Seq(BookRow)
    BY <1>1, <1>2, <2>1, ExceptSeq
  <2>. QED
    BY <1>3, <2>2
<1>5. \A i \in DOMAIN bs : cs[i] = IF i = e THEN row ELSE bs[i]
  BY <1>3
<1>6. BooksOK(cs)
  BY <1>1, <1>2, <1>4, <1>5 DEF BooksOK
<1>7. ASSUME NEW Q
      PROVE  Booked(cs, Q) = Booked(bs, Q) - Counted(bs[e], Q)
  <2> DEFINE D == DOMAIN bs
             f == [i \in D |-> Counted(bs[i], Q)]
             g == [i \in D |-> Counted(cs[i], Q)]
  <2>1. IsFiniteSet(D)
    BY <1>1, FS_Interval
  <2>2. (\A i \in D : f[i] \in Int) /\ f[e] = Counted(bs[e], Q)
    BY <1>1, RowInt
  <2>3. g[e] = 0
    BY <1>2, <1>5 DEF Counted
  <2>4. \A i \in D \ {e} : g[i] = f[i]
    BY <1>5
  <2>5. Booked(bs, Q) = SumFunctionOnSet(f, D) /\ Booked(cs, Q) = SumFunctionOnSet(g, D)
    BY <1>4 DEF Booked
  <2>. HIDE DEF f, g, D
  <2>6. e \in D /\ g[e] \in Int
    BY <2>3 DEF D
  <2>7. SumFunctionOnSet(g, D) = SumFunctionOnSet(f, D) - f[e] + g[e]
    BY <2>1, <2>2, <2>4, <2>6, SumChange
  <2>8. SumFunctionOnSet(f, D) \in Int
    BY <2>1, <2>2, SumInt
  <2>9. f[e] \in Int
    BY <2>2, <2>6
  <2>. QED
    BY <2>2, <2>3, <2>5, <2>7, <2>8, <2>9
<1>. QED
  BY <1>2, <1>4, <1>5, <1>6, <1>7 DEF cs

\* The mirror of an entry says the contrary.
LEMMA MirrorRow ==
  ASSUME NEW E, JLines(E), Measure(E, All) = 0
  PROVE  LET row == [status |-> "POSTED", lines |-> Reversed(E)]
         IN  /\ RowOK(row) /\ row \in BookRow
             /\ \A Q : Counted(row, Q) = - Measure(E, Q) /\ Measure(E, Q) \in Int
<1> DEFINE row == [status |-> "POSTED", lines |-> Reversed(E)]
           R == Reversed(E)
<1>1. JLines(R) /\ \A Q : Measure(R, Q) = - Measure(E, Q) /\ Measure(E, Q) \in Int
  BY MeasureReversed, MeasureInt
<1>. HIDE DEF R
<1>2. row.status = "POSTED" /\ row.lines = R /\ row \in BookRow
  BY <1>1 DEF BookRow, JLines, R
<1>3. Measure(R, All) = 0
  <2>1. Measure(R, All) \in Int
    BY <1>1, MeasureInt
  <2> DEFINE m == Measure(R, All)
             n == Measure(E, All)
  <2>2. m = - n /\ n \in Int
    BY <1>1
  <2>3. n + n = n
    OBVIOUS
  <2>. HIDE DEF m, n
  <2>4. m + m = m
    BY <2>2, <2>3
  <2>5. m \in Int
    BY <2>1 DEF m
  <2>6. m = 0
    BY <2>4, <2>5
  <2>. QED
    BY <2>6 DEF m
<1>4. RowOK(row)
  BY <1>1, <1>2, <1>3 DEF RowOK
<1>5. \A Q : Counted(row, Q) = - Measure(E, Q)
  BY <1>1, <1>2 DEF Counted
<1>. QED
  BY <1>1, <1>2, <1>4, <1>5

\* A purchase that is corrected says the contrary.
LEMMA DocCorrected ==
  ASSUME NEW ds, DocsRight(ds), NEW d \in DOMAIN ds, ds[d].kind = "PURCHASE_INVOICE",
         ds[d].status = "ISSUED"
  PROVE  LET es == [ds EXCEPT ![d].status = "CORRECTED"]
             m(Q) == Measure(EntryOf(ds[d]), Q)
         IN  /\ DocsRight(es) /\ DOMAIN es = DOMAIN ds
             /\ \A i \in DOMAIN ds : i # d => es[i] = ds[i]
             /\ es[d].entry = ds[d].entry /\ EntryOf(es[d]) = EntryOf(ds[d])
             /\ es[d].status = "CORRECTED"
             /\ \A Q : Documented(es, Q) = Documented(ds, Q) - m(Q) + (- m(Q))
             /\ \A Q : Documented(ds, Q) \in Int
<1> DEFINE es == [ds EXCEPT ![d].status = "CORRECTED"]
           doc == [ds[d] EXCEPT !.status = "CORRECTED"]
<1>1. /\ ds \in Seq(DocRow) /\ DOMAIN ds = 1 .. Len(ds) /\ Len(ds) \in Nat
      /\ \A i \in DOMAIN ds : DocRowOK(ds[i])
  BY LenProperties DEF DocsRight
<1>2. /\ doc.kind = ds[d].kind /\ doc.lines = ds[d].lines /\ doc.used = ds[d].used
      /\ doc.entry = ds[d].entry /\ doc.status = "CORRECTED" /\ doc \in DocRow
  <2>1. ds[d] \in DocRow
    BY <1>1 DEF DocRowOK
  <2>. QED
    BY <2>1 DEF DocRow, DocStatus
<1>3. es = [ds EXCEPT ![d] = doc]
  OBVIOUS
<1>. HIDE DEF doc, es
<1>4. DocRowOK(doc)
  <2>1. DocOK(ds[d])
    BY <1>1 DEF DocRowOK
  <2>. QED
    BY <1>2, <2>1 DEF DocRowOK, DocOK
<1>5. es \in Seq(DocRow) /\ DOMAIN es = DOMAIN ds
  <2>1. d \in 1 .. Len(ds)
    BY <1>1
  <2>2. [ds EXCEPT ![d] = doc] \in Seq(DocRow)
    BY <1>1, <1>2, <2>1, ExceptSeq
  <2>. QED
    BY <1>3, <2>2
<1>6. \A i \in DOMAIN ds : es[i] = IF i = d THEN doc ELSE ds[i]
  BY <1>3
<1>7. DocsRight(es)
  BY <1>1, <1>4, <1>5, <1>6 DEF DocsRight
<1>8. EntryOf(doc) = EntryOf(ds[d])
  BY <1>2 DEF EntryOf
<1>9. ASSUME NEW Q
      PROVE  LET m == Measure(EntryOf(ds[d]), Q)
             IN  /\ Documented(es, Q) = Documented(ds, Q) - m + (- m)
                 /\ Documented(ds, Q) \in Int
  <2> DEFINE D == DOMAIN ds
             f == [i \in D |-> Saying(ds[i], Q)]
             g == [i \in D |-> Saying(es[i], Q)]
             m == Measure(EntryOf(ds[d]), Q)
  <2>0. m \in Int
    BY <1>1, EntryBalanced, MeasureInt DEF DocRowOK
  <2>1. IsFiniteSet(D)
    BY <1>1, FS_Interval
  <2>2. (\A i \in D : f[i] \in Int) /\ f[d] = Saying(ds[d], Q)
    BY <1>1, DocInt
  <2>3. f[d] = m
    <3>1. Weight(ds[d]) = 1
      BY DEF Weight
    <3>. HIDE DEF f
    <3>. QED
      BY <2>0, <2>2, <3>1 DEF Saying
  <2>4. g[d] = - m
    <3>1. Weight(doc) = -1
      BY <1>2 DEF Weight
    <3>2. g[d] = (-1) * m
      BY <1>6, <1>8, <3>1 DEF Saying
    <3>. HIDE DEF g, m
    <3>. QED
      BY <2>0, <3>2
  <2>5. \A i \in D \ {d} : g[i] = f[i]
    BY <1>6
  <2>6. Documented(ds, Q) = SumFunctionOnSet(f, D) /\ Documented(es, Q) = SumFunctionOnSet(g, D)
    BY <1>5 DEF Documented
  <2>. HIDE DEF f, g, D, m
  <2>7. d \in D /\ g[d] \in Int
    <3>1. - m \in Int
      BY <2>0
    <3>. QED
      BY <2>4, <3>1 DEF D
  <2>8. SumFunctionOnSet(g, D) = SumFunctionOnSet(f, D) - f[d] + g[d]
    <3>1. \A i \in D : f[i] \in Int
      BY <2>2
    <3>2. d \in D
      BY <2>7
    <3>3. g[d] \in Int
      BY <2>7
    <3>4. \A i \in D \ {d} : g[i] = f[i]
      BY <2>5
    <3>. QED
      BY <2>1, <3>1, <3>2, <3>3, <3>4, SumChange
  <2>9. SumFunctionOnSet(f, D) \in Int
    BY <2>1, <2>2, SumInt
  <2>. QED
    BY <2>3, <2>4, <2>6, <2>8, <2>9 DEF m
<1>. QED
  BY <1>2, <1>5, <1>6, <1>7, <1>8, <1>9 DEF es

\* A purchase is corrected together with its entry.
LEMMA JointCorrect ==
  ASSUME NEW ds, NEW bs, Joint(ds, bs), NEW d \in DOMAIN ds,
         ds[d].kind = "PURCHASE_INVOICE", ds[d].status = "ISSUED", NEW e, e = ds[d].entry
  PROVE  Joint([ds EXCEPT ![d].status = "CORRECTED"],
               [Append(bs, [status |-> "POSTED", lines |-> Reversed(bs[e].lines)])
                  EXCEPT ![e].status = "REVERSED"])
<1> DEFINE E == EntryOf(ds[d])
           row == [status |-> "POSTED", lines |-> Reversed(E)]
           as == Append(bs, row)
           cs == [as EXCEPT ![e].status = "REVERSED"]
           es == [ds EXCEPT ![d].status = "CORRECTED"]
           n == Len(bs)
           m(Q) == Measure(E, Q)
<1>1. /\ BooksOK(bs) /\ DocsRight(ds) /\ Linked(ds, bs) /\ Mirrored(ds, bs)
  BY DEF Joint
<1>2. /\ Entered(ds[d], bs) /\ DocRowOK(ds[d])
  BY <1>1 DEF Linked, DocsRight
<1>3. e \in DOMAIN bs /\ bs[e].lines = E /\ bs[e].status = "POSTED"
  BY <1>2 DEF Entered
<1>4. JLines(E) /\ Measure(E, All) = 0
  BY <1>2, EntryBalanced DEF DocRowOK
<1>5. /\ RowOK(row) /\ row \in BookRow
      /\ \A Q : Counted(row, Q) = - m(Q) /\ m(Q) \in Int
  <2>. HIDE DEF E
  <2>. QED  BY <1>4, MirrorRow
<1>. HIDE DEF row, E
<1>6. BooksOK(as) /\ \A Q : /\ Booked(as, Q) = Booked(bs, Q) + Counted(row, Q)
                            /\ Booked(bs, Q) \in Int
  BY <1>1, <1>5, BookAppend
<1>7. /\ DOMAIN bs \subseteq DOMAIN as /\ \A i \in DOMAIN bs : as[i] = bs[i]
  <2>1. bs \in Seq(BookRow)
    BY <1>1 DEF BooksOK
  <2>2. row \in BookRow
    BY <1>5
  <2>3. /\ DOMAIN bs = 1 .. Len(bs) /\ DOMAIN Append(bs, row) = 1 .. (Len(bs) + 1)
        /\ \A i \in DOMAIN bs : Append(bs, row)[i] = bs[i]
    BY <2>1, <2>2, AppendFacts
  <2>4. /\ DOMAIN bs = 1 .. Len(bs) /\ DOMAIN as = 1 .. (Len(bs) + 1)
        /\ \A i \in DOMAIN bs : as[i] = bs[i]
    BY <2>3
  <2>5. Len(bs) \in Nat
    BY <2>1, LenProperties
  <2>. HIDE DEF as
  <2>. HIDE DEF cs, es, m
  <2>6. DOMAIN bs \subseteq DOMAIN as
    <3> DEFINE k == Len(bs)
    <3>. HIDE DEF k
    <3>1. k \in Nat => 1 .. k \subseteq 1 .. (k + 1)
      OBVIOUS
    <3>. QED
      BY <2>4, <2>5, <3>1 DEF k
  <2>. QED
    BY <2>4, <2>6
<1>. HIDE DEF as
<1>8. e \in DOMAIN as /\ as[e] = bs[e]
  BY <1>3, <1>7
<1>9. /\ BooksOK(cs) /\ DOMAIN cs = DOMAIN as
      /\ \A i \in DOMAIN as : cs[i].lines = as[i].lines
      /\ \A i \in DOMAIN as : i # e => cs[i].status = as[i].status
      /\ \A Q : Booked(cs, Q) = Booked(as, Q) - Counted(as[e], Q)
  BY <1>6, <1>8, BookReversed
<1>10. /\ DocsRight(es) /\ DOMAIN es = DOMAIN ds
       /\ \A i \in DOMAIN ds : i # d => es[i] = ds[i]
       /\ es[d].entry = ds[d].entry /\ EntryOf(es[d]) = EntryOf(ds[d])
       /\ es[d].status = "CORRECTED"
       /\ \A Q : Documented(es, Q) = Documented(ds, Q) - m(Q) + (- m(Q))
       /\ \A Q : Documented(ds, Q) \in Int
  BY <1>1, DocCorrected DEF E
<1>. HIDE DEF cs, es
<1>11. Mirrored(es, cs)
  <2>1. ASSUME NEW Q PROVE Booked(cs, Q) = Documented(es, Q)
    <3> DEFINE b == Booked(bs, Q)
               q == m(Q)
    <3>1. Counted(as[e], Q) = q
      BY <1>3, <1>8 DEF Counted
    <3>2. b \in Int /\ q \in Int /\ b = Documented(ds, Q)
      BY <1>1, <1>5, <1>6 DEF Mirrored
    <3>3. Booked(cs, Q) = (b + (- q)) - q
      BY <1>5, <1>6, <1>9, <3>1
    <3>4. Documented(es, Q) = b - q + (- q)
      BY <1>10, <3>2
    <3>. HIDE DEF b, q, m
    <3>5. (b + (- q)) - q = b - q + (- q)
      BY <3>2
    <3>. QED
      BY <3>3, <3>4, <3>5
  <2>. QED
    BY <2>1 DEF Mirrored
<1>12. Linked(es, cs)
  <2>1. ASSUME NEW i \in DOMAIN ds, i # d
        PROVE  Entered(es[i], cs)
    <3>1. es[i] = ds[i] /\ Entered(ds[i], bs) /\ ds[i].entry # e
      BY <1>1, <1>10, <2>1 DEF Linked
    <3>2. /\ ds[i].entry \in DOMAIN cs /\ cs[ds[i].entry].lines = bs[ds[i].entry].lines
          /\ cs[ds[i].entry].status = bs[ds[i].entry].status
      BY <1>7, <1>9, <3>1 DEF Entered
    <3>. QED
      BY <3>1, <3>2 DEF Entered
  <2>2. Entered(es[d], cs)
    BY <1>3, <1>8, <1>9, <1>10 DEF Entered, E
  <2>3. \A i \in DOMAIN es : Entered(es[i], cs)
    BY <1>10, <2>1, <2>2
  <2>4. \A i \in DOMAIN ds : es[i].entry = ds[i].entry
    BY <1>10
  <2>5. \A i, j \in DOMAIN es : es[i].entry = es[j].entry => i = j
    BY <1>1, <1>10, <2>4 DEF Linked
  <2>. QED
    BY <2>3, <2>5 DEF Linked
<1>. QED
  BY <1>3, <1>9, <1>10, <1>11, <1>12 DEF Joint, cs, as, row, es

(***************************************************************************)
(* What the operations take.                                               *)
(***************************************************************************)

DraftKind == {"SALES_INVOICE", "ADVANCE_INVOICE", "PURCHASE_INVOICE"}

DraftRight(d) ==
  /\ d \in Prepared /\ d.kind \in DraftKind
  /\ \A i \in DOMAIN d.lines : d.taxes[d.lines[i].code] \in TaxCode
  /\ d.kind = "PURCHASE_INVOICE" => d.percent = 0 /\ d.amount = 0

AmountsInv == codes \in TaxMap /\ DraftRight(draft) /\ Joint(docs, books)

\* Tax codes under finitely many names are a tax map.
LEMMA TaxMapIs ==
  ASSUME NEW S, S \subseteq STRING, NEW t \in [S -> TaxCode]
  PROVE  t \in TaxMap
  BY DEF TaxMap

\* A tax map has names and tax codes.
LEMMA TaxMapHas ==
  ASSUME NEW t \in TaxMap
  PROVE  DOMAIN t \subseteq STRING /\ \A c \in DOMAIN t : t[c] \in TaxCode
  BY DEF TaxMap

\* The lines of an input.
LEMMA LineOf ==
  ASSUME NEW lines \in Seq(InputLine), NEW i \in DOMAIN lines
  PROVE  lines[i] \in InputLine /\ lines[i].code \in STRING
<1>1. lines[i] \in InputLine
  BY LenProperties, ElementOfSeq
<1>. QED
  BY <1>1 DEF InputLine

\* What a client's or a note's lines take of the tax codes.
LEMMA TaxesTaken ==
  ASSUME codes \in TaxMap, NEW lines \in Seq(InputLine), NEW side, CodesUsable(lines, side)
  PROVE  /\ Taxes(lines) \in TaxMap
         /\ \A i \in DOMAIN lines : /\ Taxes(lines)[lines[i].code] \in TaxCode
                                    /\ codes[lines[i].code] \in TaxCode
<1> DEFINE S == {lines[i].code : i \in DOMAIN lines}
<1>1. S \subseteq STRING
  BY LineOf
<1>2. \A c \in S : codes[c] \in TaxCode
  BY TaxMapHas DEF CodesUsable
<1>3. Taxes(lines) = [c \in S |-> codes[c]]
  BY DEF Taxes
<1>4. \A i \in DOMAIN lines : lines[i].code \in S
  OBVIOUS
<1>. HIDE DEF S
<1>5. Taxes(lines) \in [S -> TaxCode]
  BY <1>2, <1>3
<1>6. Taxes(lines) \in TaxMap
  BY <1>1, <1>5, TaxMapIs
<1>. QED
  BY <1>2, <1>3, <1>4, <1>6

\* Without a discount nothing is shared.
LEMMA NothingOff ==
  ASSUME NEW input, input.lines \in Seq(InputLine), input.percent = 0, input.amount = 0
  PROVE  Discountable(input) /\ DraftOK(input)
<1>1. NetSum(Nets(input.lines)) \in Nat
  BY NetsNat
<1>2. Discount(input) = 0
  BY DEF Discount
<1>3. Discountable(input)
  <2> DEFINE n == NetSum(Nets(input.lines))
  <2>. HIDE DEF n
  <2>1. n \in Nat => 0 <= 10 * n
    OBVIOUS
  <2>. QED
    BY <1>1, <1>2, <2>1 DEF Discountable, n
<1>. QED
  BY <1>3 DEF DraftOK

\* A document of a prepared draft or note, with its entry.
LEMMA DocumentRight ==
  ASSUME NEW n \in Nat, NEW input \in Prepared, NEW taxes, DraftOK(input), Discountable(input),
         \A i \in DOMAIN input.lines : taxes[input.lines[i].code] \in TaxCode,
         NEW used \in Int, NEW doc, NEW lines, lines = Computed(input, taxes),
         doc = [kind |-> input.kind, lines |-> lines, input |-> input, total |-> TotalOf(lines),
                used |-> used, applied |-> 0, credited |-> 0, status |-> "ISSUED",
                entry |-> n + 1]
  PROVE  DocRowOK(doc) /\ doc.status = "ISSUED" /\ TotalOf(lines) \in Int
<1>1. Shape(input.kind, lines)
  BY ComputedShape
<1>2. lines \in Seq(DocLine) /\ Lined(lines)
  BY <1>1 DEF Shape, Lined
<1>3. TotalOf(lines) \in Int
  BY <1>2, TotalFacts
<1>4. input.kind \in Kind
  BY DEF Prepared
<1>. HIDE DEF Kind
<1>5. doc \in DocRow
  BY <1>2, <1>3, <1>4 DEF DocRow, DocStatus
<1>6. DocOK(doc)
  BY <1>1, <1>4 DEF DocOK
<1>. QED
  BY <1>3, <1>5, <1>6 DEF DocRowOK

\* A prepared draft can be discounted.
LEMMA DraftIsOK ==
  ASSUME NEW d, d \in Prepared
  PROVE  DraftOK(d) /\ d.lines \in Seq(InputLine)
  BY DEF Prepared, DraftOK

\* No draft is a draft without lines.
LEMMA NoDraftRight == DraftRight(NoDraft)
<1>1. <<>> \in Seq(InputLine) /\ <<>> \in Seq(TaxCode) /\ DOMAIN <<>> = {}
  OBVIOUS
<1>2. <<>> \in [{} -> TaxCode]
  <2>1. \A s \in Seq(TaxCode) : DOMAIN s = {} => s \in [{} -> TaxCode]
    BY LenProperties
  <2>. QED
    BY <1>1, <2>1
<1>3. <<>> \in TaxMap
  BY <1>2, TaxMapIs
<1>4. NoDraft \in Prepared
  BY <1>1, <1>3 DEF NoDraft, Prepared, Kind, NoLines
<1>. QED
  BY <1>1, <1>4 DEF DraftRight, NoDraft, DraftKind, NoLines

\* The invariant holds where there are no documents and entries.
LEMMA InitAmounts == AmountsInit => AmountsInv
<1>. SUFFICES ASSUME AmountsInit PROVE AmountsInv
  OBVIOUS
<1>1. codes \in TaxMap
  BY InvoiceAmountsAssumption, TaxMapIs DEF AmountsInit
<1>2. DraftRight(draft)
  BY NoDraftRight DEF AmountsInit
<1>3. docs = <<>> /\ books = <<>> /\ DOMAIN docs = {} /\ DOMAIN books = {}
  BY DEF AmountsInit
<1>4. BooksOK(books) /\ DocsRight(docs) /\ Linked(docs, books)
  BY <1>3 DEF BooksOK, DocsRight, Linked
<1>5. ASSUME NEW Q PROVE Booked(books, Q) = Documented(docs, Q)
  BY <1>3, SumEmpty DEF Booked, Documented
<1>. QED
  BY <1>1, <1>2, <1>4, <1>5 DEF AmountsInv, Joint, Mirrored

(***************************************************************************)
(* The operations.                                                         *)
(***************************************************************************)

\* Drafts take lines, and purchases take the tax codes of the day.
LEMMA CreateKeeps ==
  ASSUME AmountsInv, NEW input \in Inputs, CreateInvoiceDraft(input)
  PROVE  AmountsInv'
<1>1. input \in Input
  BY InvoiceAmountsAssumption
<1>2. /\ input.lines \in Seq(InputLine) /\ input.percent \in 0 .. 100 /\ input.amount \in Nat
      /\ input.kind \in DraftKind
      /\ input.kind = "PURCHASE_INVOICE" => input.percent = 0 /\ input.amount = 0
  BY <1>1, InvoiceAmountsAssumption DEF Input, DraftKind
<1>3. /\ Taxes(input.lines) \in TaxMap
      /\ \A i \in DOMAIN input.lines : Taxes(input.lines)[input.lines[i].code] \in TaxCode
  BY <1>2, TaxesTaken DEF AmountsInv, CreateInvoiceDraft
<1>4. draft' = [kind |-> input.kind, lines |-> input.lines, percent |-> input.percent,
                amount |-> input.amount, taxes |-> Taxes(input.lines)]
  BY DEF CreateInvoiceDraft, Draft
<1>5. draft' \in Prepared
  BY <1>2, <1>3, <1>4 DEF Prepared, DraftKind, Kind
<1>6. DraftRight(draft')
  BY <1>2, <1>3, <1>4, <1>5 DEF DraftRight
<1>7. codes' = codes /\ docs' = docs /\ books' = books
  BY DEF CreateInvoiceDraft
<1>. QED
  BY <1>6, <1>7 DEF AmountsInv

\* Tax codes change into tax codes, and documents keep their VAT.
LEMMA ChangeKeeps ==
  ASSUME AmountsInv, NEW c \in DOMAIN Patches, NEW row \in Patches[c], ChangeTaxCode(c, row)
  PROVE  AmountsInv'
<1>1. c \in STRING /\ row \in TaxCode
  BY InvoiceAmountsAssumption
<1> DEFINE S == DOMAIN codes \union {c}
<1>2. S \subseteq STRING /\ \A x \in DOMAIN codes : codes[x] \in TaxCode
  BY <1>1, TaxMapHas DEF AmountsInv
<1>3. codes' \in [S -> TaxCode]
  BY <1>1, <1>2 DEF ChangeTaxCode
<1>4. codes' \in TaxMap
  BY <1>2, <1>3, TaxMapIs
<1>. QED
  BY <1>4 DEF AmountsInv, ChangeTaxCode

\* A document that joins its entry.
LEMMA DocumentJoins ==
  ASSUME Joint(docs, books), NEW input \in Prepared, NEW taxes, DraftOK(input),
         Discountable(input),
         \A i \in DOMAIN input.lines : taxes[input.lines[i].code] \in TaxCode,
         NEW used \in Int, NEW lines, lines = Computed(input, taxes),
         NEW es \in Seq(DocRow), DOMAIN es = DOMAIN docs,
         \A d \in DOMAIN docs : Same(es[d], docs[d]),
         NEW doc, NEW entry,
         doc = [kind |-> input.kind, lines |-> lines, input |-> input, total |-> TotalOf(lines),
                used |-> used, applied |-> 0, credited |-> 0, status |-> "ISSUED",
                entry |-> Len(books) + 1],
         entry = EntryOf(doc)
  PROVE  Joint(Append(es, doc), PostedEntry(entry))
<1>1. Len(books) \in Nat
  <2>1. books \in Seq(BookRow)
    BY DEF Joint, BooksOK
  <2>. QED
    BY <2>1, LenProperties
<1>2. DocRowOK(doc) /\ doc.status = "ISSUED"
  BY <1>1, DocumentRight
<1>3. doc.entry = Len(books) + 1
  OBVIOUS
<1>. QED
  BY <1>2, <1>3, JointAppend DEF PostedEntry

\* Documents that are not touched.
LEMMA DocsThemselves ==
  ASSUME Joint(docs, books)
  PROVE  docs \in Seq(DocRow) /\ \A d \in DOMAIN docs : docs[d] \in DocRow /\ Same(docs[d], docs[d])
<1>1. docs \in Seq(DocRow) /\ \A d \in DOMAIN docs : docs[d] \in DocRow
  BY DEF Joint, DocsRight, DocRowOK
<1>. QED
  BY <1>1 DEF Same

\* An invoice is issued with its entry.
LEMMA IssueKeeps ==
  ASSUME AmountsInv, Issue
  PROVE  AmountsInv'
<1> DEFINE lines == Computed(draft, codes)
           doc == Document(draft.kind, lines, draft)
           entry == IF draft.kind = "ADVANCE_INVOICE" THEN AdvanceEntry(lines)
                    ELSE InvoiceEntry(lines, 0)
<1>1. /\ draft \in Prepared /\ draft.kind \in {"SALES_INVOICE", "ADVANCE_INVOICE"}
      /\ Discountable(draft) /\ CodesUsable(draft.lines, "SALES")
      /\ docs' = Append(docs, doc) /\ books' = PostedEntry(entry)
      /\ draft' = NoDraft /\ codes' = codes
  BY DEF AmountsInv, DraftRight, DraftKind, Issue
<1>2. DraftOK(draft) /\ draft.lines \in Seq(InputLine)
  BY <1>1, DraftIsOK
<1>3. \A i \in DOMAIN draft.lines : codes[draft.lines[i].code] \in TaxCode
  BY <1>1, <1>2, TaxesTaken DEF AmountsInv
<1>4. doc = [kind |-> draft.kind, lines |-> lines, input |-> draft, total |-> TotalOf(lines),
             used |-> 0, applied |-> 0, credited |-> 0, status |-> "ISSUED",
             entry |-> Len(books) + 1]
  BY DEF Document
<1>5. doc.kind = draft.kind /\ doc.lines = lines /\ doc.used = 0
  BY <1>4
<1>. HIDE DEF doc
<1>6. entry = EntryOf(doc)
  BY <1>1, <1>5 DEF EntryOf
<1>. HIDE DEF entry
<1>7. docs \in Seq(DocRow) /\ \A d \in DOMAIN docs : Same(docs[d], docs[d])
  BY DocsThemselves DEF AmountsInv
<1>8. Joint(docs, books)
  BY DEF AmountsInv
<1>9. 0 \in Int /\ lines = Computed(draft, codes)
  OBVIOUS
<1>. HIDE DEF lines
<1>10. Joint(Append(docs, doc), PostedEntry(entry))
  BY <1>1, <1>2, <1>3, <1>4, <1>6, <1>7, <1>8, <1>9, DocumentJoins
<1>11. Joint(docs', books')
  BY <1>1, <1>10
<1>. QED
  BY <1>1, <1>11, NoDraftRight DEF AmountsInv

\* An invoice that uses an advance is issued with its entry.
LEMMA IssueWithAdvanceKeeps ==
  ASSUME AmountsInv, NEW a \in DOMAIN docs, NEW amount, amount \in Int,
         IssueWithAdvance(a, amount)
  PROVE  AmountsInv'
<1> DEFINE lines == Computed(draft, codes)
           old == Document(draft.kind, lines, draft)
           doc == [old EXCEPT !.used = amount]
           entry == InvoiceEntry(lines, amount)
           es == [docs EXCEPT ![a].applied = @ + amount]
           twin == [docs[a] EXCEPT !.applied = @ + amount]
<1>1. /\ draft \in Prepared /\ draft.kind = "SALES_INVOICE"
      /\ Discountable(draft) /\ CodesUsable(draft.lines, "SALES")
      /\ docs' = Append(es, doc) /\ books' = PostedEntry(entry)
      /\ draft' = NoDraft /\ codes' = codes
  BY DEF AmountsInv, DraftRight, IssueWithAdvance
<1>2. DraftOK(draft) /\ draft.lines \in Seq(InputLine)
  BY <1>1, DraftIsOK
<1>3. \A i \in DOMAIN draft.lines : codes[draft.lines[i].code] \in TaxCode
  BY <1>1, <1>2, TaxesTaken DEF AmountsInv
<1>4. doc = [kind |-> draft.kind, lines |-> lines, input |-> draft, total |-> TotalOf(lines),
             used |-> amount, applied |-> 0, credited |-> 0, status |-> "ISSUED",
             entry |-> Len(books) + 1]
  BY DEF Document
<1>5. doc.kind = draft.kind /\ doc.lines = lines /\ doc.used = amount
  BY <1>4
<1>. HIDE DEF doc, old
<1>6. entry = EntryOf(doc)
  BY <1>1, <1>5 DEF EntryOf
<1>. HIDE DEF entry
<1>7. Joint(docs, books) /\ docs \in Seq(DocRow) /\ docs[a] \in DocRow
      /\ \A d \in DOMAIN docs : Same(docs[d], docs[d])
  BY DocsThemselves DEF AmountsInv
<1>8. /\ twin \in DocRow /\ Same(twin, docs[a])
  <2> DEFINE row == docs[a]
             k == row.applied + amount
  <2>1. row \in DocRow /\ k \in Int
    BY <1>7 DEF DocRow
  <2>2. twin = [row EXCEPT !.applied = k]
    OBVIOUS
  <2>. HIDE DEF row, k, twin
  <2>3. twin \in DocRow /\ Same(twin, row)
    BY <2>1, <2>2 DEF DocRow, Same
  <2>. QED
    BY <2>3 DEF row
<1>9. es = [docs EXCEPT ![a] = twin]
  OBVIOUS
<1>. HIDE DEF twin, es
<1>10. es \in Seq(DocRow)
  <2>1. a \in 1 .. Len(docs)
    BY <1>7, LenProperties
  <2>. QED
    BY <1>7, <1>8, <1>9, <2>1, ExceptSeq
<1>11. DOMAIN es = DOMAIN docs /\ \A d \in DOMAIN docs : Same(es[d], docs[d])
  BY <1>7, <1>8, <1>9
<1>12. lines = Computed(draft, codes)
  OBVIOUS
<1>. HIDE DEF lines
<1>13. Joint(Append(es, doc), PostedEntry(entry))
  BY <1>1, <1>2, <1>3, <1>4, <1>6, <1>7, <1>10, <1>11, <1>12, DocumentJoins
<1>14. Joint(docs', books')
  BY <1>1, <1>13
<1>. QED
  BY <1>1, <1>14, NoDraftRight DEF AmountsInv

\* A purchase is posted with its entry.
LEMMA PostPurchaseKeeps ==
  ASSUME AmountsInv, PostPurchase
  PROVE  AmountsInv'
<1> DEFINE lines == Computed(draft, draft.taxes)
           doc == Document(draft.kind, lines, draft)
           entry == PurchaseEntry(lines)
<1>1. /\ draft \in Prepared /\ draft.kind = "PURCHASE_INVOICE"
      /\ draft.percent = 0 /\ draft.amount = 0
      /\ docs' = Append(docs, doc) /\ books' = PostedEntry(entry)
      /\ draft' = NoDraft /\ codes' = codes
  BY DEF AmountsInv, DraftRight, PostPurchase
<1>2. DraftOK(draft) /\ draft.lines \in Seq(InputLine)
  BY <1>1, DraftIsOK
<1>3. Discountable(draft)
  BY <1>1, <1>2, NothingOff
<1>4. \A i \in DOMAIN draft.lines : draft.taxes[draft.lines[i].code] \in TaxCode
  BY DEF AmountsInv, DraftRight
<1>5. doc = [kind |-> draft.kind, lines |-> lines, input |-> draft, total |-> TotalOf(lines),
             used |-> 0, applied |-> 0, credited |-> 0, status |-> "ISSUED",
             entry |-> Len(books) + 1]
  BY DEF Document
<1>6. doc.kind = draft.kind /\ doc.lines = lines
  BY <1>5
<1>. HIDE DEF doc
<1>7. entry = EntryOf(doc)
  BY <1>1, <1>6 DEF EntryOf
<1>. HIDE DEF entry
<1>8. docs \in Seq(DocRow) /\ \A d \in DOMAIN docs : Same(docs[d], docs[d])
  BY DocsThemselves DEF AmountsInv
<1>9. Joint(docs, books)
  BY DEF AmountsInv
<1>10. 0 \in Int /\ lines = Computed(draft, draft.taxes)
  OBVIOUS
<1> DEFINE taxes == draft.taxes
<1>. HIDE DEF lines, taxes
<1>11. Joint(Append(docs, doc), PostedEntry(entry))
  <2>1. (\A i \in DOMAIN draft.lines : taxes[draft.lines[i].code] \in TaxCode)
        /\ lines = Computed(draft, taxes)
    BY <1>4, <1>10 DEF taxes
  <2>. QED
    BY <1>1, <1>2, <1>3, <1>5, <1>7, <1>8, <1>9, <1>10, <2>1, DocumentJoins
<1>12. Joint(docs', books')
  BY <1>1, <1>11
<1>. QED
  BY <1>1, <1>12, NoDraftRight DEF AmountsInv

\* The lines a partial note takes.
LEMMA SelectedLines ==
  ASSUME NEW d \in DOMAIN docs, docs[d].input.lines \in Seq(InputLine),
         NEW selection \in Selections, Selectable(d, selection)
  PROVE  Selected(d, selection) \in Seq(InputLine)
<1>1. /\ selection \in Seq([line : Nat, quantity : Nat])
  BY InvoiceAmountsAssumption DEF Selection
<1>2. /\ DOMAIN selection = 1 .. Len(selection) /\ Len(selection) \in Nat
      /\ \A k \in DOMAIN selection : selection[k].quantity \in Nat
  <2>1. DOMAIN selection = 1 .. Len(selection) /\ Len(selection) \in Nat
    BY <1>1, LenProperties
  <2>2. \A k \in DOMAIN selection : selection[k] \in [line : Nat, quantity : Nat]
    BY <1>1, <2>1, ElementOfSeq
  <2>. QED
    BY <2>1, <2>2
<1> DEFINE row(k) == [docs[d].input.lines[selection[k].line]
                        EXCEPT !.quantity = 10 * Rounded(selection[k].quantity, 10)]
<1>3. ASSUME NEW k \in DOMAIN selection PROVE row(k) \in InputLine
  <2> DEFINE line == docs[d].input.lines[selection[k].line]
             q == Rounded(selection[k].quantity, 10)
  <2>1. line \in InputLine
    <3> DEFINE ls == docs[d].input.lines
               i == selection[k].line
    <3>1. i \in DOMAIN ls
      BY DEF Selectable
    <3>2. ls \in Seq(InputLine)
      OBVIOUS
    <3>. HIDE DEF ls, i
    <3>3. ls[i] \in InputLine
      BY <3>1, <3>2, LineOf
    <3>. QED
      BY <3>3 DEF ls, i
  <2>2. q \in Nat
    <3> DEFINE n == selection[k].quantity
    <3>1. n \in Nat
      BY <1>2
    <3>. HIDE DEF n
    <3>2. Rounded(n, 10) \in Nat
      BY <3>1, RoundedNat
    <3>. QED
      BY <3>2 DEF n
  <2>3. row(k) = [line EXCEPT !.quantity = 10 * q]
    OBVIOUS
  <2>. HIDE DEF line, q, row
  <2>4. 10 * q \in Nat
    BY <2>2
  <2>. QED
    BY <2>1, <2>3, <2>4 DEF InputLine
<1>4. Selected(d, selection) = [k \in 1 .. Len(selection) |-> row(k)]
  BY <1>2 DEF Selected
<1>. HIDE DEF row
<1>. QED
  BY <1>2, <1>3, <1>4, IsASeq

\* A credit note is issued with its entry, by the tax codes of its day.
LEMMA CreditKeeps ==
  ASSUME AmountsInv, NEW d \in DOMAIN docs, NEW noteLines \in Seq(InputLine), NEW partial,
         Credit(d, noteLines, partial)
  PROVE  AmountsInv'
<1> DEFINE note == NoteInput(noteLines)
           lines == Computed(note, codes)
           credited == docs[d].credited + TotalOf(lines)
           fully == credited + 1 >= docs[d].total - docs[d].used
           es == [docs EXCEPT ![d].credited = credited,
                              ![d].status = IF fully THEN "CREDITED" ELSE @]
           twin == [docs[d] EXCEPT !.credited = credited,
                                   !.status = IF fully THEN "CREDITED" ELSE @]
           doc == Document("SALES_CREDIT_NOTE", lines, note)
           entry == NoteEntry(lines)
<1>1. /\ CodesUsable(noteLines, "SALES") /\ docs[d].status = "ISSUED"
      /\ docs' = Append(es, doc) /\ books' = PostedEntry(entry)
      /\ draft' = draft /\ codes' = codes
  BY DEF Credit
<1>2. /\ Taxes(noteLines) \in TaxMap
      /\ \A i \in DOMAIN noteLines : codes[noteLines[i].code] \in TaxCode
  BY <1>1, TaxesTaken DEF AmountsInv
<1>3. /\ note.kind = "SALES_CREDIT_NOTE" /\ note.lines = noteLines /\ note.percent = 0
      /\ note.amount = 0
  BY DEF NoteInput
<1>4. note \in Prepared
  BY <1>2 DEF NoteInput, Prepared, Kind
<1>5. doc = [kind |-> note.kind, lines |-> lines, input |-> note, total |-> TotalOf(lines),
             used |-> 0, applied |-> 0, credited |-> 0, status |-> "ISSUED",
             entry |-> Len(books) + 1]
  BY <1>3 DEF Document
<1>. HIDE DEF note
<1>6. Discountable(note) /\ DraftOK(note)
  BY <1>3, NothingOff
<1>7. \A i \in DOMAIN note.lines : codes[note.lines[i].code] \in TaxCode
  BY <1>2, <1>3
<1>8. doc.kind = "SALES_CREDIT_NOTE" /\ doc.lines = lines
  BY <1>3, <1>5
<1>. HIDE DEF doc
<1>9. entry = EntryOf(doc)
  BY <1>8 DEF EntryOf
<1>. HIDE DEF entry
<1>10. Joint(docs, books) /\ docs \in Seq(DocRow) /\ docs[d] \in DocRow
       /\ \A k \in DOMAIN docs : Same(docs[k], docs[k])
  BY DocsThemselves DEF AmountsInv
<1>11. TotalOf(lines) \in Int
  <2>1. Shape(note.kind, lines)
    BY <1>6, <1>7, ComputedShape
  <2>2. Lined(lines)
    BY <2>1 DEF Shape, Lined
  <2>. QED
    BY <2>2, TotalFacts
<1>12. twin \in DocRow /\ Same(twin, docs[d])
  <2> DEFINE row == docs[d]
             k == credited
             s == IF fully THEN "CREDITED" ELSE row.status
  <2>1. row \in DocRow /\ row.status = "ISSUED"
    BY <1>1, <1>10
  <2>2. k \in Int
    <3> DEFINE t == TotalOf(lines)
    <3>1. row.credited \in Int /\ t \in Int
      BY <1>11, <2>1 DEF DocRow
    <3>. HIDE DEF t, row
    <3>2. row.credited + t \in Int
      BY <3>1
    <3>. QED
      BY <3>2 DEF t, row
  <2>3. s \in {"CREDITED", "ISSUED"}
    BY <2>1
  <2>4. twin = [row EXCEPT !.credited = k, !.status = s]
    OBVIOUS
  <2>. HIDE DEF row, k, s, twin
  <2>5. twin \in DocRow /\ Same(twin, row)
    BY <2>1, <2>2, <2>3, <2>4 DEF DocRow, DocStatus, Same
  <2>. QED
    BY <2>5 DEF row
<1>13. es = [docs EXCEPT ![d] = twin]
  OBVIOUS
<1>. HIDE DEF twin, es, credited, fully
<1>14. es \in Seq(DocRow)
  <2>1. d \in 1 .. Len(docs)
    BY <1>10, LenProperties
  <2>. QED
    BY <1>10, <1>12, <1>13, <2>1, ExceptSeq
<1>15. DOMAIN es = DOMAIN docs /\ \A k \in DOMAIN docs : Same(es[k], docs[k])
  BY <1>10, <1>12, <1>13
<1>16. 0 \in Int /\ lines = Computed(note, codes)
  OBVIOUS
<1>. HIDE DEF lines
<1>17. Joint(Append(es, doc), PostedEntry(entry))
  BY <1>4, <1>5, <1>6, <1>7, <1>9, <1>10, <1>14, <1>15, <1>16, DocumentJoins
<1>18. Joint(docs', books')
  BY <1>1, <1>17
<1>. QED
  BY <1>1, <1>18 DEF AmountsInv

\* A full note repeats the lines.
LEMMA CreditAllKeeps ==
  ASSUME AmountsInv, NEW d \in DOMAIN docs, CreditAll(d)
  PROVE  AmountsInv'
<1>1. docs[d].input.lines \in Seq(InputLine)
  <2>1. docs[d] \in DocRow
    BY DocsThemselves DEF AmountsInv
  <2>. QED
    BY <2>1 DEF DocRow, Prepared
<1>. QED
  BY <1>1, CreditKeeps DEF CreditAll

\* A partial note selects them.
LEMMA CreditSomeKeeps ==
  ASSUME AmountsInv, NEW d \in DOMAIN docs, NEW selection \in Selections,
         CreditSome(d, selection)
  PROVE  AmountsInv'
<1>1. docs[d].input.lines \in Seq(InputLine)
  <2>1. docs[d] \in DocRow
    BY DocsThemselves DEF AmountsInv
  <2>. QED
    BY <2>1 DEF DocRow, Prepared
<1>2. Selected(d, selection) \in Seq(InputLine)
  BY <1>1, SelectedLines DEF CreditSome
<1>. QED
  BY <1>2, CreditKeeps DEF CreditSome

\* A purchase is corrected with its entry.
LEMMA CorrectKeeps ==
  ASSUME AmountsInv, NEW d \in DOMAIN docs, CorrectPurchase(d)
  PROVE  AmountsInv'
<1> DEFINE e == docs[d].entry
<1>1. /\ docs[d].kind = "PURCHASE_INVOICE" /\ docs[d].status = "ISSUED"
      /\ docs' = [docs EXCEPT ![d].status = "CORRECTED"]
      /\ books' = [Append(books, [status |-> "POSTED", lines |-> Reversed(books[e].lines)])
                     EXCEPT ![e].status = "REVERSED"]
      /\ codes' = codes /\ draft' = draft
  BY DEF CorrectPurchase, PostedEntry
<1>2. Joint(docs, books)
  BY DEF AmountsInv
<1>3. Joint(docs', books')
  BY <1>1, <1>2, JointCorrect
<1>. QED
  BY <1>1, <1>3 DEF AmountsInv

\* The invariant is inductive: one case per operation.
LEMMA NextAmounts == AmountsInv /\ [AmountsNext]_amountVars => AmountsInv'
<1>. SUFFICES ASSUME AmountsInv, [AmountsNext]_amountVars PROVE AmountsInv'
  OBVIOUS
<1>1. CASE UNCHANGED amountVars
  BY <1>1 DEF AmountsInv, amountVars
<1>2. CASE \E input \in Inputs : CreateInvoiceDraft(input)
  BY <1>2, CreateKeeps
<1>3. CASE \E c \in DOMAIN Patches : \E row \in Patches[c] :
             CreateTaxCode(c, row) \/ UpdateTaxCode(c, row)
  <2>1. PICK c \in DOMAIN Patches : \E row \in Patches[c] :
               CreateTaxCode(c, row) \/ UpdateTaxCode(c, row)
    BY <1>3
  <2>2. PICK row \in Patches[c] : ChangeTaxCode(c, row)
    BY <2>1 DEF CreateTaxCode, UpdateTaxCode
  <2>. QED
    BY <2>2, ChangeKeeps
<1>4. CASE Issue
  BY <1>4, IssueKeeps
<1>5. CASE \E a \in DOMAIN docs : \E amount \in {1, Left(a)} : IssueWithAdvance(a, amount)
  <2>1. PICK a \in DOMAIN docs : \E amount \in {1, Left(a)} : IssueWithAdvance(a, amount)
    BY <1>5
  <2>2. docs[a] \in DocRow
    BY DocsThemselves DEF AmountsInv
  <2>3. PICK amount \in {1, Left(a)} : IssueWithAdvance(a, amount)
    BY <2>1
  <2>4. amount \in Int
    BY <2>2 DEF DocRow, Left
  <2>. QED
    BY <2>3, <2>4, IssueWithAdvanceKeeps
<1>6. CASE PostPurchase
  BY <1>6, PostPurchaseKeeps
<1>7. CASE \E d \in DOMAIN docs :
             \/ CreditAll(d)
             \/ \E selection \in Selections : CreditSome(d, selection)
             \/ CorrectPurchase(d)
  BY <1>7, CreditAllKeeps, CreditSomeKeeps, CorrectKeeps
<1>. QED
  BY <1>1, <1>2, <1>3, <1>4, <1>5, <1>6, <1>7 DEF AmountsNext

\* Drafts, tax codes, documents and entries keep their shape, and every document
\* stands beside an entry of its own that says what it says (issueInvoice,
\* createCreditNote, postApprovedPurchase, correctPurchaseInvoice).
THEOREM AmountsTyped == AmountsSpec => []AmountsInv
<1>1. AmountsInit => AmountsInv
  BY InitAmounts
<1>2. AmountsInv /\ [AmountsNext]_amountVars => AmountsInv'
  BY NextAmounts
<1>. QED
  BY <1>1, <1>2, PTL DEF AmountsSpec

\* The invariant makes the books meet the documents.
LEMMA JointMeets == Joint(docs, books) => BooksMeetDocuments
<1>. SUFFICES ASSUME Joint(docs, books) PROVE BooksMeetDocuments
  OBVIOUS
<1>1. EntriesOK
  BY LenProperties DEF Joint, BooksOK, RowOK, EntriesOK
<1>2. DocsOK
  BY LenProperties DEF Joint, DocsRight, DocRowOK, DocsOK
<1>3. Mirrored(docs, books)
  BY DEF Joint
<1>. QED
  BY <1>1, <1>2, <1>3, BooksMeetFromInv

\* However lines are discounted, rounded and grouped, whatever happens to the tax
\* codes, entries balance and the VAT summary says what the lines of the documents
\* say (buildInvoiceJournalLines, postApprovedPurchase, vatSummary).
THEOREM BooksMeet == AmountsSpec => []BooksMeetDocuments
<1>1. AmountsInv => BooksMeetDocuments
  BY JointMeets DEF AmountsInv
<1>. QED
  BY <1>1, AmountsTyped, PTL

\* The draft is shared out by the lemma on shares.
LEMMA DraftShared == AmountsInv => DiscountIsShared
<1>. SUFFICES ASSUME AmountsInv, Discountable(draft), Discount(draft) > 0
              PROVE LET nets == Nets(draft.lines)
                        shares == DiscountShares(draft)
                        whole == 10 * NetSum(nets)
                    IN /\ NetSum(shares) = Discount(draft) \div 10
                       /\ \A i \in DOMAIN nets :
                            /\ shares[i] \in 0 .. nets[i]
                            /\ nets[i] * Discount(draft) - whole < whole * shares[i]
                            /\ whole * shares[i] < nets[i] * Discount(draft) + whole
                       /\ \A i, j \in DOMAIN nets : nets[i] > nets[j] => shares[i] >= shares[j]
  BY DEF DiscountIsShared
<1> DEFINE nets == Nets(draft.lines)
           d == Discount(draft)
           D == DOMAIN draft.lines
<1>1. DraftOK(draft) /\ draft.lines \in Seq(InputLine)
  BY DraftIsOK DEF AmountsInv, DraftRight
<1>2. /\ D \subseteq Nat /\ IsFiniteSet(D) /\ nets \in [D -> Nat] /\ NetSum(nets) \in Nat
      /\ d \in Nat /\ d <= 10 * NetSum(nets) /\ d > 0
  BY <1>1, NetsNat, DiscountNat DEF Discountable
<1>3. DiscountShares(draft) = Shares(nets, d)
  BY <1>2 DEF DiscountShares
<1>4. DOMAIN nets = D
  BY DEF Nets
<1>. HIDE DEF nets, d, D
<1>5. Shared(D, nets, d) /\ d <= Whole(nets)
  BY <1>2 DEF Shared, Whole
<1>6. /\ NetSum(Shares(nets, d)) = d \div 10
      /\ \A i \in D :
           /\ Shares(nets, d)[i] \in 0 .. nets[i]
           /\ nets[i] * d - Whole(nets) < Whole(nets) * Shares(nets, d)[i]
           /\ Whole(nets) * Shares(nets, d)[i] < nets[i] * d + Whole(nets)
      /\ \A i, j \in D : nets[i] > nets[j] => Shares(nets, d)[i] >= Shares(nets, d)[j]
  BY <1>5, SharesFacts
<1>. QED
  BY <1>3, <1>4, <1>6, Zenon DEF Whole, nets, d

\* A discount is handed out to the cent and fairly, for any lines and any discount
\* (allocateInvoiceDiscount).
THEOREM DiscountShared == AmountsSpec => []DiscountIsShared
<1>1. AmountsInv => DiscountIsShared
  BY DraftShared
<1>. QED
  BY <1>1, AmountsTyped, PTL
=============================================================================
